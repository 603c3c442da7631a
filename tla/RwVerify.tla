------------------------------ MODULE RwVerify ------------------------------
(***************************************************************************)
(* The integers of linux/fs/read_write.c and the test every transfer goes  *)
(* through, rw_verify_area.  loff_t and ssize_t are signed words and       *)
(* size_t is an unsigned word of the same width, 2 * Half values; the      *)
(* kernel is built with wrapping signed arithmetic.                        *)
(***************************************************************************)
EXTENDS Integers

CONSTANTS
  Half,           \* LLONG_MAX + 1
  MAX_RW_COUNT    \* the most bytes one call may transfer

ASSUME RwAssumption ==
  /\ Half \in Nat \ {0}
  /\ MAX_RW_COUNT \in 1 .. Half - 1

loff_t == -Half .. Half - 1
size_t == 0 .. 2 * Half - 1

\* The conversions (loff_t) x and (size_t) x of a result of either type.
Signed(x)   == ((x + Half) % (2 * Half)) - Half
Unsigned(x) == x % (2 * Half)

EIO       == -5
ENOMEM    == -12
EACCES    == -13
EFAULT    == -14
EINVAL    == -22
EFBIG     == -27
EOVERFLOW == -75

\* Variant with a bug: a transfer may end behind the last unsigned offset.
RangeErrorLate(unsigned, pos, count) ==
  IF pos < 0
    THEN IF ~ unsigned THEN EINVAL
         ELSE IF count > Unsigned(-pos) THEN EOVERFLOW ELSE 0
    ELSE IF Signed(pos + count) < 0 /\ ~ unsigned THEN EINVAL ELSE 0

\* The position tests of rw_verify_area: an error, or 0 when pos can be used.
\* "unsigned" is unsigned_offsets(file).
RangeError(unsigned, pos, count) ==
  IF pos < 0
    THEN IF ~ unsigned THEN EINVAL
         ELSE IF count >= Unsigned(-pos) THEN EOVERFLOW ELSE 0
    ELSE IF Signed(pos + count) < 0 /\ ~ unsigned THEN EINVAL ELSE 0

\* rw_verify_area when no mandatory lock and no security module objects: the
\* count to transfer, or a negative error.
rw_verify_area(unsigned, pos, count) ==
  CASE Signed(count) < 0                       -> EINVAL
    [] Signed(count) >= 0 /\ RangeError(unsigned, pos, count) < 0
                                               -> RangeError(unsigned, pos, count)
    [] OTHER -> IF count > MAX_RW_COUNT THEN MAX_RW_COUNT ELSE count

\* What it can return at all: locks_mandatory_area and
\* security_file_permission, external, may refuse an acceptable range.
VerifyOutcomes(unsigned, pos, count) ==
  LET v == rw_verify_area(unsigned, pos, count)
  IN  IF v < 0 THEN {v} ELSE {v, EACCES}

\* The reference: bytes pos, ..., pos + count - 1 and the position behind them
\* are all offsets of the file.
Addressable(unsigned, pos, count) ==
  IF unsigned THEN Unsigned(pos) + count < 2 * Half
              ELSE pos >= 0 /\ pos + count < Half
=============================================================================
