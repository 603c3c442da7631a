------------------------------ MODULE VectorIO ------------------------------
(***************************************************************************)
(* One readv, writev, preadv or pwritev of linux/fs/read_write.c:          *)
(* rw_copy_check_uvector copies and cuts the caller's vector, then         *)
(* do_readv_writev verifies the range and transfers through the file's     *)
(* aio method, which may cut the vector once more with iov_shorten, or     *)
(* segment by segment through its plain method (do_loop_readv_writev).     *)
(* The loops are actions, one iteration each.                              *)
(***************************************************************************)
EXTENDS RwVerify, Sequences

CONSTANTS
  UIO_MAXIOV,    \* the longest vector accepted
  UserVectors,   \* the iov_len's a caller may pass, as sequences
  Positions      \* the positions a call may start at

ASSUME VectorAssumption ==
  /\ UIO_MAXIOV \in Nat
  /\ UserVectors \subseteq Seq(size_t)
  /\ Positions \subseteq loff_t

VARIABLES
  uvector,   \* the caller's vector
  unsigned,  \* unsigned_offsets(file)
  aio,       \* has the file an aio method?
  start,     \* *pos when the call begins
  iov,       \* the kernel's copy
  seg,       \* the segment a loop looks at
  nr_segs,
  len,       \* tot_len; in iov_shorten the length of the segments passed
  to,        \* iov_shorten's limit
  pos,       \* *pos
  filled,    \* history: bytes transferred to or from each segment
  asked,     \* history: what the segments checked so far add up to
  ret,
  pc

user == <<uvector, unsigned, aio, start>>
vars == <<uvector, unsigned, aio, start, iov, seg, nr_segs, len, to, pos, filled, asked, ret, pc>>

Least(a, b) == IF a <= b THEN a ELSE b

\* Lengths, counts and positions keep their ranges; in particular the kernel's
\* vector never gets more segments than the caller gave.
TypeOK ==
  /\ uvector \in UserVectors /\ unsigned \in BOOLEAN /\ aio \in BOOLEAN /\ start \in Positions
  /\ iov \in Seq(size_t) /\ DOMAIN iov = DOMAIN uvector
  /\ seg \in Nat /\ nr_segs \in 0 .. Len(uvector)
  /\ len \in 0 .. MAX_RW_COUNT /\ to \in 0 .. MAX_RW_COUNT
  /\ pos \in loff_t
  /\ filled \in [DOMAIN uvector -> 0 .. MAX_RW_COUNT]
  /\ asked \in Nat
  /\ ret \in Int
  /\ pc \in {"copy", "check", "verify", "call", "shorten", "aio", "loop", "done"}

Init ==
  /\ uvector \in UserVectors /\ unsigned \in BOOLEAN /\ aio \in BOOLEAN
  /\ start \in Positions
  /\ iov = uvector /\ nr_segs = Len(uvector)
  /\ seg = 1 /\ len = 0 /\ to = 0 /\ asked = 0 /\ ret = 0
  /\ pos = start
  /\ filled = [i \in DOMAIN uvector |-> 0]
  /\ pc = "copy"

\* goto out, with the value of ret
Out(value) ==
  /\ ret' = value /\ pc' = "done"
  /\ UNCHANGED <<user, iov, seg, nr_segs, len, to, pos, filled, asked>>

(***************************************************************************)
(* rw_copy_check_uvector                                                   *)
(***************************************************************************)
CopyVector ==
  /\ pc = "copy"
  /\ \/ nr_segs = 0 /\ Out(0)
     \/ nr_segs > UIO_MAXIOV /\ Out(EINVAL)
     \/ /\ nr_segs \in 1 .. UIO_MAXIOV
        /\ \/ \E error \in {ENOMEM, EFAULT} : Out(error)
           \/ /\ pc' = "check"
              /\ UNCHANGED <<user, iov, seg, nr_segs, len, to, pos, filled, asked, ret>>

\* Variant with a bug: the limit is compared with the segment alone.
CutAlone(n, sum) == IF n > MAX_RW_COUNT THEN MAX_RW_COUNT ELSE n

\* A segment that would lift the sum over MAX_RW_COUNT is cut.
Cut(n, sum) == IF n > MAX_RW_COUNT - sum THEN MAX_RW_COUNT - sum ELSE n

CheckSegment ==
  /\ pc = "check" /\ seg <= nr_segs
  /\ \/ Signed(iov[seg]) < 0 /\ Out(EINVAL)
     \/ Signed(iov[seg]) >= 0 /\ Out(EFAULT)      \* access_ok failed
     \/ /\ Signed(iov[seg]) >= 0
        /\ iov' = [iov EXCEPT ![seg] = Cut(@, ret)]
        /\ ret' = ret + iov'[seg]
        /\ asked' = asked + uvector[seg]
        /\ seg' = seg + 1
        /\ UNCHANGED <<user, nr_segs, len, to, pos, filled, pc>>

EndCheck ==
  /\ pc = "check" /\ seg > nr_segs
  /\ IF ret <= 0 THEN Out(ret)
     ELSE /\ len' = ret /\ pc' = "verify"
          /\ UNCHANGED <<user, iov, seg, nr_segs, to, pos, filled, asked, ret>>

(***************************************************************************)
(* do_readv_writev                                                         *)
(***************************************************************************)
Verify ==
  /\ pc = "verify"
  /\ \E v \in VerifyOutcomes(unsigned, pos, len) :
       IF v < 0 THEN Out(v)
       ELSE /\ ret' = 0 /\ seg' = 1
            /\ pc' = IF aio THEN "call" ELSE "loop"
            /\ UNCHANGED <<user, iov, nr_segs, len, to, pos, filled, asked>>

\* Variant with a bug: a short segment does not end the loop.
ShortEndsNever(nr, length) == FALSE

ShortEnds(nr, length) == nr # length

\* Variant with a bug: the position moves by what the segment could hold.
AdvancedFully(nr) == Signed(pos + iov[seg])

Advanced(nr) == Signed(pos + nr)

\* do_loop_readv_writev: the plain method, external, moves nr of the segment's
\* bytes, or fails and leaves *ppos as it was.
LoopSegment ==
  /\ pc = "loop" /\ seg <= nr_segs
  /\ \E nr \in {EIO} \cup 0 .. iov[seg] :
       IF nr < 0 THEN Out(IF ret = 0 THEN nr ELSE ret)
       ELSE /\ ret' = ret + nr
            /\ pos' = Advanced(nr)
            /\ filled' = [filled EXCEPT ![seg] = nr]
            /\ seg' = seg + 1
            /\ pc' = IF ShortEnds(nr, iov[seg]) THEN "done" ELSE pc
            /\ UNCHANGED <<user, iov, nr_segs, len, to, asked>>

EndLoop == pc = "loop" /\ seg > nr_segs /\ Out(ret)

\* do_sync_readv_writev calls the aio method, which can find a lower limit for
\* the count (generic_file_direct_write) and then cuts the vector to it.
CallMethod ==
  /\ pc = "call"
  /\ \/ /\ \E limit \in 1 .. len - 1 : to' = limit
        /\ len' = 0 /\ pc' = "shorten"
     \/ to' = len /\ len' = len /\ pc' = "aio"
  /\ UNCHANGED <<user, iov, seg, nr_segs, pos, filled, asked, ret>>

\* Variant with a bug: the segment that reaches the limit keeps its length.
ShortenedUncut(n) == n

Shortened(n) == to - len

\* Variant with a bug: one segment too many is reported.
ShortenedSegsNext == seg + 1

ShortenedSegs == seg

iov_shorten ==
  /\ pc = "shorten" /\ seg <= nr_segs
  /\ IF len + iov[seg] >= to
       THEN /\ iov' = [iov EXCEPT ![seg] = Shortened(@)]
            /\ nr_segs' = ShortenedSegs /\ pc' = "aio"
            /\ UNCHANGED <<seg, len>>
       ELSE /\ seg' = seg + 1 /\ len' = len + iov[seg]
            /\ UNCHANGED <<iov, nr_segs, pc>>
  /\ UNCHANGED <<user, to, pos, filled, asked, ret>>

\* The bytes of the segments before the i-th
Before(i) == LET sum[k \in 0 .. Len(iov)] == IF k = 0 THEN 0 ELSE sum[k - 1] + iov[k]
             IN  sum[i - 1]

\* The method moves n bytes of the vector in order.  It may fail afterwards, as
\* generic_file_aio_write does when the sync fails; do_sync_readv_writev
\* stores ki_pos in *ppos all the same.
aio_method ==
  /\ pc = "aio"
  /\ \E n \in 0 .. Before(nr_segs + 1) :
       /\ ret' \in {n, EIO}
       /\ pos' = Signed(pos + n)
       /\ filled' = [i \in DOMAIN filled |->
                       IF i > nr_segs \/ n <= Before(i) THEN 0 ELSE Least(iov[i], n - Before(i))]
  /\ pc' = "done"
  /\ UNCHANGED <<user, iov, seg, nr_segs, len, to, asked>>

Next ==
  \/ CopyVector \/ CheckSegment \/ EndCheck \/ Verify
  \/ LoopSegment \/ EndLoop \/ CallMethod \/ iov_shorten \/ aio_method

Spec == Init /\ [][Next]_vars

(***************************************************************************)
(* Properties                                                              *)
(***************************************************************************)
\* The checked vector is the caller's, cut at MAX_RW_COUNT bytes: the sum is
\* the lesser of both, and behind a cut segment nothing is left
\* (rw_copy_check_uvector: the sum cannot overflow, whatever the lengths).
CutToLimit ==
  pc = "check" =>
    /\ ret = Least(asked, MAX_RW_COUNT)
    /\ \A i \in 1 .. seg - 1 :
         iov[i] < uvector[i] => ret = MAX_RW_COUNT /\ \A j \in i + 1 .. seg - 1 : iov[j] = 0

\* The bytes transferred so far
Transferred ==
  LET sum[k \in 0 .. Len(filled)] == IF k = 0 THEN 0 ELSE sum[k - 1] + filled[k]
  IN  sum[Len(filled)]

\* The bytes transferred are a prefix of the caller's vector as the caller
\* gave it, and as many as the call reports: no segment is left with a hole
\* before a later one is used, whichever loop cut or filled the vector.  A
\* call that fails transferred nothing, unless the aio method itself failed
\* (do_sync_readv_writev): then any prefix may have been.
TransfersPrefix ==
  /\ \A i, j \in DOMAIN filled : i < j /\ filled[j] > 0 => filled[i] = uvector[i]
  /\ pc = "done" => \/ ret >= 0 /\ Transferred = ret
                    \/ ret < 0 /\ Transferred = 0
                    \/ ret = EIO /\ aio

\* The range is verified once, for the whole vector, and that is enough: the
\* position never wraps on the way, and is the start plus what was moved,
\* after an error as well.
NeverWraps ==
  pc \in {"loop", "done"} =>
    IF unsigned THEN Unsigned(pos) = Unsigned(start) + Transferred ELSE pos = start + Transferred

\* rw_verify_area refuses a range exactly when some offset of it, or the
\* position behind it, is none the file can have.
RefusesExactly ==
  /\ pc \in {"call", "loop"} /\ seg = 1 => Addressable(unsigned, start, len)
  /\ pc = "done" /\ len > 0 /\ ret \in {EINVAL, EOVERFLOW} => ~ Addressable(unsigned, start, len)

\* iov_shorten keeps exactly "to" bytes, in the first segments of the vector.
ShortensExactly ==
  /\ pc = "shorten" => len = Before(seg) /\ len <= to
  /\ pc = "aio" => Before(nr_segs + 1) = to
=============================================================================
