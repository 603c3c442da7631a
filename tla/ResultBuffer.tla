---------------------------- MODULE ResultBuffer ----------------------------
(***************************************************************************)
(* The result area of the search system call (linux/fs/read_write.c): how  *)
(* copy_search_result, a file system's own search operation and the final  *)
(* terminator written by sys_search fill the caller's buffer.              *)
(*                                                                         *)
(* A record is the text "0|path|stat|"; only its length and its last bar   *)
(* matter here.  User memory is a function from byte offsets to cells; one *)
(* cell below the buffer and two above it belong to the caller but not to  *)
(* the buffer, so a store outside of it is visible.                        *)
(***************************************************************************)
EXTENDS Integers, FiniteSets

CONSTANTS
  BufLen,       \* the caller's len
  ResultLens,   \* result_len of the records that may be copied
  Answers,      \* lengths of what an NFS server may answer to SEARCH
  OtherErrors,  \* status from elsewhere that may end the call
  CanFault      \* may user memory become inaccessible during the call?

ASSUME BufferAssumption ==
  /\ BufLen \in Nat
  /\ ResultLens \subseteq Nat \ {0}
  /\ Answers \subseteq Nat
  /\ OtherErrors \subseteq Int \ {0}
  /\ CanFault \in BOOLEAN

VARIABLES
  mem,      \* the caller's memory, by offset from buf
  nxt,      \* ds->next - ds->buf
  left,     \* ds->len
  results,  \* ds->results
  native,   \* history: has a file system's own search run?
  phase,    \* "filling", then "returned" or "failed"
  ret       \* the value the system call returns

vars == <<mem, nxt, left, results, native, phase, ret>>

EFAULT == 14
ERANGE == 34

Cell  == {"user", "text", "bar", "nul"}
Bytes == -1 .. BufLen + 1
Block == 0 .. BufLen - 1       \* what access_ok checked

(***************************************************************************)
(* copy_search_result.  The k-th byte of a record of length l followed by  *)
(* its double NUL, and the memory after the first n bytes were copied.     *)
(***************************************************************************)
RecordByte(k, l) ==
  CASE k < l - 1 -> "text"
    [] k = l - 1 -> "bar"
    [] OTHER     -> "nul"

Copied(l, n) ==
  [i \in Bytes |-> IF i \in nxt .. nxt + n - 1 THEN RecordByte(i - nxt, l) ELSE mem[i]]

\* Variant with a bug: the room for the double NUL is forgotten.
FitsWithoutNuls(l) == l <= left

\* Variant with a bug: ds->len is not looked at.
FitsAlways(l) == TRUE

Fits(l) == l + 2 <= left

\* Variant with a bug: ds->next moves over the NULs, as if they delimited.
copy_result_past_nuls(l) ==
  /\ Fits(l)
  /\ mem'  = Copied(l, l + 2)
  /\ nxt'  = nxt + l + 2
  /\ left' = left - l - 2

copy_search_result(l) ==
  /\ Fits(l)
  /\ mem'  = Copied(l, l + 2)
  /\ nxt'  = nxt + l
  /\ left' = left - l

\* copy_to_user stopped early: a prefix of the record was stored.
copy_search_result_EFAULT(l) ==
  /\ CanFault
  /\ Fits(l)
  /\ \E n \in 0 .. l + 1 : mem' = Copied(l, n)
  /\ UNCHANGED <<nxt, left>>

copy_search_result_ERANGE(l) ==
  /\ ~ Fits(l)
  /\ UNCHANGED <<mem, nxt, left>>

(***************************************************************************)
(* The file system's own search: nfs3_proc_search, the one implementation  *)
(* of file_operations.search.  The server's answer has n characters; what  *)
(* it ends with is the server's choice, and so is n when the RPC failed,   *)
(* which is not looked at.  strcpy stores the answer and one NUL.          *)
(***************************************************************************)
AnswerByte(k, n, last) ==
  CASE k < n - 1 -> "text"
    [] k = n - 1 -> last
    [] OTHER     -> "nul"

Answered(n, last) ==
  [i \in Bytes |-> IF i \in nxt .. nxt + n THEN AnswerByte(i - nxt, n, last) ELSE mem[i]]

driver_search(n) ==
  /\ n <= left
  /\ \E last \in {"text", "bar"} : mem' = Answered(n, last)
  /\ results' = results + n
  /\ nxt'     = nxt + n
  /\ left'    = left - n

\* The error is added to ds->results and to ds->next like a length.
driver_search_ERANGE(n) ==
  /\ n > left
  /\ results' = results - ERANGE
  /\ nxt'     = nxt - ERANGE
  /\ UNCHANGED <<mem, left>>

(***************************************************************************)
(* The end of sys_search: the last byte, where search_directory stored it  *)
(* a bar, becomes the first of two NULs.                                   *)
(* copy_to_user returns the number of bytes it did not copy.               *)
(***************************************************************************)
\* Variant with a bug: the terminator goes to ds->next, after the last bar.
TerminatedLate(n) == [i \in Bytes |-> IF i \in nxt .. nxt - 1 + n THEN "nul" ELSE mem[i]]

Terminated(n) == [i \in Bytes |-> IF i \in nxt - 1 .. nxt - 2 + n THEN "nul" ELSE mem[i]]

terminate ==
  /\ mem' = IF nxt = 0 THEN mem ELSE Terminated(2)
  /\ UNCHANGED <<nxt, left>>

terminate_uncopied(k) ==
  /\ CanFault
  /\ nxt # 0
  /\ mem' = Terminated(2 - k)
  /\ UNCHANGED <<nxt, left>>

-----------------------------------------------------------------------------
(***************************************************************************)
(* The buffer on its own, driven by any sequence of results.               *)
(***************************************************************************)
Init ==
  /\ mem = [i \in Bytes |-> "user"]
  /\ nxt = 0
  /\ left = BufLen
  /\ results = 0
  /\ native = FALSE
  /\ phase = "filling"
  /\ ret = 0

\* The call ends: with status = ds->results, or by a goto exit before it.
Return ==
  /\ phase' = "returned"
  /\ ret' = results

Fail(code) ==
  /\ phase' = "failed"
  /\ ret' = code

Report(l) ==
  /\ phase = "filling"
  /\ copy_search_result(l)
  /\ results' = results + 1
  /\ UNCHANGED <<native, phase, ret>>

ReportFails(l) ==
  /\ phase = "filling"
  /\ \/ copy_search_result_EFAULT(l) /\ Fail(-EFAULT)
     \/ copy_search_result_ERANGE(l) /\ Fail(-ERANGE)
  /\ UNCHANGED <<results, native>>

Driver(n) ==
  /\ phase = "filling"
  /\ native' = TRUE
  /\ \/ driver_search(n) /\ UNCHANGED <<phase, ret>>
     \/ driver_search_ERANGE(n) /\ Fail(-ERANGE)

\* The call ends for a reason that is not the buffer's.
Abandon(code) ==
  /\ phase = "filling"
  /\ Fail(code)
  /\ UNCHANGED <<mem, nxt, left, results, native>>

Finish ==
  /\ phase = "filling"
  /\ terminate
  /\ Return
  /\ UNCHANGED <<results, native>>

FinishFails(k) ==
  /\ phase = "filling"
  /\ terminate_uncopied(k)
  /\ Fail(k)
  /\ UNCHANGED <<results, native>>

Next ==
  \/ \E l \in ResultLens : Report(l) \/ ReportFails(l)
  \/ \E n \in Answers : Driver(n)
  \/ \E code \in OtherErrors : Abandon(code)
  \/ Finish
  \/ \E k \in 1 .. 2 : FinishFails(k)

Spec == Init /\ [][Next]_vars

-----------------------------------------------------------------------------
\* The offsets and counters are numbers and the memory holds cells.
TypeOK ==
  /\ mem \in [Bytes -> Cell]
  /\ nxt \in Int
  /\ left \in Nat
  /\ results \in Int
  /\ native \in BOOLEAN
  /\ phase \in {"filling", "returned", "failed"}
  /\ ret \in Int

\* No sequence of results, answers and faults makes the kernel store a byte
\* outside buf .. buf+len-1, the range access_ok checked: no record with its
\* double NUL, no answer of a server, and no terminator at ds->next - 1.
InBounds == \A i \in Bytes \ Block : mem[i] = "user"

\* What holds instead: the one byte ever stored outside is a NUL at buf+len,
\* by an answer that fills the buffer to its last byte (nfs3_proc_search has
\* no room for strcpy's NUL in its test) or by the terminator after it.
\* Records, with or without answers between them, and the terminator behind
\* a record stay inside, and nothing is ever stored below buf.
AtMostOneNulBehind ==
  \A i \in Bytes \ Block :
    mem[i] # "user" => i = BufLen /\ mem[i] = "nul" /\ left = 0 /\ native

\* While results are added, the buffer always reads as one string up to
\* ds->next, where a NUL is.  As long as search_directory alone fills it, it
\* is whole records: the byte before ds->next is the bar of the last one, and
\* both NULs of copy_search_result follow.
AlwaysFramed ==
  phase = "filling" /\ nxt > 0 =>
    /\ \A i \in 0 .. nxt - 1 : mem[i] \in {"text", "bar"}
    /\ mem[nxt] = "nul"
    /\ ~ native => mem[nxt - 1] = "bar" /\ mem[nxt + 1] = "nul"

\* The accounting behind them: ds->next and ds->len always add up to the
\* caller's len, and once a record was stored two more bytes are free, so
\* that the terminator written at ds->next - 1 and ds->next stays inside.
Accounting ==
  phase = "filling" =>
    /\ nxt \in Nat
    /\ nxt + left = BufLen
    /\ nxt > 0 => results > 0
    /\ nxt > 0 /\ ~ native => left >= 2
    /\ results >= 0

\* A call that reports success returns one string, without its last byte: the
\* bar of the last record, or whatever an answer ended with.  No NUL is
\* before it, and the terminator's two are behind.
FinalString ==
  phase = "returned" /\ nxt > 0 =>
    /\ \A i \in 0 .. nxt - 2 : mem[i] \in {"text", "bar"}
    /\ mem[nxt - 1] = "nul"
    /\ mem[nxt] = "nul"

\* Until a file system's own search adds the length of its answer, the count
\* returned to the caller is the number of records in the buffer, each
\* delimited by its own final bar.
RecordsCounted ==
  phase = "filling" /\ ~ native =>
    results = Cardinality({i \in 0 .. nxt - 1 : mem[i] = "bar"})

\* A system call that could not store its results says so: what it returns
\* is a negative error code.
ErrorsAreNegative == phase = "failed" => ret < 0
=============================================================================
