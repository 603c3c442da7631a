------------------------- MODULE ResultBufferProofs -------------------------
(***************************************************************************)
(* Proofs about ResultBuffer, for every buffer length, every set of record *)
(* lengths and every answer of a file system's own search.                 *)
(***************************************************************************)
EXTENDS ResultBuffer, FiniteSetTheorems, TLAPS

\* The inductive invariant: the safety properties of the buffer together
\* with the accounting of ds->next and ds->len they rest on.
IInv == TypeOK /\ AtMostOneNulBehind /\ Accounting /\ AlwaysFramed

\* What copying n of the l + 2 bytes of a fitting record does to memory:
\* cells stay cells and nothing outside the buffer changes.
LEMMA CopiedInBounds ==
  ASSUME TypeOK, AtMostOneNulBehind, Accounting, phase = "filling",
         NEW l \in Nat \ {0}, Fits(l), NEW n \in 0 .. l + 2
  PROVE  /\ Copied(l, n) \in [Bytes -> Cell]
         /\ \A i \in Bytes \ Block : Copied(l, n)[i] = mem[i]
  BY BufferAssumption, SMTT(30) DEF TypeOK, Accounting, Fits, Copied, RecordByte, Bytes, Block, Cell

\* A whole record leaves the buffer framed at the new ds->next.
LEMMA CopiedFramed ==
  ASSUME TypeOK, Accounting, AlwaysFramed, phase = "filling",
         NEW l \in Nat \ {0}, Fits(l)
  PROVE  /\ \A i \in 0 .. nxt + l - 1 : Copied(l, l + 2)[i] \in {"text", "bar"}
         /\ Copied(l, l + 2)[nxt + l - 1] = "bar"
         /\ Copied(l, l + 2)[nxt + l] = "nul"
         /\ Copied(l, l + 2)[nxt + l + 1] = "nul"
<1>1. /\ nxt \in Nat /\ left \in Nat /\ nxt + left = BufLen /\ l + 2 <= left
      /\ \A i \in 0 .. nxt - 1 : mem[i] \in {"text", "bar"}
  BY DEF TypeOK, Accounting, AlwaysFramed, Fits
<1>2. \A i \in 0 .. nxt + l + 1 :
        Copied(l, l + 2)[i] = IF i < nxt THEN mem[i] ELSE RecordByte(i - nxt, l)
  BY <1>1, BufferAssumption DEF Copied, Bytes
<1>3. \A i \in 0 .. nxt + l - 1 : Copied(l, l + 2)[i] \in {"text", "bar"}
  <2> SUFFICES ASSUME NEW i \in 0 .. nxt + l - 1
               PROVE  Copied(l, l + 2)[i] \in {"text", "bar"}
    OBVIOUS
  <2>1. CASE i < nxt
    BY <1>1, <1>2, <2>1
  <2>2. CASE i >= nxt
    BY <1>1, <1>2, <2>2 DEF RecordByte
  <2> QED BY <1>1, <2>1, <2>2
<1>4. Copied(l, l + 2)[nxt + l - 1] = "bar"
  BY <1>1, <1>2 DEF RecordByte
<1>5. Copied(l, l + 2)[nxt + l] = "nul" /\ Copied(l, l + 2)[nxt + l + 1] = "nul"
  BY <1>1, <1>2 DEF RecordByte
<1> QED BY <1>3, <1>4, <1>5

\* What strcpy stores: characters up to the new ds->next and a NUL at it.
LEMMA AnsweredShape ==
  ASSUME TypeOK, AtMostOneNulBehind, Accounting, AlwaysFramed, phase = "filling",
         NEW n \in Nat, n <= left, NEW last \in {"text", "bar"}
  PROVE  /\ Answered(n, last) \in [Bytes -> Cell]
         /\ \A i \in 0 .. nxt + n - 1 : Answered(n, last)[i] \in {"text", "bar"}
         /\ Answered(n, last)[nxt + n] = "nul"
         /\ \A i \in Bytes : i # nxt + n /\ i \notin 0 .. nxt + n - 1 => Answered(n, last)[i] = mem[i]
<1>1. /\ nxt \in Nat /\ left \in Nat /\ BufLen \in Nat /\ nxt + left = BufLen
      /\ \A i \in 0 .. nxt - 1 : mem[i] \in {"text", "bar"}
      /\ mem \in [Bytes -> Cell]
  BY BufferAssumption DEF TypeOK, Accounting, AlwaysFramed
<1>2. \A i \in Bytes :
        Answered(n, last)[i] = IF i \in nxt .. nxt + n THEN AnswerByte(i - nxt, n, last) ELSE mem[i]
  BY DEF Answered
<1>3. 0 .. nxt + n \subseteq Bytes
  BY <1>1 DEF Bytes
<1>4. /\ \A k \in 0 .. n - 1 : AnswerByte(k, n, last) \in {"text", "bar"}
      /\ AnswerByte(n, n, last) = "nul"
  BY DEF AnswerByte
<1>5. ASSUME NEW i \in 0 .. nxt + n - 1 PROVE Answered(n, last)[i] \in {"text", "bar"}
  <2>1. i \in Bytes /\ i \in 0 .. nxt + n
    BY <1>1, <1>3
  <2>2. CASE i < nxt
    BY <1>1, <1>2, <2>1, <2>2
  <2>3. CASE i >= nxt
    <3>1. i \in nxt .. nxt + n /\ i - nxt \in 0 .. n - 1
      BY <1>1, <2>1, <2>3
    <3> QED BY <1>2, <1>4, <2>1, <3>1
  <2> QED BY <1>1, <2>2, <2>3
<1>6. Answered(n, last)[nxt + n] = "nul"
  <2>1. nxt + n \in Bytes /\ nxt + n \in nxt .. nxt + n /\ (nxt + n) - nxt = n
    BY <1>1, <1>3
  <2> QED BY <1>2, <1>4, <2>1
<1>7. ASSUME NEW i \in Bytes, i # nxt + n, i \notin 0 .. nxt + n - 1
      PROVE  Answered(n, last)[i] = mem[i]
  <2>1. i \notin nxt .. nxt + n
    BY <1>1, <1>7 DEF Bytes
  <2> QED BY <1>2, <2>1
<1>8. Answered(n, last) \in [Bytes -> Cell]
  <2>1. \A i \in Bytes : Answered(n, last)[i] \in Cell
    BY <1>1, <1>5, <1>6, <1>7 DEF Cell
  <2> QED BY <2>1 DEF Answered
<1> QED BY <1>5, <1>6, <1>7, <1>8

\* Overwriting the last byte and the NUL after it stays where records and
\* answers are: the NUL at buf+len is there only when an answer put it there.
LEMMA TerminatedInBounds ==
  ASSUME TypeOK, AtMostOneNulBehind, Accounting, phase = "filling", nxt # 0, NEW n \in 0 .. 2
  PROVE  /\ Terminated(n) \in [Bytes -> Cell]
         /\ \A i \in Bytes \ Block :
              Terminated(n)[i] # "user" =>
                i = BufLen /\ Terminated(n)[i] = "nul" /\ left = 0 /\ native
<1>1. /\ nxt \in Nat /\ left \in Nat /\ BufLen \in Nat /\ nxt + left = BufLen
      /\ ~ native => left >= 2
      /\ mem \in [Bytes -> Cell]
  BY BufferAssumption DEF TypeOK, Accounting
<1>2. \A i \in Bytes : Terminated(n)[i] = IF i >= nxt - 1 /\ i <= nxt - 2 + n THEN "nul" ELSE mem[i]
  BY <1>1 DEF Terminated, Bytes
<1>3. Terminated(n) \in [Bytes -> Cell]
  BY <1>1, <1>2 DEF Terminated, Cell
<1>4. ASSUME NEW i \in Bytes \ Block, Terminated(n)[i] # "user"
      PROVE  i = BufLen /\ Terminated(n)[i] = "nul" /\ left = 0 /\ native
  <2>1. i \in Int /\ (i < 0 \/ i >= BufLen)
    BY <1>1 DEF Bytes, Block
  <2>2. CASE i >= nxt - 1 /\ i <= nxt - 2 + n
    <3>1. i = BufLen /\ left = 0
      BY <1>1, <2>1, <2>2
    <3> QED BY <1>1, <1>2, <2>2, <3>1
  <2>3. CASE ~ (i >= nxt - 1 /\ i <= nxt - 2 + n)
    <3>1. Terminated(n)[i] = mem[i]
      BY <1>2, <2>3
    <3> QED BY <1>4, <3>1 DEF AtMostOneNulBehind
  <2> QED BY <2>2, <2>3
<1> QED BY <1>3, <1>4

LEMMA InitIInv == Init => IInv
<1> SUFFICES ASSUME Init PROVE IInv OBVIOUS
<1>1. mem \in [Bytes -> Cell] /\ \A i \in Bytes : mem[i] = "user"
  BY DEF Init, Cell
<1>2. TypeOK
  <2>1. native \in BOOLEAN
    BY Zenon DEF Init
  <2>2. nxt \in Int /\ left \in Nat /\ results \in Int /\ ret \in Int /\ phase = "filling"
    BY BufferAssumption DEF Init
  <2> QED BY <1>1, <2>1, <2>2 DEF TypeOK
<1>3. AtMostOneNulBehind
  BY <1>1 DEF AtMostOneNulBehind
<1>4. Accounting /\ AlwaysFramed
  BY BufferAssumption DEF Init, Accounting, AlwaysFramed
<1> QED BY <1>2, <1>3, <1>4 DEF IInv

LEMMA ReportIInv ==
  ASSUME IInv, NEW l \in ResultLens, Report(l)
  PROVE  IInv'
<1> l \in Nat \ {0} BY BufferAssumption
<1> USE DEF IInv, Report, copy_search_result
<1>1. TypeOK'
  BY CopiedInBounds, BufferAssumption DEF TypeOK, Fits
<1>2. AtMostOneNulBehind'
  <2>1. l <= l + 2 /\ l + 2 \in 0 .. l + 2 /\ left \in Nat /\ l + 2 <= left
    BY DEF TypeOK, Fits
  <2>2. \A i \in Bytes \ Block : mem'[i] = mem[i]
    BY <2>1, CopiedInBounds
  <2>3. left # 0
    BY <2>1
  <2> QED BY <2>2, <2>3 DEF AtMostOneNulBehind
<1>3. Accounting'
  BY BufferAssumption DEF Accounting, TypeOK, Fits
<1>4. AlwaysFramed'
  <2>1. mem' = Copied(l, l + 2) /\ nxt' = nxt + l /\ nxt \in Nat
    BY DEF Accounting
  <2> QED BY <2>1, CopiedFramed DEF AlwaysFramed
<1> QED BY <1>1, <1>2, <1>3, <1>4

LEMMA ReportFailsIInv ==
  ASSUME IInv, NEW l \in ResultLens, ReportFails(l)
  PROVE  IInv'
<1> l \in Nat \ {0} BY BufferAssumption
<1> USE DEF IInv, ReportFails, Fail
<1>1. CASE copy_search_result_EFAULT(l) /\ Fail(-EFAULT)
  <2>1. PICK n \in 0 .. l + 1 : mem' = Copied(l, n)
    BY <1>1 DEF copy_search_result_EFAULT
  <2>2. mem' \in [Bytes -> Cell] /\ \A i \in Bytes \ Block : mem'[i] = mem[i]
    BY <1>1, <2>1, CopiedInBounds DEF copy_search_result_EFAULT
  <2>3. AtMostOneNulBehind'
    BY <1>1, <2>2 DEF copy_search_result_EFAULT, AtMostOneNulBehind
  <2> QED
    BY <1>1, <2>2, <2>3 DEF copy_search_result_EFAULT, TypeOK, Accounting, AlwaysFramed, EFAULT
<1>2. CASE copy_search_result_ERANGE(l) /\ Fail(-ERANGE)
  BY <1>2 DEF copy_search_result_ERANGE, TypeOK, AtMostOneNulBehind, Accounting, AlwaysFramed, ERANGE
<1> QED BY <1>1, <1>2

LEMMA DriverIInv ==
  ASSUME IInv, NEW n \in Answers, Driver(n)
  PROVE  IInv'
<1> n \in Nat BY BufferAssumption
<1> USE DEF IInv
<1>0. phase = "filling" /\ native' = TRUE
  BY DEF Driver
<1>1. CASE driver_search(n) /\ UNCHANGED <<phase, ret>>
  <2>1. PICK last \in {"text", "bar"} : mem' = Answered(n, last)
    BY <1>1 DEF driver_search
  <2>2. /\ n <= left /\ nxt' = nxt + n /\ left' = left - n /\ results' = results + n
        /\ nxt \in Nat /\ left \in Nat /\ results \in Nat /\ nxt + left = BufLen /\ BufLen \in Nat
        /\ nxt > 0 => results > 0
    BY <1>0, <1>1, BufferAssumption DEF driver_search, TypeOK, Accounting
  <2>3. /\ mem' \in [Bytes -> Cell]
        /\ \A i \in 0 .. nxt + n - 1 : mem'[i] \in {"text", "bar"}
        /\ mem'[nxt + n] = "nul"
        /\ \A i \in Bytes : i # nxt + n /\ i \notin 0 .. nxt + n - 1 => mem'[i] = mem[i]
    BY <1>0, <2>1, <2>2, AnsweredShape
  <2>4. TypeOK'
    BY <1>0, <1>1, <2>2, <2>3 DEF TypeOK
  <2>5. Accounting'
    BY <1>0, <2>2 DEF Accounting
  <2>6. AlwaysFramed'
    BY <1>0, <2>2, <2>3 DEF AlwaysFramed
  <2>7. ASSUME NEW i \in Bytes \ Block, mem'[i] # "user"
        PROVE  i = BufLen /\ mem'[i] = "nul" /\ left' = 0
    <3>1. i \in Int /\ (i < 0 \/ i >= BufLen) /\ i \notin 0 .. nxt + n - 1
      BY <2>2 DEF Bytes, Block
    <3>2. CASE i = nxt + n
      BY <2>2, <2>3, <3>1, <3>2
    <3>3. CASE i # nxt + n
      <4>1. mem'[i] = mem[i]
        BY <2>3, <3>1, <3>3
      <4>2. i = BufLen /\ mem[i] = "nul" /\ left = 0
        BY <2>7, <4>1 DEF AtMostOneNulBehind
      <4> QED BY <2>2, <4>1, <4>2
    <3> QED BY <3>2, <3>3
  <2>8. AtMostOneNulBehind'
    BY <1>0, <2>7 DEF AtMostOneNulBehind
  <2> QED BY <2>4, <2>5, <2>6, <2>8
<1>2. CASE driver_search_ERANGE(n) /\ Fail(-ERANGE)
  BY <1>0, <1>2 DEF driver_search_ERANGE, Fail, TypeOK, AtMostOneNulBehind, Accounting, AlwaysFramed, ERANGE
<1> QED BY <1>1, <1>2 DEF Driver

LEMMA FinishIInv ==
  ASSUME IInv, Finish
  PROVE  IInv'
<1> USE DEF IInv, Finish, terminate, Return
<1>1. mem' \in [Bytes -> Cell] /\ AtMostOneNulBehind'
  BY TerminatedInBounds DEF TypeOK, AtMostOneNulBehind
<1> QED BY <1>1 DEF TypeOK, Accounting, AlwaysFramed

LEMMA FinishFailsIInv ==
  ASSUME IInv, NEW k \in 1 .. 2, FinishFails(k)
  PROVE  IInv'
<1> USE DEF IInv, FinishFails, terminate_uncopied, Fail
<1>1. mem' \in [Bytes -> Cell] /\ AtMostOneNulBehind'
  <2>1. 2 - k \in 0 .. 2 OBVIOUS
  <2> QED BY <2>1, TerminatedInBounds DEF AtMostOneNulBehind
<1> QED BY <1>1 DEF TypeOK, Accounting, AlwaysFramed

LEMMA AbandonIInv ==
  ASSUME IInv, NEW code \in OtherErrors, Abandon(code)
  PROVE  IInv'
  BY BufferAssumption
     DEF IInv, Abandon, Fail, TypeOK, AtMostOneNulBehind, Accounting, AlwaysFramed

LEMMA NextIInv == IInv /\ [Next]_vars => IInv'
<1> SUFFICES ASSUME IInv, [Next]_vars PROVE IInv' OBVIOUS
<1>1. CASE UNCHANGED vars
  BY <1>1 DEF vars, IInv, TypeOK, AtMostOneNulBehind, Accounting, AlwaysFramed
<1> QED
  BY <1>1, ReportIInv, ReportFailsIInv, DriverIInv, AbandonIInv, FinishIInv, FinishFailsIInv
     DEF Next

LEMMA IInvAlways == Spec => []IInv
  BY InitIInv, NextIInv, PTL DEF Spec

\* ds->next, ds->len and the counters stay numbers, ds->len never below 0.
THEOREM BufferTyped == Spec => []TypeOK
<1>1. IInv => TypeOK BY DEF IInv
<1> QED BY <1>1, IInvAlways, PTL

\* Whatever NFS servers answer, the one byte that copy_search_result, strcpy
\* and the final terminator ever store outside the caller's buffer is a NUL
\* right behind it, and only when an answer filled it to the last byte.
THEOREM ResultsStayInBounds == Spec => []AtMostOneNulBehind
<1>1. IInv => AtMostOneNulBehind BY DEF IInv
<1> QED BY <1>1, IInvAlways, PTL

\* As long as search_directory alone fills the buffer, which is always where
\* no file system has a search of its own, nothing is stored outside of it.
THEOREM OwnResultsInBounds == Spec => [](~ native => InBounds)
<1>1. IInv => (~ native => InBounds) BY DEF IInv, AtMostOneNulBehind, InBounds
<1> QED BY <1>1, IInvAlways, PTL

\* While results are added the buffer is always one string that ends at
\* ds->next, and before the first native search a sequence of whole records
\* followed by two NULs.
THEOREM ResultsStayFramed == Spec => []AlwaysFramed
<1>1. IInv => AlwaysFramed BY DEF IInv
<1> QED BY <1>1, IInvAlways, PTL

-----------------------------------------------------------------------------
LEMMA InitFinal == Init => FinalString
  BY DEF Init, FinalString

LEMMA NextFinal ==
  ASSUME IInv, FinalString, [Next]_vars
  PROVE  FinalString'
<1>1. ASSUME NEW l \in ResultLens, Report(l) PROVE FinalString'
  BY <1>1 DEF Report, FinalString
<1>2. ASSUME NEW l \in ResultLens, ReportFails(l) PROVE FinalString'
  BY <1>2 DEF ReportFails, Fail, FinalString
<1>3. ASSUME NEW n \in Answers, Driver(n) PROVE FinalString'
  BY <1>3 DEF Driver, Fail, FinalString
<1>4. ASSUME Finish PROVE FinalString'
  <2>1. CASE nxt = 0
    BY <1>4, <2>1 DEF Finish, terminate, FinalString
  <2>2. CASE nxt # 0
    <3>1. /\ nxt \in Nat /\ nxt > 0 /\ nxt + left = BufLen /\ left \in Nat
          /\ \A i \in 0 .. nxt - 1 : mem[i] \in {"text", "bar"}
          /\ mem' = Terminated(2) /\ nxt' = nxt
      BY <1>4, <2>2 DEF Finish, terminate, IInv, Accounting, AlwaysFramed, TypeOK
    <3> QED
      BY <3>1, BufferAssumption DEF FinalString, Terminated, Bytes
  <2> QED BY <2>1, <2>2
<1>5. ASSUME NEW k \in 1 .. 2, FinishFails(k) PROVE FinalString'
  BY <1>5 DEF FinishFails, Fail, FinalString
<1>6. CASE UNCHANGED vars
  BY <1>6 DEF vars, FinalString
<1>7. ASSUME NEW code \in OtherErrors, Abandon(code) PROVE FinalString'
  BY <1>7 DEF Abandon, Fail, FinalString
<1> QED BY <1>1, <1>2, <1>3, <1>4, <1>5, <1>6, <1>7 DEF Next

\* A call that returns its count leaves one NUL-terminated string from which
\* only the last byte was removed.
THEOREM FinalStringTerminated == Spec => []FinalString
<1>1. IInv /\ FinalString /\ [Next]_vars => FinalString' BY NextFinal
<1> QED BY <1>1, InitFinal, IInvAlways, PTL DEF Spec

-----------------------------------------------------------------------------
\* Every record adds one bar, its last byte, and no copy disturbs the bars
\* before ds->next.
BarsIn(m, n) == {i \in 0 .. n - 1 : m[i] = "bar"}

LEMMA BarsGrow ==
  ASSUME TypeOK, Accounting, phase = "filling", NEW l \in Nat \ {0}, Fits(l)
  PROVE  Cardinality(BarsIn(Copied(l, l + 2), nxt + l)) = Cardinality(BarsIn(mem, nxt)) + 1
<1> DEFINE c == Copied(l, l + 2)
           B == BarsIn(mem, nxt)
<1>1. nxt \in Nat /\ left \in Nat /\ nxt + left = BufLen /\ l + 2 <= left
  BY DEF TypeOK, Accounting, Fits
<1>2. \A i \in 0 .. nxt + l - 1 : c[i] = IF i < nxt THEN mem[i] ELSE RecordByte(i - nxt, l)
  BY <1>1, BufferAssumption DEF Copied, Bytes
<1> HIDE DEF c
<1>3. BarsIn(c, nxt + l) = B \cup {nxt + l - 1}
  <2>1. ASSUME NEW i \in BarsIn(c, nxt + l) PROVE i \in B \cup {nxt + l - 1}
    <3>1. i \in 0 .. nxt + l - 1 /\ c[i] = "bar"
      BY <1>1 DEF BarsIn
    <3>2. CASE i < nxt
      BY <1>1, <1>2, <3>1, <3>2 DEF BarsIn
    <3>3. CASE i >= nxt
      <4>1. RecordByte(i - nxt, l) = "bar"
        BY <1>1, <1>2, <3>1, <3>3
      <4> QED
        BY <1>1, <3>1, <3>3, <4>1 DEF RecordByte
    <3> QED
      BY <1>1, <3>1, <3>2, <3>3
  <2>2. ASSUME NEW i \in B PROVE i \in BarsIn(c, nxt + l)
    <3>1. i \in 0 .. nxt - 1 /\ mem[i] = "bar"
      BY DEF BarsIn
    <3>2. i \in 0 .. nxt + l - 1 /\ i < nxt
      BY <1>1, <3>1
    <3> QED
      BY <1>1, <1>2, <3>1, <3>2 DEF BarsIn
  <2>3. nxt + l - 1 \in BarsIn(c, nxt + l)
    <3>1. nxt + l - 1 \in 0 .. nxt + l - 1 /\ ~ (nxt + l - 1 < nxt) /\ nxt + l - 1 - nxt = l - 1
      BY <1>1
    <3>2. c[nxt + l - 1] = "bar"
      BY <1>1, <1>2, <3>1 DEF RecordByte
    <3> QED
      BY <1>1, <3>1, <3>2 DEF BarsIn
  <2> QED
    BY <2>1, <2>2, <2>3
<1>4. IsFiniteSet(B)
  <2>1. IsFiniteSet(0 .. nxt - 1)
    BY <1>1, FS_Interval
  <2> QED
    BY <2>1, FS_Subset DEF BarsIn
<1>5. nxt + l - 1 \notin B
  BY <1>1 DEF BarsIn
<1> HIDE DEF B
<1>6. Cardinality(B \cup {nxt + l - 1}) = Cardinality(B) + 1
  BY <1>4, <1>5, FS_AddElement
<1> QED
  BY <1>3, <1>6 DEF c, B

LEMMA NoBars ==
  ASSUME NEW m
  PROVE  Cardinality(BarsIn(m, 0)) = 0
<1>1. BarsIn(m, 0) = {}
  BY DEF BarsIn
<1> QED
  BY <1>1, FS_EmptySet

LEMMA NextCounted ==
  ASSUME IInv, RecordsCounted, [Next]_vars
  PROVE  RecordsCounted'
<1> SUFFICES ASSUME phase' = "filling", ~ native' PROVE results' = Cardinality(BarsIn(mem', nxt'))
  BY DEF RecordsCounted, BarsIn
<1>0. phase = "filling" /\ ~ native => results = Cardinality(BarsIn(mem, nxt))
  BY DEF RecordsCounted, BarsIn
<1>1. ASSUME NEW l \in ResultLens, Report(l) PROVE results' = Cardinality(BarsIn(mem', nxt'))
  <2>1. l \in Nat \ {0} /\ Fits(l) /\ mem' = Copied(l, l + 2) /\ nxt' = nxt + l /\ results' = results + 1
        /\ phase = "filling" /\ ~ native
    BY <1>1, BufferAssumption DEF Report, copy_search_result
  <2>2. Cardinality(BarsIn(Copied(l, l + 2), nxt + l)) = Cardinality(BarsIn(mem, nxt)) + 1
    BY <2>1, BarsGrow DEF IInv
  <2> QED
    BY <1>0, <2>1, <2>2
<1>2. ASSUME NEW n \in Answers, Driver(n) PROVE FALSE
  BY <1>2 DEF Driver
<1>3. ASSUME NEW l \in ResultLens, ReportFails(l) PROVE FALSE
  BY <1>3 DEF ReportFails, Fail
<1>4. ASSUME NEW code \in OtherErrors, Abandon(code) PROVE FALSE
  BY <1>4 DEF Abandon, Fail
<1>5. ~ Finish /\ \A k \in 1 .. 2 : ~ FinishFails(k)
  BY DEF Finish, Return, FinishFails, Fail
<1>6. CASE UNCHANGED vars
  BY <1>0, <1>6 DEF vars
<1> QED
  BY <1>1, <1>2, <1>3, <1>4, <1>5, <1>6 DEF Next

\* Until a file system's own search adds an answer, ds->results is always the
\* number of records in the buffer.
THEOREM CountIsRecords == Spec => []RecordsCounted
<1>1. Init => RecordsCounted
  <2> SUFFICES ASSUME Init PROVE results = Cardinality(BarsIn(mem, nxt))
    BY DEF RecordsCounted, BarsIn
  <2> QED
    BY NoBars DEF Init
<1>2. IInv /\ RecordsCounted /\ [Next]_vars => RecordsCounted'
  BY NextCounted
<1> QED
  BY <1>1, <1>2, IInvAlways, PTL DEF Spec

=============================================================================
