--------------------------- MODULE VectorIOProofs ---------------------------
(***************************************************************************)
(* The guarantees of the vector calls for every width of the words, every  *)
(* MAX_RW_COUNT and every vector: rw_copy_check_uvector cuts the vector to *)
(* the limit and to nothing less; a call is refused exactly when its range *)
(* is not addressable; iov_shorten keeps exactly the bytes it is told to;  *)
(* and the bytes moved are a prefix of the caller's vector at a position   *)
(* that never wraps.                                                       *)
(*                                                                         *)
(* VectorInv says what the kernel's copy of the vector is at each place,   *)
(* and that the position is where the call started until the first byte    *)
(* is moved.  SumInv relates the counters of the loops to the sums of the  *)
(* vector.                                                                 *)
(***************************************************************************)
EXTENDS VectorIO, RwVerifyProofs

-----------------------------------------------------------------------------
\* What the call was given, and what it has before its first transfer.
Given ==
  /\ uvector \in Seq(size_t) /\ unsigned \in BOOLEAN /\ start \in loff_t
  /\ len \in 0 .. MAX_RW_COUNT

AtCopy ==
  pc = "copy" => /\ iov = uvector /\ nr_segs = Len(uvector) /\ seg = 1
                 /\ len = 0 /\ asked = 0 /\ ret = 0 /\ pos = start

\* The kernel's vector while its segments are checked one by one.
AtCheck ==
  pc = "check" =>
    /\ iov \in [DOMAIN uvector -> Nat] /\ nr_segs = Len(uvector)
    /\ seg \in Nat \ {0} /\ asked \in Nat
    /\ len = 0 /\ pos = start
    /\ \A i \in DOMAIN uvector : i >= seg => iov[i] = uvector[i]
    /\ ret = Least(asked, MAX_RW_COUNT)
    /\ \A i \in 1 .. seg - 1 :
         iov[i] < uvector[i] => ret = MAX_RW_COUNT /\ \A j \in i + 1 .. seg - 1 : iov[j] = 0

AtTransfer ==
  /\ pc = "verify" => len > 0 /\ pos = start
  /\ pc \in {"call", "loop"} => Addressable(unsigned, start, len)
  /\ pc \in {"call", "shorten", "aio", "loop"} => ret \in Nat
  /\ pc \in {"verify", "call", "shorten"} => iov \in [DOMAIN uvector -> Nat] /\ nr_segs = Len(uvector)
  /\ pc \in {"call", "shorten"} => seg \in Nat \ {0}
  /\ pc = "shorten" => to \in 1 .. MAX_RW_COUNT
  /\ pc = "done" /\ len > 0 /\ ret \in {EINVAL, EOVERFLOW} => ~ Addressable(unsigned, start, len)

VectorInv == Given /\ AtCopy /\ AtCheck /\ AtTransfer

LEMMA VectorInit == Init => VectorInv
<1> SUFFICES ASSUME Init PROVE VectorInv
  OBVIOUS
<1>1. 0 \in 0 .. MAX_RW_COUNT
  BY RwAssumption
<1>2. Given
  BY <1>1, VectorAssumption DEF Init, Given
<1> QED
  BY <1>2 DEF Init, VectorInv, AtCopy, AtCheck, AtTransfer

\* Leaving by "goto out" is safe with every value that is no refusal, and
\* with any value while nothing was verified.
LEMMA OutSafe ==
  ASSUME VectorInv, NEW value, Out(value),
         len > 0 /\ value \in {EINVAL, EOVERFLOW} => ~ Addressable(unsigned, start, len)
  PROVE  VectorInv'
<1>1. /\ pc' = "done" /\ ret' = value
      /\ UNCHANGED <<uvector, unsigned, start, len>>
  BY DEF Out, user
<1>2. Given'
  BY <1>1 DEF VectorInv, Given
<1>3. AtTransfer'
  BY <1>1 DEF AtTransfer, Addressable
<1> QED
  BY <1>1, <1>2, <1>3 DEF VectorInv, AtCopy, AtCheck

LEMMA CopyKeeps ==
  ASSUME VectorInv, CopyVector
  PROVE  VectorInv'
<1>1. pc = "copy" /\ len = 0 /\ ~ (len > 0)
  BY DEF CopyVector, VectorInv, AtCopy
<1>2. CASE \E value : Out(value)
  BY <1>1, <1>2, OutSafe
<1>3. CASE /\ pc' = "check"
           /\ UNCHANGED <<user, iov, seg, nr_segs, len, to, pos, filled, asked, ret>>
  <2>1. Given'
    BY <1>3 DEF VectorInv, Given, user
  <2>2. /\ iov' = uvector' /\ nr_segs' = Len(uvector') /\ seg' = 1
        /\ len' = 0 /\ asked' = 0 /\ ret' = 0 /\ pos' = start' /\ uvector' \in Seq(size_t)
    BY <1>1, <1>3 DEF VectorInv, AtCopy, Given, user
  <2>3. iov' \in [DOMAIN uvector' -> Nat]
    BY <2>2, RwAssumption DEF size_t
  <2>4. ret' = Least(asked', MAX_RW_COUNT)
    BY <2>2, RwAssumption DEF Least
  <2>5. AtCheck'
    BY <2>2, <2>3, <2>4 DEF AtCheck
  <2> QED
    BY <1>3, <2>1, <2>5 DEF VectorInv, AtCopy, AtTransfer
<1> QED
  BY <1>2, <1>3 DEF CopyVector

\* Cutting one segment keeps the sum at the lesser of the lengths asked for
\* and the limit; a cut exhausts the limit.
LEMMA CutSum ==
  ASSUME NEW n \in Nat, NEW sum \in Nat, NEW r, r = Least(sum, MAX_RW_COUNT)
  PROVE  /\ Cut(n, r) \in Nat
         /\ r + Cut(n, r) = Least(sum + n, MAX_RW_COUNT)
         /\ r = MAX_RW_COUNT => Cut(n, r) = 0
         /\ Cut(n, r) < n => r + Cut(n, r) = MAX_RW_COUNT
<1>1. MAX_RW_COUNT \in Nat
  BY RwAssumption
<1>2. r \in Nat /\ r <= MAX_RW_COUNT
  BY <1>1 DEF Least
<1> QED
  BY <1>1, <1>2 DEF Cut, Least

LEMMA CheckKeeps ==
  ASSUME VectorInv, CheckSegment
  PROVE  VectorInv'
<1>1. pc = "check" /\ len = 0 /\ ~ (len > 0) /\ seg <= nr_segs
  BY DEF CheckSegment, VectorInv, AtCheck
<1>2. CASE \E value : Out(value)
  BY <1>1, <1>2, OutSafe
<1>3. CASE /\ iov' = [iov EXCEPT ![seg] = Cut(@, ret)]
           /\ ret' = ret + iov'[seg]
           /\ asked' = asked + uvector[seg]
           /\ seg' = seg + 1
           /\ UNCHANGED <<user, nr_segs, len, to, pos, filled, pc>>
  <2> DEFINE n == uvector[seg]
             c == Cut(n, ret)
  <2>1. /\ iov \in [DOMAIN uvector -> Nat] /\ nr_segs = Len(uvector)
        /\ seg \in Nat \ {0} /\ asked \in Nat /\ pos = start
        /\ \A i \in DOMAIN uvector : i >= seg => iov[i] = uvector[i]
        /\ ret = Least(asked, MAX_RW_COUNT)
        /\ \A i \in 1 .. seg - 1 :
             iov[i] < uvector[i] => ret = MAX_RW_COUNT /\ \A j \in i + 1 .. seg - 1 : iov[j] = 0
    BY <1>1 DEF VectorInv, AtCheck
  <2>2. uvector \in Seq(size_t) /\ DOMAIN uvector = 1 .. Len(uvector) /\ seg \in DOMAIN uvector
    BY <1>1, <2>1 DEF VectorInv, Given
  <2>3. n \in Nat /\ iov[seg] = n
    BY <2>1, <2>2, RwAssumption DEF size_t
  <2> HIDE DEF n, c
  <2>4. /\ c \in Nat
        /\ ret + c = Least(asked + n, MAX_RW_COUNT)
        /\ ret = MAX_RW_COUNT => c = 0
        /\ c < n => ret + c = MAX_RW_COUNT
    BY <2>1, <2>3, CutSum DEF c
  <2>5. iov' = [iov EXCEPT ![seg] = c] /\ iov'[seg] = c /\ UNCHANGED uvector
    BY <1>3, <2>1, <2>2, <2>3 DEF c, user
  <2>6. /\ iov' \in [DOMAIN uvector' -> Nat] /\ nr_segs' = Len(uvector')
        /\ seg' \in Nat \ {0} /\ asked' \in Nat /\ len' = 0 /\ pos' = start'
    BY <1>1, <1>3, <2>1, <2>3, <2>4, <2>5 DEF n, user
  <2>7. \A i \in DOMAIN uvector' : i >= seg' => iov'[i] = uvector'[i]
    BY <1>3, <2>1, <2>2, <2>5
  <2>8. ret' = ret + c /\ ret' = Least(asked', MAX_RW_COUNT)
    BY <1>3, <2>4, <2>5 DEF n
  <2>9. ASSUME NEW i \in 1 .. seg' - 1, iov'[i] < uvector'[i]
        PROVE  ret' = MAX_RW_COUNT /\ \A j \in i + 1 .. seg' - 1 : iov'[j] = 0
    <3>1. CASE i = seg
      BY <1>3, <2>1, <2>4, <2>5, <2>8, <2>9, <3>1 DEF n
    <3>2. CASE i # seg
      <4>1. i \in 1 .. seg - 1 /\ i \in DOMAIN uvector
        BY <1>3, <2>1, <2>2, <2>9, <3>2
      <4>2. iov'[i] = iov[i] /\ iov[i] < uvector[i]
        BY <2>1, <2>5, <2>9, <3>2, <4>1
      <4>3. ret = MAX_RW_COUNT /\ \A j \in i + 1 .. seg - 1 : iov[j] = 0
        BY <2>1, <4>1, <4>2
      <4>4. c = 0 /\ ret' = MAX_RW_COUNT
        <5>1. c = 0
          BY <2>4, <4>3
        <5>2. ret' = ret + c
          BY <2>8
        <5>3. MAX_RW_COUNT \in Int
          BY RwAssumption
        <5> QED
          BY <4>3, <5>1, <5>2, <5>3
      <4>5. \A j \in i + 1 .. seg' - 1 : j = seg \/ (j \in i + 1 .. seg - 1 /\ iov'[j] = iov[j])
        BY <1>1, <1>3, <2>1, <2>2, <2>5, <4>1
      <4> QED
        BY <2>5, <4>3, <4>4, <4>5
    <3> QED
      BY <3>1, <3>2
  <2>10. AtCheck'
    BY <2>6, <2>7, <2>8, <2>9 DEF AtCheck
  <2> QED
    BY <1>1, <1>3, <2>10 DEF VectorInv, Given, AtCopy, AtTransfer, user
<1> QED
  BY <1>2, <1>3 DEF CheckSegment

LEMMA EndCheckKeeps ==
  ASSUME VectorInv, EndCheck
  PROVE  VectorInv'
<1>1. /\ pc = "check" /\ len = 0 /\ ~ (len > 0) /\ pos = start
      /\ iov \in [DOMAIN uvector -> Nat] /\ nr_segs = Len(uvector)
      /\ ret = Least(asked, MAX_RW_COUNT) /\ asked \in Nat
  BY DEF EndCheck, VectorInv, AtCheck
<1>2. ret \in 0 .. MAX_RW_COUNT
  BY <1>1, RwAssumption DEF Least
<1>3. CASE Out(ret)
  BY <1>1, <1>3, OutSafe
<1>4. CASE /\ ~ (ret <= 0) /\ len' = ret /\ pc' = "verify"
           /\ UNCHANGED <<user, iov, seg, nr_segs, to, pos, filled, asked, ret>>
  <2>1. Given' /\ len' > 0
    BY <1>2, <1>4 DEF VectorInv, Given, user
  <2>2. AtTransfer'
    BY <1>1, <1>4, <2>1 DEF AtTransfer, user
  <2> QED
    BY <1>4, <2>1, <2>2 DEF VectorInv, AtCopy, AtCheck
<1> QED
  BY <1>3, <1>4 DEF EndCheck

LEMMA VerifyKeeps ==
  ASSUME VectorInv, Verify
  PROVE  VectorInv'
<1>1. PICK v \in VerifyOutcomes(unsigned, pos, len) :
        IF v < 0 THEN Out(v)
        ELSE /\ ret' = 0 /\ seg' = 1
             /\ pc' = IF aio THEN "call" ELSE "loop"
             /\ UNCHANGED <<user, iov, nr_segs, len, to, pos, filled, asked>>
  BY DEF Verify
<1>2. /\ pos = start /\ len \in 1 .. MAX_RW_COUNT
      /\ unsigned \in BOOLEAN /\ start \in loff_t
      /\ iov \in [DOMAIN uvector -> Nat] /\ nr_segs = Len(uvector)
  BY RwAssumption DEF Verify, VectorInv, Given, AtTransfer
<1>3. /\ ~ (v < 0) => Addressable(unsigned, start, len)
      /\ v \in {EINVAL, EOVERFLOW} => ~ Addressable(unsigned, start, len)
  BY <1>1, <1>2, VerifyExact
<1>4. CASE v < 0
  BY <1>1, <1>3, <1>4, OutSafe
<1>5. CASE ~ (v < 0)
  <2>1. /\ ret' = 0 /\ seg' = 1 /\ pc' \in {"call", "loop"}
        /\ UNCHANGED <<uvector, unsigned, start, iov, nr_segs, len, pos>>
    BY <1>1, <1>5 DEF user
  <2>2. Addressable(unsigned', start', len')
    BY <1>3, <1>5, <2>1
  <2>3. Given'
    BY <2>1 DEF VectorInv, Given
  <2>4. AtTransfer'
    BY <1>2, <2>1, <2>2 DEF AtTransfer
  <2> QED
    BY <2>1, <2>3, <2>4 DEF VectorInv, AtCopy, AtCheck
<1> QED
  BY <1>4, <1>5

LEMMA LoopKeeps ==
  ASSUME VectorInv, LoopSegment \/ EndLoop
  PROVE  VectorInv'
<1>1. pc = "loop" /\ ret \in Nat /\ Addressable(unsigned, start, len)
  BY DEF LoopSegment, EndLoop, VectorInv, AtTransfer
<1>2. EINVAL = -22 /\ EOVERFLOW = -75 /\ EIO = -5
  BY DEF EINVAL, EOVERFLOW, EIO
<1>3. CASE EndLoop
  <2>1. Out(ret) /\ ret \notin {EINVAL, EOVERFLOW}
    BY <1>1, <1>2, <1>3 DEF EndLoop
  <2> QED
    BY <2>1, OutSafe
<1>4. CASE LoopSegment
  <2>1. PICK nr \in {EIO} \cup 0 .. iov[seg] :
          IF nr < 0 THEN Out(IF ret = 0 THEN nr ELSE ret)
          ELSE /\ ret' = ret + nr
               /\ pos' = Advanced(nr)
               /\ filled' = [filled EXCEPT ![seg] = nr]
               /\ seg' = seg + 1
               /\ pc' = IF ShortEnds(nr, iov[seg]) THEN "done" ELSE pc
               /\ UNCHANGED <<user, iov, nr_segs, len, to, asked>>
    BY <1>4 DEF LoopSegment
  <2>2. nr \in Int /\ (nr < 0 => nr = -5)
    BY <1>2, <2>1
  <2>3. CASE nr < 0
    <3>1. Out(IF ret = 0 THEN nr ELSE ret)
      BY <2>1, <2>3
    <3>2. (IF ret = 0 THEN nr ELSE ret) \notin {EINVAL, EOVERFLOW}
      BY <1>1, <1>2, <2>2, <2>3
    <3> QED
      BY <3>1, <3>2, OutSafe
  <2>4. CASE ~ (nr < 0)
    <3>1. /\ ret' = ret + nr /\ pc' \in {"loop", "done"}
          /\ UNCHANGED <<uvector, unsigned, start, len>>
      BY <1>1, <2>1, <2>4 DEF user
    <3>2. ret' \in Nat /\ ret' \notin {EINVAL, EOVERFLOW}
      BY <1>1, <1>2, <2>2, <2>4, <3>1
    <3>3. Addressable(unsigned', start', len')
      BY <1>1, <3>1
    <3>4. Given' /\ AtTransfer'
      BY <3>1, <3>2, <3>3 DEF VectorInv, Given, AtTransfer
    <3> QED
      BY <3>1, <3>4 DEF VectorInv, AtCopy, AtCheck
  <2> QED
    BY <2>3, <2>4
<1> QED
  BY <1>3, <1>4

LEMMA MethodKeeps ==
  ASSUME VectorInv, CallMethod \/ iov_shorten \/ aio_method
  PROVE  VectorInv'
<1>1. len \in 0 .. MAX_RW_COUNT /\ MAX_RW_COUNT \in Nat
  BY RwAssumption DEF VectorInv, Given
<1>2. EINVAL = -22 /\ EOVERFLOW = -75 /\ EIO = -5
  BY DEF EINVAL, EOVERFLOW, EIO
<1>3. CASE CallMethod
  <2>1. /\ pc = "call" /\ ret \in Nat /\ seg \in Nat \ {0}
        /\ iov \in [DOMAIN uvector -> Nat] /\ nr_segs = Len(uvector)
    BY <1>3 DEF CallMethod, VectorInv, AtTransfer
  <2>2. UNCHANGED <<uvector, unsigned, start, iov, seg, nr_segs, ret>>
    BY <1>3 DEF CallMethod, user
  <2>3. CASE (\E limit \in 1 .. len - 1 : to' = limit) /\ len' = 0 /\ pc' = "shorten"
    <3>1. to' \in 1 .. MAX_RW_COUNT /\ len' \in 0 .. MAX_RW_COUNT
      BY <1>1, <2>3
    <3> QED
      BY <2>1, <2>2, <2>3, <3>1 DEF VectorInv, Given, AtCopy, AtCheck, AtTransfer
  <2>4. CASE len' = len /\ pc' = "aio"
    BY <2>1, <2>2, <2>4 DEF VectorInv, Given, AtCopy, AtCheck, AtTransfer
  <2> QED
    BY <1>3, <2>3, <2>4 DEF CallMethod
<1>4. CASE iov_shorten
  <2>1. /\ pc = "shorten" /\ ret \in Nat /\ seg \in Nat \ {0} /\ seg <= nr_segs
        /\ iov \in [DOMAIN uvector -> Nat] /\ nr_segs = Len(uvector)
        /\ to \in 1 .. MAX_RW_COUNT
    BY <1>4 DEF iov_shorten, VectorInv, AtTransfer
  <2>2. UNCHANGED <<uvector, unsigned, start, to, ret>>
    BY <1>4 DEF iov_shorten, user
  <2>3. CASE pc' = "aio" /\ UNCHANGED len
    BY <2>1, <2>2, <2>3 DEF VectorInv, Given, AtCopy, AtCheck, AtTransfer
  <2>4. CASE /\ ~ (len + iov[seg] >= to) /\ seg' = seg + 1 /\ len' = len + iov[seg]
             /\ UNCHANGED <<iov, nr_segs, pc>>
    <3>1. uvector \in Seq(size_t)
      BY DEF VectorInv, Given
    <3>2. iov[seg] \in Nat
      BY <2>1, <3>1
    <3>3. len' \in 0 .. MAX_RW_COUNT /\ seg' \in Nat \ {0}
      BY <1>1, <2>1, <2>4, <3>2
    <3> QED
      BY <2>1, <2>2, <2>4, <3>3 DEF VectorInv, Given, AtCopy, AtCheck, AtTransfer
  <2> QED
    BY <1>4, <2>3, <2>4 DEF iov_shorten
<1>5. CASE aio_method
  <2>1. PICK n \in 0 .. Before(nr_segs + 1) :
          ret' \in {n, EIO} /\ pc' = "done" /\ UNCHANGED <<user, iov, seg, nr_segs, len, to, asked>>
    BY <1>5 DEF aio_method
  <2>2. n \in Int /\ n >= 0
    BY <2>1
  <2>3. ret' \notin {EINVAL, EOVERFLOW}
    BY <1>2, <2>1, <2>2
  <2> QED
    BY <2>1, <2>3 DEF VectorInv, Given, AtCopy, AtCheck, AtTransfer, user
<1> QED
  BY <1>3, <1>4, <1>5

LEMMA VectorStep == ASSUME VectorInv, [Next]_vars PROVE VectorInv'
<1>1. CASE UNCHANGED vars
  BY <1>1 DEF vars, VectorInv, Given, AtCopy, AtCheck, AtTransfer, Addressable
<1> QED
  BY <1>1, CopyKeeps, CheckKeeps, EndCheckKeeps, VerifyKeeps, LoopKeeps, MethodKeeps DEF Next

LEMMA VectorAlways == Spec => []VectorInv
  BY VectorInit, VectorStep, PTL DEF Spec

\* For every limit and every vector, the sum that rw_copy_check_uvector
\* returns is the lesser of the lengths asked for and the limit, and nothing
\* is left of the vector behind a segment that was cut.
THEOREM VectorCut == Spec => []CutToLimit
<1>1. VectorInv => CutToLimit
  BY DEF VectorInv, AtCheck, CutToLimit
<1> QED
  BY <1>1, VectorAlways, PTL

\* For every width of the words, a vector call that goes on to transfer has
\* an addressable range, and one that is refused for its range has none.
THEOREM VectorRefusal == Spec => []RefusesExactly
<1>1. VectorInv => RefusesExactly
  BY DEF VectorInv, AtTransfer, RefusesExactly
<1> QED
  BY <1>1, VectorAlways, PTL

-----------------------------------------------------------------------------
(***************************************************************************)
(* What is transferred.  The sums of the kernel's vector tie the counters  *)
(* of the four loops together: ret while checking, len before and during   *)
(* the cut, ret and *pos while transferring.                               *)
(***************************************************************************)
\* Of the first n segments none is longer than the caller's, and behind one
\* that was cut nothing is left.
CutPrefix(n) ==
  /\ \A i \in 1 .. n : iov[i] <= uvector[i]
  /\ \A i, j \in 1 .. n : i < j /\ iov[j] > 0 => iov[i] = uvector[i]

\* The position is r bytes behind the start.
Moved(r) == IF unsigned THEN Unsigned(pos) = Unsigned(start) + r ELSE pos = start + r

\* The segments are filled in order.
FilledInOrder ==
  \A i, j \in DOMAIN filled : i < j /\ filled[j] > 0 => filled[i] = uvector[i]

Typed ==
  /\ uvector \in UserVectors /\ aio \in BOOLEAN /\ start \in Positions
  /\ iov \in [DOMAIN uvector -> size_t] /\ nr_segs \in 0 .. Len(uvector)
  /\ seg \in Nat \ {0} /\ to \in 0 .. MAX_RW_COUNT /\ pos \in loff_t
  /\ filled \in [DOMAIN uvector -> 0 .. MAX_RW_COUNT]
  /\ asked \in Nat /\ ret \in Int
  /\ pc \in {"copy", "check", "verify", "call", "shorten", "aio", "loop", "done"}

Untouched ==
  pc \in {"copy", "check", "verify", "call", "shorten", "aio"} =>
    pos = start /\ \A i \in DOMAIN uvector : filled[i] = 0

Checked ==
  /\ pc = "check" => seg <= Len(uvector) + 1 /\ ret = Sums(iov)[seg - 1] /\ CutPrefix(seg - 1)
  /\ pc \in {"verify", "call", "shorten", "loop"} => nr_segs = Len(uvector)
  /\ pc \in {"verify", "call", "shorten", "loop", "aio"} => CutPrefix(nr_segs)
  /\ pc \in {"verify", "call", "loop"} => len = Sums(iov)[nr_segs]
  /\ pc = "call" => seg = 1
  /\ pc \in {"call", "shorten", "aio"} => aio

Limited ==
  /\ pc = "shorten" => /\ seg <= nr_segs + 1 /\ len = Sums(iov)[seg - 1]
                       /\ len < to /\ to < Sums(iov)[nr_segs]
  /\ pc = "aio" => Sums(iov)[nr_segs] = to
  /\ pc \in {"shorten", "aio"} => Addressable(unsigned, start, to)

Looping ==
  pc = "loop" =>
    /\ seg <= nr_segs + 1 /\ ret = Sums(iov)[seg - 1] /\ Moved(ret)
    /\ \A i \in DOMAIN uvector : filled[i] = IF i < seg THEN iov[i] ELSE 0

Finished ==
  pc = "done" =>
    /\ FilledInOrder
    /\ Moved(Sums(filled)[Len(uvector)])
    /\ \/ ret >= 0 /\ Sums(filled)[Len(uvector)] = ret
       \/ ret < 0 /\ Sums(filled)[Len(uvector)] = 0
       \/ ret = EIO /\ aio

SumInv == Typed /\ Untouched /\ Checked /\ Limited /\ Looping /\ Finished

LEMMA SameLength ==
  ASSUME NEW u \in Seq(size_t), NEW f \in [DOMAIN u -> Nat]
  PROVE  /\ f \in Seq(Nat) /\ Len(f) = Len(u) /\ Len(u) \in Nat
         /\ DOMAIN u = 1 .. Len(u) /\ DOMAIN f = 1 .. Len(u)
<1>1. DOMAIN u = 1 .. Len(u) /\ Len(u) \in Nat
  OBVIOUS
<1>2. f \in [1 .. Len(u) -> Nat]
  BY <1>1
<1> QED
  BY <1>1, <1>2

\* What both invariants say of the vectors, as sequences.
LEMMA Vectors ==
  ASSUME VectorInv, Typed
  PROVE  /\ uvector \in Seq(size_t) /\ Len(uvector) \in Nat /\ DOMAIN uvector = 1 .. Len(uvector)
         /\ iov \in Seq(Nat) /\ Len(iov) = Len(uvector) /\ DOMAIN iov = 1 .. Len(uvector)
         /\ iov \in [DOMAIN uvector -> Nat]
         /\ filled \in Seq(Nat) /\ Len(filled) = Len(uvector) /\ DOMAIN filled = 1 .. Len(uvector)
         /\ filled \in [DOMAIN uvector -> Nat]
         /\ \A i \in DOMAIN uvector : uvector[i] \in Nat
         /\ \A k \in 0 .. Len(uvector) : Sums(iov)[k] \in Nat
<1>1. uvector \in Seq(size_t) /\ size_t \subseteq Nat /\ 0 .. MAX_RW_COUNT \subseteq Nat
  BY RwAssumption DEF VectorInv, Given, size_t
<1>2. iov \in [DOMAIN uvector -> Nat] /\ filled \in [DOMAIN uvector -> Nat]
  BY <1>1 DEF Typed
<1>3. \A i \in DOMAIN uvector : uvector[i] \in Nat
  <2>1. \A i \in DOMAIN uvector : uvector[i] \in size_t
    BY <1>1
  <2> QED
    BY <1>1, <2>1
<1>4. /\ Len(uvector) \in Nat /\ DOMAIN uvector = 1 .. Len(uvector)
      /\ iov \in Seq(Nat) /\ Len(iov) = Len(uvector) /\ DOMAIN iov = 1 .. Len(uvector)
      /\ filled \in Seq(Nat) /\ Len(filled) = Len(uvector) /\ DOMAIN filled = 1 .. Len(uvector)
  BY <1>1, <1>2, SameLength
<1>5. \A k \in 0 .. Len(iov) : Sums(iov)[k] \in Nat
  BY <1>4, SumsNat
<1> QED
  BY <1>1, <1>2, <1>3, <1>4, <1>5

\* Nothing filled adds up to nothing.
LEMMA NothingFilled ==
  ASSUME NEW f \in Seq(Nat), \A i \in 1 .. Len(f) : f[i] = 0
  PROVE  Sums(f)[Len(f)] = 0
<1>1. Len(f) \in Nat /\ 0 \in 0 .. Len(f) /\ 0 + 1 = 1
  OBVIOUS
<1>2. Sums(f)[Len(f)] = Sums(f)[0]
  BY <1>1, SumsEnd
<1> QED
  BY <1>1, <1>2, SumsUnfold

\* Leaving by "goto out", in the terms of what was filled.
LEMMA OutFinished ==
  ASSUME VectorInv, SumInv, NEW value \in Int, Out(value),
         FilledInOrder, Sums(filled)[Len(uvector)] = IF value < 0 THEN 0 ELSE value,
         Moved(Sums(filled)[Len(uvector)])
  PROVE  SumInv'
<1>1. /\ ret' = value /\ pc' = "done"
      /\ UNCHANGED <<uvector, unsigned, aio, start, iov, seg, nr_segs, len, to, pos, filled, asked>>
  BY DEF Out, user
<1>2. Typed'
  BY <1>1 DEF SumInv, Typed
<1>3. Finished'
  BY <1>1 DEF Finished, FilledInOrder, Moved
<1> QED
  BY <1>1, <1>2, <1>3 DEF SumInv, Untouched, Checked, Limited, Looping

\* Before the first transfer a call can be left with 0 or an error.
LEMMA OutUntouched ==
  ASSUME VectorInv, SumInv, pc \in {"copy", "check", "verify", "call", "shorten", "aio"},
         NEW value \in Int, value <= 0, Out(value)
  PROVE  SumInv'
<1>1. pos = start /\ \A i \in DOMAIN uvector : filled[i] = 0
  BY DEF SumInv, Untouched
<1>2. /\ filled \in Seq(Nat) /\ Len(filled) = Len(uvector)
      /\ DOMAIN filled = 1 .. Len(uvector) /\ DOMAIN uvector = 1 .. Len(uvector)
  BY Vectors DEF SumInv
<1>3. Sums(filled)[Len(uvector)] = 0
  BY <1>1, <1>2, NothingFilled
<1>4. FilledInOrder
  BY <1>1, <1>2 DEF FilledInOrder
<1>5. Moved(Sums(filled)[Len(uvector)])
  <2>1. start \in Int /\ Unsigned(start) \in Int
    BY RwAssumption DEF VectorInv, Given, loff_t, Unsigned
  <2> QED
    BY <1>1, <1>3, <2>1 DEF Moved
<1>6. Sums(filled)[Len(uvector)] = IF value < 0 THEN 0 ELSE value
  BY <1>3
<1> QED
  BY <1>4, <1>5, <1>6, OutFinished

-----------------------------------------------------------------------------
LEMMA SumInit == ASSUME Init PROVE SumInv
<1>1. /\ uvector \in Seq(size_t) /\ start \in loff_t
      /\ 0 \in 0 .. MAX_RW_COUNT /\ Len(uvector) \in Nat
  BY RwAssumption, VectorAssumption DEF Init
<1>2. iov \in [DOMAIN uvector -> size_t]
  BY <1>1 DEF Init
<1>3. Typed
  BY <1>1, <1>2 DEF Init, Typed
<1>4. Untouched
  BY DEF Init, Untouched
<1> QED
  BY <1>3, <1>4 DEF Init, SumInv, Checked, Limited, Looping, Finished

LEMMA CopySums == ASSUME VectorInv, SumInv, CopyVector PROVE SumInv'
<1>1. pc = "copy" /\ iov = uvector /\ nr_segs = Len(uvector) /\ seg = 1 /\ ret = 0
  BY DEF CopyVector, VectorInv, AtCopy
<1>2. CASE \E value \in {0, EINVAL, ENOMEM, EFAULT} : Out(value)
  <2>1. PICK value \in {0, EINVAL, ENOMEM, EFAULT} : Out(value)
    BY <1>2
  <2>2. value \in Int /\ value <= 0
    BY DEF EINVAL, ENOMEM, EFAULT
  <2> QED
    BY <1>1, <2>1, <2>2, OutUntouched
<1>3. CASE /\ pc' = "check"
           /\ UNCHANGED <<user, iov, seg, nr_segs, len, to, pos, filled, asked, ret>>
  <2>1. Typed' /\ Untouched'
    BY <1>1, <1>3 DEF SumInv, Typed, Untouched, user
  <2>2. Len(iov) \in Nat /\ Len(iov) = Len(uvector)
    BY Vectors DEF SumInv
  <2>3. Sums(iov)[0] = 0
    BY <2>2, SumsUnfold
  <2>4. Checked'
    BY <1>1, <1>3, <2>2, <2>3 DEF Checked, CutPrefix, user
  <2> QED
    BY <1>3, <2>1, <2>4 DEF SumInv, Limited, Looping, Finished
<1> QED
  BY <1>2, <1>3 DEF CopyVector

LEMMA CheckSums == ASSUME VectorInv, VectorInv', SumInv, CheckSegment PROVE SumInv'
<1>1. /\ pc = "check" /\ seg <= Len(uvector) /\ seg \in 1 .. Len(uvector)
      /\ ret = Sums(iov)[seg - 1] /\ CutPrefix(seg - 1)
  <2>1. /\ pc = "check" /\ seg <= nr_segs /\ nr_segs = Len(uvector) /\ seg \in Nat \ {0}
        /\ ret = Sums(iov)[seg - 1] /\ CutPrefix(seg - 1)
    BY DEF CheckSegment, SumInv, Checked, VectorInv, AtCheck
  <2>2. Len(uvector) \in Nat
    BY Vectors DEF SumInv
  <2> QED
    BY <2>1, <2>2
<1>2. CASE \E value \in {EINVAL, EFAULT} : Out(value)
  <2>1. PICK value \in {EINVAL, EFAULT} : Out(value)
    BY <1>2
  <2>2. value \in Int /\ value <= 0
    BY DEF EINVAL, EFAULT
  <2> QED
    BY <1>1, <2>1, <2>2, OutUntouched
<1>3. CASE /\ iov' = [iov EXCEPT ![seg] = Cut(@, ret)]
           /\ ret' = ret + iov'[seg]
           /\ asked' = asked + uvector[seg]
           /\ seg' = seg + 1
           /\ UNCHANGED <<user, nr_segs, len, to, pos, filled, pc>>
  <2>1. /\ uvector \in Seq(size_t) /\ Len(uvector) \in Nat /\ DOMAIN uvector = 1 .. Len(uvector)
        /\ iov \in Seq(Nat) /\ Len(iov) = Len(uvector) /\ iov \in [DOMAIN uvector -> Nat]
        /\ \A i \in DOMAIN uvector : uvector[i] \in Nat
        /\ \A k \in 0 .. Len(uvector) : Sums(iov)[k] \in Nat
    BY Vectors DEF SumInv
  <2>2. MAX_RW_COUNT \in Nat /\ ret \in 0 .. MAX_RW_COUNT /\ iov[seg] = uvector[seg]
    <3>1. ret = Least(asked, MAX_RW_COUNT) /\ asked \in Nat /\ iov[seg] = uvector[seg]
      BY <1>1, <2>1 DEF VectorInv, AtCheck
    <3> QED
      BY <3>1, RwAssumption DEF Least
  <2> DEFINE n == iov[seg]
             c == Cut(n, ret)
  <2>3. n \in Nat /\ n \in size_t
    BY <1>1, <2>1 DEF SumInv, Typed
  <2>4. c \in Nat /\ c <= n /\ c \in size_t
    <3>1. c = IF n > MAX_RW_COUNT - ret THEN MAX_RW_COUNT - ret ELSE n
      BY DEF Cut
    <3> HIDE DEF n, c
    <3>2. c \in Nat /\ c <= n
      BY <2>2, <2>3, <3>1
    <3>3. n \in 0 .. 2 * Half - 1 /\ Half \in Nat
      BY <2>3, RwAssumption DEF size_t
    <3>4. c \in 0 .. 2 * Half - 1
      BY <3>2, <3>3
    <3> QED
      BY <3>2, <3>4 DEF size_t
  <2>5. iov' = [iov EXCEPT ![seg] = c]
    BY <1>1, <1>3, <2>1
  <2> HIDE DEF c
  <2>6. iov'[seg] = c /\ \A i \in DOMAIN uvector \ {seg} : iov'[i] = iov[i]
    BY <1>1, <2>1, <2>5
  <2>7. iov' \in [DOMAIN uvector' -> size_t] /\ uvector' = uvector
    <3>1. iov \in [DOMAIN uvector -> size_t] /\ uvector' = uvector
      BY <1>3 DEF SumInv, Typed, user
    <3> QED
      BY <2>4, <2>5, <3>1
  <2>8. Typed'
    <3>1. asked' \in Nat
      <4>1. asked \in Nat /\ uvector[seg] \in Nat
        BY <1>1, <2>1 DEF SumInv, Typed
      <4> QED
        BY <1>3, <4>1
    <3>2. ret' \in Int /\ seg' \in Nat \ {0}
      BY <1>1, <1>3, <2>2, <2>4, <2>6
    <3> QED
      BY <1>3, <2>7, <3>1, <3>2 DEF SumInv, Typed, user
  <2>9. Untouched'
    BY <1>1, <1>3, <2>7 DEF SumInv, Untouched, user
  <2>10. iov' \in Seq(Nat) /\ Len(iov') = Len(uvector)
    <3>1. iov' \in [DOMAIN uvector -> Nat]
      BY <2>1, <2>4, <2>5
    <3> QED
      BY <2>1, <3>1, SameLength
  <2>11. ret' = Sums(iov')[seg]
    <3> DEFINE p == seg - 1
    <3>1. p \in 0 .. Len(uvector) /\ \A k \in 1 .. p : k \in DOMAIN uvector \ {seg}
      BY <1>1, <2>1
    <3>2. Sums(iov)[p] = Sums(iov')[p]
      <4>1. \A k \in 1 .. p : iov[k] = iov'[k]
        BY <2>6, <3>1
      <4>2. p <= Len(uvector)
        BY <2>1, <3>1
      <4> HIDE DEF p
      <4> QED
        BY <2>1, <2>10, <3>1, <4>1, <4>2, SumsSame
    <3>3. Sums(iov')[seg] = Sums(iov')[p] + iov'[seg]
      BY <1>1, <2>10, <2>1, SumsUnfold
    <3> QED
      BY <1>1, <1>3, <3>2, <3>3
  <2>12. CutPrefix(seg - 1)'
    <3>1. ASSUME NEW i \in 1 .. seg PROVE iov'[i] <= uvector[i]
      <4>1. CASE i = seg
        BY <2>2, <2>4, <2>6, <4>1
      <4>2. CASE i # seg
        <5>1. i \in 1 .. seg - 1 /\ i \in DOMAIN uvector \ {seg}
          BY <1>1, <2>1, <4>2
        <5> QED
          BY <1>1, <2>6, <5>1 DEF CutPrefix
      <4> QED
        BY <4>1, <4>2
    <3>2. ASSUME NEW i \in 1 .. seg, NEW j \in 1 .. seg, i < j, iov'[j] > 0
          PROVE  iov'[i] = uvector[i]
      <4>1. /\ seg' - 1 = seg /\ pc' = "check"
            /\ i \in Nat /\ j \in i + 1 .. seg /\ i \in DOMAIN uvector /\ j \in DOMAIN uvector
        BY <1>1, <1>3, <2>1, <3>2
      <4>2. iov'[i] < uvector'[i] => iov'[j] = 0
        <5>1. \A k \in 1 .. seg : iov'[k] < uvector'[k] => \A m \in k + 1 .. seg : iov'[m] = 0
          BY <4>1 DEF VectorInv, AtCheck
        <5> QED
          BY <4>1, <5>1
      <4>3. iov'[j] \in Nat /\ iov'[i] \in Nat /\ uvector[i] \in Nat
        BY <2>1, <2>4, <2>6, <4>1
      <4> QED
        BY <2>7, <3>1, <3>2, <4>2, <4>3
    <3> HIDE DEF n
    <3>3. \A i \in 1 .. seg : iov'[i] <= uvector'[i]
      BY <2>7, <3>1
    <3>4. \A i, j \in 1 .. seg : i < j /\ iov'[j] > 0 => iov'[i] = uvector'[i]
      BY <2>7, <3>2
    <3>5. seg' - 1 = seg
      BY <1>1, <1>3
    <3> QED
      BY <3>3, <3>4, <3>5 DEF CutPrefix
  <2>13. Checked'
    <3>1. seg' - 1 = seg /\ seg' <= Len(uvector) + 1 /\ pc' = "check"
      BY <1>1, <1>3, <2>1
    <3> QED
      BY <2>7, <2>11, <2>12, <3>1 DEF Checked
  <2> QED
    BY <1>1, <1>3, <2>8, <2>9, <2>13 DEF SumInv, Limited, Looping, Finished
<1> QED
  BY <1>2, <1>3 DEF CheckSegment

LEMMA EndCheckSums == ASSUME VectorInv, SumInv, EndCheck PROVE SumInv'
<1>1. /\ pc = "check" /\ seg > nr_segs /\ nr_segs = Len(uvector) /\ seg <= Len(uvector) + 1
      /\ ret = Sums(iov)[seg - 1] /\ CutPrefix(seg - 1) /\ seg \in Nat /\ ret \in Int
  BY DEF EndCheck, SumInv, Typed, Checked, VectorInv, AtCheck
<1>2. Len(uvector) \in Nat
  BY Vectors DEF SumInv
<1>3. seg - 1 = nr_segs
  BY <1>1, <1>2
<1>4. CASE Out(ret) /\ ret <= 0
  BY <1>1, <1>4, OutUntouched
<1>5. CASE /\ len' = ret /\ pc' = "verify"
           /\ UNCHANGED <<user, iov, seg, nr_segs, to, pos, filled, asked, ret>>
  <2>1. Typed' /\ Untouched'
    BY <1>1, <1>5 DEF SumInv, Typed, Untouched, user
  <2>2. Checked'
    BY <1>1, <1>3, <1>5 DEF Checked, CutPrefix, user
  <2> QED
    BY <1>5, <2>1, <2>2 DEF SumInv, Limited, Looping, Finished
<1> QED
  BY <1>4, <1>5 DEF EndCheck

LEMMA VerifySums == ASSUME VectorInv, SumInv, Verify PROVE SumInv'
<1>1. PICK v \in VerifyOutcomes(unsigned, pos, len) :
        IF v < 0 THEN Out(v)
        ELSE /\ ret' = 0 /\ seg' = 1
             /\ pc' = IF aio THEN "call" ELSE "loop"
             /\ UNCHANGED <<user, iov, nr_segs, len, to, pos, filled, asked>>
  BY DEF Verify
<1>2. /\ pc = "verify" /\ pos = start /\ nr_segs = Len(uvector) /\ CutPrefix(nr_segs)
      /\ len = Sums(iov)[nr_segs] /\ \A i \in DOMAIN uvector : filled[i] = 0
  BY DEF Verify, SumInv, Untouched, Checked
<1>3. CASE v < 0
  <2>1. v \in Int
    <3>1. /\ pos \in loff_t /\ len \in 1 .. MAX_RW_COUNT /\ unsigned \in BOOLEAN
      BY <1>2, RwAssumption DEF VectorInv, Given, AtTransfer
    <3>2. VerifyOutcomes(unsigned, pos, len) \subseteq Int
      BY <3>1, VerifyInt
    <3> QED
      BY <1>1, <3>2
  <2> QED
    BY <1>1, <1>2, <1>3, <2>1, OutUntouched
<1>4. CASE ~ (v < 0)
  <2>1. /\ ret' = 0 /\ seg' = 1 /\ pc' = (IF aio THEN "call" ELSE "loop")
        /\ UNCHANGED <<uvector, unsigned, aio, start, iov, nr_segs, len, to, pos, filled, asked>>
    BY <1>1, <1>4 DEF user
  <2>2. Typed' /\ Untouched'
    BY <1>2, <2>1 DEF SumInv, Typed, Untouched
  <2>3. Checked'
    BY <1>2, <2>1 DEF Checked, CutPrefix
  <2>4. /\ Len(iov) \in Nat /\ Len(iov) = Len(uvector) /\ Sums(iov)[0] = 0
        /\ DOMAIN uvector = 1 .. Len(uvector)
    BY Vectors, SumsUnfold DEF SumInv
  <2>5. Moved(0)
    <3>1. start \in Int /\ Unsigned(start) \in Int
      BY RwAssumption DEF VectorInv, Given, loff_t, Unsigned
    <3> QED
      BY <1>2, <3>1 DEF Moved
  <2>6. Looping'
    BY <1>2, <2>1, <2>4, <2>5 DEF Looping, Moved
  <2> QED
    BY <2>1, <2>2, <2>3, <2>6 DEF SumInv, Limited, Finished
<1> QED
  BY <1>3, <1>4

\* Between two segments the loop has filled whole segments in order, as
\* many bytes as it counts.
LEMMA LoopFilled ==
  ASSUME VectorInv, SumInv, pc = "loop"
  PROVE  FilledInOrder /\ Sums(filled)[Len(uvector)] = ret
<1> DEFINE L == Len(uvector)
           p == seg - 1
<1>1. /\ seg <= nr_segs + 1 /\ nr_segs = L /\ CutPrefix(nr_segs)
      /\ ret = Sums(iov)[p] /\ seg \in Nat \ {0}
      /\ \A i \in DOMAIN uvector : filled[i] = IF i < seg THEN iov[i] ELSE 0
  BY DEF SumInv, Checked, Looping, Typed
<1>2. /\ DOMAIN uvector = 1 .. L /\ DOMAIN filled = 1 .. L /\ Len(filled) = L /\ L \in Nat
      /\ Len(iov) = L /\ filled \in Seq(Nat) /\ iov \in Seq(Nat)
  BY Vectors DEF SumInv
<1>3. p \in 0 .. L /\ p <= L /\ \A k \in 1 .. L : k < seg <=> k <= p
  BY <1>1, <1>2
<1> HIDE DEF L, p
<1>4. /\ \A i \in 1 .. L : i < seg => filled[i] = iov[i]
      /\ \A i \in 1 .. L : ~ (i < seg) => filled[i] = 0
  BY <1>1, <1>2
<1>5. FilledInOrder
  <2> SUFFICES ASSUME NEW i \in DOMAIN filled, NEW j \in DOMAIN filled, i < j, filled[j] > 0
               PROVE  filled[i] = uvector[i]
    BY DEF FilledInOrder
  <2>1. i \in 1 .. L /\ j \in 1 .. L /\ j < seg /\ i < seg
    BY <1>1, <1>2, <1>4
  <2>2. filled[j] = iov[j] /\ filled[i] = iov[i]
    BY <1>4, <2>1
  <2>3. iov[i] = uvector[i]
    BY <1>1, <2>1, <2>2 DEF CutPrefix
  <2> QED
    BY <2>2, <2>3
<1>6. Sums(filled)[p] = Sums(iov)[p]
  <2>1. \A k \in 1 .. p : filled[k] = iov[k]
    BY <1>2, <1>3, <1>4
  <2> QED
    BY <1>2, <1>3, <2>1, SumsSame
<1>7. Sums(filled)[L] = Sums(filled)[p]
  <2>1. \A k \in p + 1 .. L : filled[k] = 0
    BY <1>2, <1>3, <1>4
  <2> QED
    BY <1>2, <1>3, <2>1, SumsEnd
<1> QED
  BY <1>1, <1>5, <1>6, <1>7 DEF L

LEMMA LoopSums == ASSUME VectorInv, SumInv, LoopSegment PROVE SumInv'
<1>1. /\ pc = "loop" /\ seg <= nr_segs /\ nr_segs = Len(uvector) /\ CutPrefix(nr_segs)
      /\ len = Sums(iov)[nr_segs] /\ ret = Sums(iov)[seg - 1] /\ Moved(ret)
      /\ \A i \in DOMAIN uvector : filled[i] = IF i < seg THEN iov[i] ELSE 0
      /\ Addressable(unsigned, start, len) /\ seg \in Nat \ {0}
      /\ unsigned \in BOOLEAN /\ start \in loff_t /\ pos \in loff_t /\ len \in 0 .. MAX_RW_COUNT
  BY DEF LoopSegment, SumInv, Checked, Looping, Typed, VectorInv, AtTransfer, Given
<1>2. /\ uvector \in Seq(size_t) /\ Len(uvector) \in Nat /\ DOMAIN uvector = 1 .. Len(uvector)
      /\ iov \in Seq(Nat) /\ Len(iov) = Len(uvector) /\ iov \in [DOMAIN uvector -> Nat]
      /\ filled \in Seq(Nat) /\ Len(filled) = Len(uvector) /\ DOMAIN filled = 1 .. Len(uvector)
      /\ \A i \in DOMAIN uvector : uvector[i] \in Nat
      /\ \A k \in 0 .. Len(uvector) : Sums(iov)[k] \in Nat
  BY Vectors DEF SumInv
<1>3. PICK nr \in {EIO} \cup 0 .. iov[seg] :
        IF nr < 0 THEN Out(IF ret = 0 THEN nr ELSE ret)
        ELSE /\ ret' = ret + nr
             /\ pos' = Advanced(nr)
             /\ filled' = [filled EXCEPT ![seg] = nr]
             /\ seg' = seg + 1
             /\ pc' = IF ShortEnds(nr, iov[seg]) THEN "done" ELSE pc
             /\ UNCHANGED <<user, iov, nr_segs, len, to, asked>>
  BY DEF LoopSegment
<1>4. seg \in 1 .. Len(uvector) /\ seg - 1 \in 0 .. Len(uvector) /\ ret \in Nat /\ iov[seg] \in Nat
  BY <1>1, <1>2
<1>5. /\ Sums(iov)[seg] = ret + iov[seg] /\ Sums(iov)[seg] <= len
  <2>1. Sums(iov)[seg] = Sums(iov)[seg - 1] + iov[seg]
    BY <1>2, <1>4, SumsUnfold
  <2>2. seg \in 0 .. Len(iov) /\ nr_segs \in seg .. Len(iov)
    BY <1>1, <1>2, <1>4
  <2>3. Sums(iov)[seg] <= Sums(iov)[nr_segs]
    BY <1>2, <2>2, SumsGrow
  <2> QED
    BY <1>1, <2>1, <2>3
<1> DEFINE L == Len(uvector)
<1>10. /\ DOMAIN uvector = 1 .. L /\ DOMAIN filled = 1 .. L /\ Len(filled) = L /\ L \in Nat
       /\ nr_segs = L /\ seg \in 1 .. L /\ Len(iov) = L
  BY <1>1, <1>2, <1>4
<1>11. /\ \A i \in 1 .. L : i < seg => filled[i] = iov[i]
       /\ \A i \in 1 .. L : ~ (i < seg) => filled[i] = 0
  BY <1>1, <1>10
<1>12. \A i \in 1 .. L : iov[i] \in Nat
  BY <1>2, <1>10
<1> HIDE DEF L
<1>6. Sums(filled)[Len(uvector)] = ret
  BY <1>1, LoopFilled
<1>7. \A i, j \in 1 .. nr_segs : i < j /\ iov[j] > 0 => iov[i] = uvector[i]
  BY <1>1 DEF CutPrefix
<1>8. CASE nr < 0
  <2> DEFINE value == IF ret = 0 THEN nr ELSE ret
  <2>1. nr = -5
    BY <1>3, <1>8 DEF EIO
  <2>2. value \in Int /\ Out(value)
    BY <1>3, <1>4, <1>8, <2>1
  <2>3. Sums(filled)[Len(uvector)] = IF value < 0 THEN 0 ELSE value
    BY <1>4, <1>6, <2>1
  <2>4. Moved(Sums(filled)[Len(uvector)])
    BY <1>1, <1>6
  <2>5. FilledInOrder
    BY <1>1, LoopFilled
  <2> HIDE DEF value
  <2> QED
    BY <2>2, <2>3, <2>4, <2>5, OutFinished
<1>9. CASE ~ (nr < 0)
  <2>1. /\ ret' = ret + nr /\ pos' = Signed(pos + nr) /\ filled' = [filled EXCEPT ![seg] = nr]
        /\ seg' = seg + 1 /\ pc' = IF nr # iov[seg] THEN "done" ELSE "loop"
        /\ UNCHANGED <<uvector, unsigned, aio, start, iov, nr_segs, len, to, asked>>
    BY <1>1, <1>3, <1>9 DEF user, Advanced, ShortEnds
  <2>2. nr \in Nat /\ nr <= iov[seg]
    BY <1>3, <1>4, <1>9 DEF EIO
  <2>3. /\ ret + nr <= len /\ nr <= MAX_RW_COUNT /\ MAX_RW_COUNT \in Nat /\ len \in Nat
    <3>1. MAX_RW_COUNT \in Nat /\ len \in Nat /\ len <= MAX_RW_COUNT
      BY <1>1, RwAssumption
    <3>2. ret + iov[seg] <= len
      BY <1>5
    <3> QED
      BY <1>4, <2>2, <3>1, <3>2
  <2>4. pos' \in loff_t /\ Moved(ret)'
    <3>1. IF unsigned THEN Unsigned(pos) = Unsigned(start) + ret ELSE pos = start + ret
      BY <1>1 DEF Moved
    <3>2. /\ Signed(pos + nr) \in loff_t
          /\ IF unsigned THEN Unsigned(Signed(pos + nr)) = Unsigned(start) + (ret + nr)
                         ELSE Signed(pos + nr) = start + (ret + nr)
      BY <1>1, <1>4, <2>2, <2>3, <3>1, MovedOn, SMTT(30)
    <3> QED
      BY <2>1, <3>2 DEF Moved
  <2>5. filled' \in [DOMAIN uvector -> 0 .. MAX_RW_COUNT]
    <3>1. nr \in 0 .. MAX_RW_COUNT
      BY <2>2, <2>3
    <3> QED
      BY <2>1, <3>1 DEF SumInv, Typed
  <2>6. Typed'
    <3>1. ret' \in Int /\ seg' \in Nat \ {0}
      BY <1>4, <2>1, <2>2
    <3> QED
      BY <2>1, <2>4, <2>5, <3>1 DEF SumInv, Typed
  <2>7. filled'[seg] = nr /\ \A i \in DOMAIN uvector \ {seg} : filled'[i] = filled[i]
    BY <1>2, <1>4, <2>1
  <2>8. CASE nr = iov[seg]
    <3>1. seg' - 1 = seg /\ ret' = Sums(iov)[seg] /\ seg' <= nr_segs + 1
      BY <1>1, <1>2, <1>4, <1>5, <2>1, <2>8
    <3>2. ASSUME NEW i \in DOMAIN uvector PROVE filled'[i] = IF i < seg + 1 THEN iov[i] ELSE 0
      <4>1. CASE i = seg
        BY <1>10, <2>7, <2>8, <4>1
      <4>2. CASE i # seg
        <5>1. filled'[i] = filled[i] /\ i \in 1 .. L
          BY <1>10, <2>7, <3>2, <4>2
        <5>2. i < seg + 1 <=> i < seg
          BY <1>10, <4>2, <5>1
        <5> QED
          BY <1>11, <5>1, <5>2
      <4> QED
        BY <4>1, <4>2
    <3>3. pc' = "loop"
      BY <2>1, <2>8
    <3>4. Looping'
      BY <2>1, <2>4, <3>1, <3>2 DEF Looping
    <3>5. Checked'
      BY <1>1, <2>1, <3>3 DEF Checked, CutPrefix
    <3> QED
      BY <2>6, <3>3, <3>4, <3>5 DEF SumInv, Untouched, Limited, Finished
  <2>9. CASE nr # iov[seg]
    <3>1. pc' = "done" /\ ret' \in Nat
      BY <1>4, <2>1, <2>2, <2>9
    <3>2. /\ \A i \in DOMAIN uvector : i < seg => filled'[i] = iov[i]
          /\ \A i \in DOMAIN uvector : i > seg => filled'[i] = 0
      BY <1>10, <1>11, <2>7
    <3>3. FilledInOrder'
      <4>1. DOMAIN filled' = DOMAIN uvector
        BY <2>5
      <4> SUFFICES ASSUME NEW i \in DOMAIN uvector, NEW j \in DOMAIN uvector, i < j, filled'[j] > 0
                   PROVE  filled'[i] = uvector[i]
        BY <2>1, <4>1 DEF FilledInOrder
      <4>2. j <= seg /\ i < seg /\ iov[j] > 0
        <5>1. i \in 1 .. L /\ j \in 1 .. L
          BY <1>10
        <5>2. ~ (j > seg)
          <6>1. j > seg => filled'[j] = 0
            BY <3>2
          <6> QED
            BY <6>1
        <5>3. j <= seg /\ i < seg
          BY <1>10, <5>1, <5>2
        <5>4. CASE j = seg
          BY <1>4, <2>2, <2>7, <5>3, <5>4
        <5>5. CASE j # seg
          <6>1. j < seg
            BY <1>10, <5>1, <5>3, <5>5
          <6>2. filled'[j] = iov[j]
            BY <3>2, <6>1
          <6> QED
            BY <5>3, <6>2
        <5> QED
          BY <5>4, <5>5
      <4>3. iov[i] = uvector[i]
        BY <1>7, <1>10, <4>2
      <4> QED
        BY <3>2, <4>2, <4>3
    <3>4. Sums(filled')[Len(uvector)] = ret'
      <4>1. filled' \in Seq(Nat) /\ Len(filled') = Len(uvector)
        <5>1. filled' \in [DOMAIN uvector -> Nat]
          BY <2>3, <2>5
        <5> QED
          BY <1>2, <5>1, SameLength
      <4> DEFINE p == seg - 1
      <4>2. p \in 0 .. Len(uvector) /\ p <= Len(iov) /\ \A k \in 1 .. p : filled'[k] = iov[k]
        BY <1>2, <1>4, <3>2
      <4>3. Sums(filled')[p] = Sums(iov)[p]
        <5> HIDE DEF p
        <5>1. Len(filled') \in Nat /\ Len(iov) \in Nat /\ p \in 0 .. Len(filled')
          BY <1>2, <4>1, <4>2
        <5> QED
          BY <4>2, <5>1, SumsSame
      <4>4. Sums(filled')[seg] = Sums(filled')[p] + nr
        BY <1>4, <2>7, <4>1, SumsUnfold
      <4>5. Sums(filled')[Len(filled')] = Sums(filled')[seg]
        <5>1. seg \in 0 .. Len(filled') /\ \A k \in seg + 1 .. Len(filled') : k \in 1 .. L /\ k > seg
          BY <1>10, <4>1 DEF L
        <5>2. \A k \in seg + 1 .. Len(filled') : filled'[k] = 0
          BY <1>10, <3>2, <5>1
        <5> QED
          BY <4>1, <5>1, <5>2, SumsEnd
      <4> QED
        BY <1>1, <2>1, <4>1, <4>3, <4>4, <4>5
    <3>5. Finished'
      BY <2>1, <2>4, <3>1, <3>3, <3>4 DEF Finished
    <3> QED
      BY <2>6, <3>1, <3>5 DEF SumInv, Untouched, Checked, Limited, Looping
  <2> QED
    BY <2>8, <2>9
<1> QED
  BY <1>8, <1>9

LEMMA EndLoopSums == ASSUME VectorInv, SumInv, EndLoop PROVE SumInv'
<1>1. pc = "loop" /\ Out(ret)
  BY DEF EndLoop
<1>2. ret \in Nat /\ ret \in Int /\ Moved(ret)
  BY <1>1 DEF VectorInv, AtTransfer, SumInv, Looping
<1>3. FilledInOrder /\ Sums(filled)[Len(uvector)] = ret
  BY <1>1, LoopFilled
<1>4. /\ Sums(filled)[Len(uvector)] = IF ret < 0 THEN 0 ELSE ret
      /\ Moved(Sums(filled)[Len(uvector)])
  BY <1>2, <1>3
<1> QED
  BY <1>1, <1>2, <1>3, <1>4, OutFinished

LEMMA CallSums == ASSUME VectorInv, SumInv, CallMethod PROVE SumInv'
<1>1. /\ pc = "call" /\ seg = 1 /\ len = Sums(iov)[nr_segs] /\ CutPrefix(nr_segs)
      /\ nr_segs = Len(uvector) /\ Addressable(unsigned, start, len) /\ aio
      /\ unsigned \in BOOLEAN /\ start \in loff_t /\ len \in 0 .. MAX_RW_COUNT
  BY DEF CallMethod, SumInv, Checked, VectorInv, AtTransfer, Given
<1>2. UNCHANGED <<uvector, unsigned, aio, start, iov, seg, nr_segs, pos, filled, asked, ret>>
  BY DEF CallMethod, user
<1>3. len \in Nat /\ Len(iov) = Len(uvector) /\ Len(iov) \in Nat /\ MAX_RW_COUNT \in Nat
  BY <1>1, Vectors, RwAssumption DEF SumInv
<1>4. Sums(iov)[0] = 0
  BY <1>3, SumsUnfold
<1>5. CASE (\E limit \in 1 .. len - 1 : to' = limit) /\ len' = 0 /\ pc' = "shorten"
  <2>1. to' \in Nat /\ to' > 0 /\ to' < len /\ to' \in 0 .. MAX_RW_COUNT
    BY <1>1, <1>3, <1>5
  <2>2. Addressable(unsigned, start, to')
    BY <1>1, <1>3, <2>1, ShorterAddressable
  <2>3. Typed' /\ Untouched'
    BY <1>1, <1>2, <1>5, <2>1 DEF SumInv, Typed, Untouched
  <2>4. Checked'
    BY <1>1, <1>2, <1>5 DEF Checked, CutPrefix
  <2>5. Limited'
    BY <1>1, <1>2, <1>3, <1>4, <1>5, <2>1, <2>2 DEF Limited
  <2> QED
    BY <1>5, <2>3, <2>4, <2>5 DEF SumInv, Looping, Finished
<1>6. CASE to' = len /\ len' = len /\ pc' = "aio"
  <2>1. Typed' /\ Untouched'
    BY <1>1, <1>2, <1>6 DEF SumInv, Typed, Untouched
  <2>2. Checked' /\ Limited'
    BY <1>1, <1>2, <1>6 DEF Checked, CutPrefix, Limited
  <2> QED
    BY <1>6, <2>1, <2>2 DEF SumInv, Looping, Finished
<1> QED
  BY <1>5, <1>6 DEF CallMethod

LEMMA ShortenSums == ASSUME VectorInv, SumInv, iov_shorten PROVE SumInv'
<1> DEFINE L == Len(uvector)
           p == seg - 1
<1>1. /\ pc = "shorten" /\ seg <= nr_segs /\ nr_segs = L /\ CutPrefix(nr_segs)
      /\ len = Sums(iov)[p] /\ len < to /\ to < Sums(iov)[nr_segs]
      /\ Addressable(unsigned, start, to) /\ aio
      /\ to \in 1 .. MAX_RW_COUNT /\ len \in 0 .. MAX_RW_COUNT /\ seg \in Nat \ {0}
      /\ pos = start /\ \A i \in DOMAIN uvector : filled[i] = 0
  BY DEF iov_shorten, SumInv, Typed, Untouched, Checked, Limited, VectorInv, AtTransfer, Given
<1>2. /\ DOMAIN uvector = 1 .. L /\ L \in Nat /\ Len(iov) = L /\ iov \in Seq(Nat)
      /\ iov \in [DOMAIN uvector -> Nat] /\ uvector \in Seq(size_t)
      /\ \A k \in 0 .. L : Sums(iov)[k] \in Nat
      /\ \A i \in DOMAIN uvector : uvector[i] \in Nat
  BY Vectors DEF SumInv
<1>3. UNCHANGED <<uvector, unsigned, aio, start, to, pos, filled, asked, ret>>
  BY DEF iov_shorten, user
<1>4. /\ seg \in 1 .. L /\ p \in 0 .. L /\ iov[seg] \in Nat /\ MAX_RW_COUNT \in Nat
      /\ to \in Nat /\ len \in Nat
  BY <1>1, <1>2, RwAssumption
<1>5. Sums(iov)[seg] = len + iov[seg]
  BY <1>1, <1>2, <1>4, SumsUnfold
<1>6. CASE ~ (len + iov[seg] >= to)
  <2>1. seg' = seg + 1 /\ len' = len + iov[seg] /\ UNCHANGED <<iov, nr_segs, pc>>
    BY <1>6 DEF iov_shorten
  <2>2. Typed' /\ Untouched'
    BY <1>1, <1>3, <1>4, <2>1 DEF SumInv, Typed, Untouched
  <2>3. Checked'
    BY <1>1, <1>3, <2>1 DEF Checked, CutPrefix
  <2>4. seg' - 1 = seg /\ seg' <= nr_segs + 1 /\ len' < to
    BY <1>1, <1>4, <1>6, <2>1
  <2>5. Limited'
    BY <1>1, <1>3, <1>5, <2>1, <2>4 DEF Limited
  <2> QED
    BY <1>1, <2>1, <2>2, <2>3, <2>5 DEF SumInv, Looping, Finished
<1>7. CASE len + iov[seg] >= to
  <2> DEFINE c == to - len
  <2>1. iov' = [iov EXCEPT ![seg] = c] /\ nr_segs' = seg /\ pc' = "aio" /\ UNCHANGED <<seg, len>>
    BY <1>7 DEF iov_shorten, Shortened, ShortenedSegs
  <2>2. c \in Nat /\ c > 0 /\ c <= iov[seg] /\ c <= MAX_RW_COUNT /\ len + c = to
    BY <1>1, <1>4, <1>7
  <2> HIDE DEF c
  <2>3. iov'[seg] = c /\ \A i \in DOMAIN uvector \ {seg} : iov'[i] = iov[i]
    BY <1>2, <1>4, <2>1
  <2>4. c \in size_t
    <3>1. MAX_RW_COUNT < Half /\ Half \in Nat
      BY RwAssumption
    <3> QED
      BY <1>4, <2>2, <3>1 DEF size_t
  <2>5. Typed'
    <3>1. iov' \in [DOMAIN uvector -> size_t]
      BY <2>1, <2>4 DEF SumInv, Typed
    <3>2. nr_segs' \in 0 .. L
      BY <1>2, <1>4, <2>1
    <3> QED
      BY <1>3, <2>1, <3>1, <3>2 DEF SumInv, Typed
  <2>6. Untouched'
    BY <1>1, <1>3, <2>1 DEF Untouched
  <2>7. Sums(iov')[seg] = to
    <3>1. iov' \in Seq(Nat) /\ Len(iov') = L
      <4>1. iov' \in [DOMAIN uvector -> Nat]
        BY <1>2, <2>1, <2>2
      <4> QED
        BY <1>2, <4>1, SameLength
    <3>2. Sums(iov')[p] = Sums(iov)[p]
      <4>1. p <= L /\ p \in 0 .. L /\ \A k \in 1 .. p : k \in DOMAIN uvector \ {seg}
        BY <1>2, <1>4
      <4>2. \A k \in 1 .. p : iov'[k] = iov[k]
        BY <2>3, <4>1
      <4> HIDE DEF p
      <4> QED
        BY <1>2, <3>1, <4>1, <4>2, SumsSame
    <3>3. Sums(iov')[seg] = Sums(iov')[p] + iov'[seg]
      BY <1>2, <1>4, <3>1, SumsUnfold
    <3> QED
      BY <1>1, <2>2, <2>3, <3>2, <3>3
  <2>8. CutPrefix(nr_segs)'
    <3>1. /\ \A i \in 1 .. L : iov[i] <= uvector[i]
          /\ \A i, j \in 1 .. L : i < j /\ iov[j] > 0 => iov[i] = uvector[i]
      BY <1>1 DEF CutPrefix
    <3>2. ASSUME NEW i \in 1 .. seg PROVE iov'[i] <= uvector[i] /\ (iov'[i] > 0 => iov[i] > 0)
      <4>1. i \in 1 .. L /\ iov[i] \in Nat /\ uvector[i] \in Nat
        <5>1. i \in 1 .. L
          BY <1>2, <1>4
        <5> QED
          BY <1>2, <5>1
      <4>2. CASE i = seg
        BY <2>2, <2>3, <3>1, <4>1, <4>2
      <4>3. CASE i # seg
        BY <1>2, <2>3, <3>1, <4>1, <4>3
      <4> QED
        BY <4>2, <4>3
    <3>3. ASSUME NEW i \in 1 .. seg, NEW j \in 1 .. seg, i < j, iov'[j] > 0
          PROVE  iov'[i] = uvector[i]
      <4>1. i \in 1 .. L /\ j \in 1 .. L /\ i # seg
        BY <1>4, <3>3
      <4>2. iov[j] > 0
        BY <3>2, <3>3
      <4>3. iov[i] = uvector[i]
        BY <3>1, <3>3, <4>1, <4>2
      <4> QED
        BY <1>2, <2>3, <4>1, <4>3
    <3> QED
      BY <1>3, <2>1, <3>2, <3>3 DEF CutPrefix
  <2>9. Checked' /\ Limited'
    BY <1>1, <1>3, <2>1, <2>7, <2>8 DEF Checked, Limited
  <2> QED
    BY <2>1, <2>5, <2>6, <2>9 DEF SumInv, Looping, Finished
<1> QED
  BY <1>6, <1>7

\* A method that fills the first m segments of v in order with n bytes fills
\* n bytes, and a segment only when those before it are full.
LEMMA FillsInOrder ==
  ASSUME NEW v \in Seq(Nat), NEW m \in 0 .. Len(v), NEW n \in 0 .. Sums(v)[m],
         NEW f \in Seq(Nat), Len(f) = Len(v),
         \A i \in 1 .. Len(v) :
           f[i] = IF i > m \/ n <= Sums(v)[i - 1] THEN 0 ELSE Least(v[i], n - Sums(v)[i - 1])
  PROVE  /\ Sums(f)[Len(v)] = n
         /\ \A i, j \in 1 .. Len(v) : i < j /\ f[j] > 0 => j <= m /\ v[j] > 0 /\ f[i] = v[i]
<1>1. Len(v) \in Nat /\ m \in Nat /\ \A k \in 1 .. Len(v) : v[k] \in Nat
  OBVIOUS
<1>2. \A k \in 0 .. Len(v) : Sums(v)[k] \in Nat
  BY SumsNat
<1>3. n \in Nat /\ n <= Sums(v)[m]
  BY <1>1, <1>2
<1>4. ASSUME NEW i \in 1 .. m
      PROVE  /\ i \in 1 .. Len(v) /\ i - 1 \in 0 .. Len(v)
             /\ Sums(v)[i] = Sums(v)[i - 1] + v[i]
             /\ f[i] = IF n <= Sums(v)[i - 1] THEN 0
                       ELSE IF n <= Sums(v)[i] THEN n - Sums(v)[i - 1] ELSE v[i]
  <2>1. i \in 1 .. Len(v) /\ i - 1 \in 0 .. Len(v) /\ ~ (i > m)
    BY <1>1
  <2>2. Sums(v)[i] = Sums(v)[i - 1] + v[i]
    BY <1>1, <2>1, SumsUnfold
  <2>3. f[i] = IF n <= Sums(v)[i - 1] THEN 0 ELSE Least(v[i], n - Sums(v)[i - 1])
    BY <2>1
  <2> DEFINE a == Sums(v)[i - 1]
             b == v[i]
  <2>4. a \in Nat /\ b \in Nat /\ Sums(v)[i] = a + b
    BY <1>1, <1>2, <2>1, <2>2
  <2>5. Least(b, n - a) = IF n <= a + b /\ ~ (n <= a) THEN n - a ELSE Least(b, n - a)
    <3> HIDE DEF a, b
    <3> QED
      BY <1>3, <2>4 DEF Least
  <2>6. ~ (n <= a + b) => Least(b, n - a) = b
    <3> HIDE DEF a, b
    <3> QED
      BY <1>3, <2>4 DEF Least
  <2>7. f[i] = IF n <= a THEN 0 ELSE Least(b, n - a)
    BY <2>3
  <2>8. f[i] = IF n <= a THEN 0 ELSE IF n <= a + b THEN n - a ELSE b
    <3> HIDE DEF a, b
    <3> QED
      BY <2>5, <2>6, <2>7
  <2> QED
    BY <2>1, <2>2, <2>8
<1>5. Sums(f)[m] = n
  <2> DEFINE S == {k \in Nat : k <= m => Sums(f)[k] = Least(n, Sums(v)[k])}
  <2>1. 0 \in S
    BY <1>1, <1>3, SumsUnfold DEF Least
  <2>2. ASSUME NEW k \in Nat, k \in S PROVE k + 1 \in S
    <3> SUFFICES ASSUME k + 1 <= m PROVE Sums(f)[k + 1] = Least(n, Sums(v)[k + 1])
      OBVIOUS
    <3> DEFINE i == k + 1
    <3>1. i \in 1 .. m /\ i - 1 = k /\ Sums(f)[k] = Least(n, Sums(v)[k])
      BY <1>1, <2>2
    <3> HIDE DEF i
    <3>2. /\ i \in 1 .. Len(v) /\ k \in 0 .. Len(v) /\ Sums(v)[i] = Sums(v)[k] + v[i]
          /\ f[i] = IF n <= Sums(v)[k] THEN 0 ELSE IF n <= Sums(v)[i] THEN n - Sums(v)[k] ELSE v[i]
      BY <1>4, <3>1
    <3>3. Sums(f)[i] = Sums(f)[k] + f[i]
      BY <1>1, <3>1, <3>2, SumsUnfold
    <3>4. Sums(v)[k] \in Nat /\ v[i] \in Nat
      BY <1>1, <1>2, <3>2
    <3>5. Sums(f)[i] = Least(n, Sums(v)[i])
      BY <1>3, <3>1, <3>2, <3>3, <3>4, SMTT(30) DEF Least
    <3> QED
      BY <3>5 DEF i
  <2>3. Nat \subseteq S
    <3> HIDE DEF S
    <3> QED
      BY <2>1, <2>2, NatUp
  <2>4. m \in S
    BY <1>1, <2>3
  <2>5. m <= m
    BY <1>1
  <2>6. Sums(f)[m] = Least(n, Sums(v)[m])
    BY <2>4, <2>5
  <2> QED
    BY <1>3, <2>6 DEF Least
<1>6. Sums(f)[Len(v)] = n
  <2>1. \A k \in m + 1 .. Len(f) : k \in 1 .. Len(v) /\ k > m
    BY <1>1
  <2>2. \A k \in m + 1 .. Len(f) : f[k] = 0
    BY <2>1
  <2>3. m \in 0 .. Len(f)
    OBVIOUS
  <2> QED
    BY <1>5, <2>2, <2>3, SumsEnd
<1>7. ASSUME NEW i \in 1 .. Len(v), NEW j \in 1 .. Len(v), i < j, f[j] > 0
      PROVE  j <= m /\ v[j] > 0 /\ f[i] = v[i]
  <2>1. ~ (j > m)
    <3>1. j > m => f[j] = 0
      OBVIOUS
    <3> QED
      BY <1>7, <3>1
  <2>2. j \in 1 .. m /\ i \in 1 .. m /\ j <= m
    BY <1>1, <1>7, <2>1
  <2>3. ~ (n <= Sums(v)[j - 1]) /\ v[j] > 0
    <3>1. f[j] = IF n <= Sums(v)[j - 1] THEN 0
                 ELSE IF n <= Sums(v)[j] THEN n - Sums(v)[j - 1] ELSE v[j]
      BY <1>4, <2>2
    <3>2. Sums(v)[j] = Sums(v)[j - 1] + v[j] /\ Sums(v)[j - 1] \in Nat /\ v[j] \in Nat
      BY <1>1, <1>2, <1>4, <2>2
    <3> QED
      BY <1>3, <1>7, <3>1, <3>2, SMTT(30)
  <2>4. Sums(v)[i] <= Sums(v)[j - 1]
    <3>1. i \in 0 .. Len(v) /\ j - 1 \in i .. Len(v)
      BY <1>1, <1>7
    <3> QED
      BY <3>1, SumsGrow
  <2>5. /\ Sums(v)[i] \in Nat /\ Sums(v)[j - 1] \in Nat /\ Sums(v)[i - 1] \in Nat /\ v[i] \in Nat
        /\ Sums(v)[i] = Sums(v)[i - 1] + v[i]
    BY <1>1, <1>2, <1>4, <2>2, SMTT(30)
  <2>6. ~ (n <= Sums(v)[i]) /\ ~ (n <= Sums(v)[i - 1])
    <3> DEFINE a == Sums(v)[i]
               b == Sums(v)[j - 1]
               z == Sums(v)[i - 1]
    <3>1. n \in Nat /\ a \in Nat /\ b \in Nat /\ z \in Nat /\ v[i] \in Nat
      BY <1>3, <2>5
    <3>2. ~ (n <= b) /\ a <= b /\ a = z + v[i]
      BY <2>3, <2>4, <2>5
    <3> HIDE DEF a, b, z
    <3>3. ~ (n <= a) /\ ~ (n <= z)
      BY <3>1, <3>2, SMTT(30)
    <3> QED
      BY <3>3 DEF a, z
  <2>7. f[i] = v[i]
    BY <1>4, <2>2, <2>6
  <2> QED
    BY <2>2, <2>3, <2>7
<1> QED
  BY <1>6, <1>7

LEMMA AioSums == ASSUME VectorInv, SumInv, aio_method PROVE SumInv'
<1> DEFINE L == Len(uvector)
<1>1. /\ pc = "aio" /\ nr_segs \in 0 .. L /\ CutPrefix(nr_segs) /\ Sums(iov)[nr_segs] = to
      /\ Addressable(unsigned, start, to) /\ pos = start /\ to \in 0 .. MAX_RW_COUNT
      /\ unsigned \in BOOLEAN /\ start \in loff_t
  BY DEF aio_method, SumInv, Typed, Untouched, Checked, Limited, VectorInv, Given
<1>2. /\ DOMAIN uvector = 1 .. L /\ L \in Nat /\ Len(iov) = L /\ iov \in Seq(Nat)
      /\ DOMAIN filled = 1 .. L /\ uvector \in Seq(size_t)
      /\ \A k \in 0 .. L : Sums(iov)[k] \in Nat
      /\ \A i \in 1 .. L : iov[i] \in Nat
  BY Vectors DEF SumInv
<1>3. aio
  BY <1>1 DEF SumInv, Checked
<1>4. SumInv'
  <2>1. \A i : Before(i) = Sums(iov)[i - 1]
    BY DEF Before, Sums
  <2>2. (nr_segs + 1) - 1 = nr_segs /\ to \in Nat /\ to <= MAX_RW_COUNT /\ MAX_RW_COUNT \in Nat
    BY <1>1, <1>2, RwAssumption
  <2>3. Before(nr_segs + 1) = to
    BY <1>1, <2>1, <2>2
  <2>4. PICK n \in 0 .. to :
          /\ ret' \in {n, EIO} /\ pos' = Signed(pos + n)
          /\ filled' = [i \in DOMAIN filled |->
                          IF i > nr_segs \/ n <= Before(i) THEN 0 ELSE Least(iov[i], n - Before(i))]
          /\ pc' = "done"
          /\ UNCHANGED <<user, iov, seg, nr_segs, len, to, asked>>
    BY <2>3 DEF aio_method
  <2>5. n \in Nat /\ n <= to
    BY <2>2
  <2>6. ASSUME NEW i \in 1 .. L
        PROVE  filled'[i] = IF i > nr_segs \/ n <= Sums(iov)[i - 1] THEN 0
                            ELSE Least(iov[i], n - Sums(iov)[i - 1])
    BY <1>2, <2>1, <2>4
  <2>7. ASSUME NEW i \in 1 .. L PROVE filled'[i] \in 0 .. MAX_RW_COUNT
    <3> DEFINE a == Sums(iov)[i - 1]
               b == iov[i]
    <3>1. i - 1 \in 0 .. L
      BY <1>2
    <3>2. a \in Nat /\ b \in Nat
      BY <1>2, <3>1
    <3>3. filled'[i] = IF i > nr_segs \/ n <= a THEN 0 ELSE Least(b, n - a)
      BY <2>6
    <3> HIDE DEF a, b
    <3> QED
      BY <2>2, <2>5, <3>2, <3>3 DEF Least
  <2>8. DOMAIN filled' = 1 .. L /\ filled' \in [1 .. L -> 0 .. MAX_RW_COUNT]
    <3>1. filled' = [i \in 1 .. L |-> filled'[i]]
      BY <1>2, <2>4
    <3> QED
      BY <2>7, <3>1
  <2>9. filled' \in Seq(Nat) /\ Len(filled') = L
    <3>1. filled' \in [DOMAIN uvector -> Nat]
      BY <1>2, <2>2, <2>8
    <3> QED
      BY <1>2, <3>1, SameLength
  <2>10. /\ Sums(filled')[L] = n
         /\ \A i, j \in 1 .. L : i < j /\ filled'[j] > 0
                             => j <= nr_segs /\ iov[j] > 0 /\ filled'[i] = iov[i]
    <3>1. nr_segs \in 0 .. Len(iov) /\ n \in 0 .. Sums(iov)[nr_segs]
      BY <1>1, <1>2
    <3> DEFINE f == filled'
    <3>2. f \in Seq(Nat) /\ Len(f) = Len(iov)
      BY <1>2, <2>9
    <3>3. \A i \in 1 .. Len(iov) : f[i] = IF i > nr_segs \/ n <= Sums(iov)[i - 1] THEN 0
                                          ELSE Least(iov[i], n - Sums(iov)[i - 1])
      BY <1>2, <2>6
    <3> HIDE DEF f
    <3>4. /\ Sums(f)[Len(iov)] = n
          /\ \A i, j \in 1 .. Len(iov) : i < j /\ f[j] > 0 => j <= nr_segs /\ iov[j] > 0 /\ f[i] = iov[i]
      BY <1>2, <3>1, <3>2, <3>3, FillsInOrder
    <3> QED
      BY <1>2, <3>4 DEF f
  <2>11. FilledInOrder'
    <3> SUFFICES ASSUME NEW i \in 1 .. L, NEW j \in 1 .. L, i < j, filled'[j] > 0
                 PROVE  filled'[i] = uvector'[i]
      BY <2>8 DEF FilledInOrder
    <3>1. j <= nr_segs /\ iov[j] > 0 /\ filled'[i] = iov[i]
      BY <2>10
    <3>2. i \in 1 .. nr_segs /\ j \in 1 .. nr_segs
      BY <1>1, <1>2, <3>1
    <3>3. iov[i] = uvector[i]
      BY <1>1, <3>1, <3>2 DEF CutPrefix
    <3> QED
      BY <2>4, <3>1, <3>3 DEF user
  <2>12. pos' \in loff_t /\ Moved(n)'
    <3>1. Unsigned(start) \in Int /\ start \in Int
      BY <1>1, RwAssumption DEF loff_t, Unsigned
    <3>2. IF unsigned THEN Unsigned(start) = Unsigned(start) + 0 ELSE start = start + 0
      BY <3>1
    <3>3. 0 \in Nat /\ 0 + n <= to /\ 0 + n = n
      BY <2>2, <2>5
    <3>4. /\ Signed(start + n) \in loff_t
          /\ IF unsigned THEN Unsigned(Signed(start + n)) = Unsigned(start) + (0 + n)
                         ELSE Signed(start + n) = start + (0 + n)
      BY <1>1, <2>5, <3>2, <3>3, MovedOn
    <3> QED
      BY <1>1, <2>4, <3>3, <3>4 DEF Moved, user
  <2>13. Typed'
    <3>1. ret' \in Int
      BY <2>4, <2>5 DEF EIO
    <3> QED
      BY <1>2, <2>4, <2>8, <2>12, <3>1 DEF SumInv, Typed, user
  <2>14. Finished'
    <3>1. Len(uvector') = L /\ aio'
      BY <1>3, <2>4 DEF user
    <3>2. Sums(filled')[Len(uvector')] = n /\ Moved(Sums(filled)[Len(uvector)])'
      BY <2>10, <2>12, <3>1 DEF Moved
    <3> QED
      BY <2>4, <2>5, <2>11, <3>1, <3>2 DEF Finished
  <2> QED
    BY <2>4, <2>13, <2>14 DEF SumInv, Untouched, Checked, Limited, Looping
<1> QED
  BY <1>4

LEMMA SumStep == ASSUME VectorInv, SumInv, [Next]_vars PROVE SumInv'
<1>1. VectorInv'
  BY VectorStep
<1>2. CASE UNCHANGED vars
  BY <1>2 DEF vars, SumInv, Typed, Untouched, Checked, Limited, Looping, Finished,
              CutPrefix, Moved, FilledInOrder
<1> QED
  BY <1>1, <1>2, CopySums, CheckSums, EndCheckSums, VerifySums, LoopSums, EndLoopSums,
     CallSums, ShortenSums, AioSums DEF Next

LEMMA SumAlways == Spec => [](VectorInv /\ SumInv)
<1>1. Init => VectorInv /\ SumInv
  BY VectorInit, SumInit
<1>2. (VectorInv /\ SumInv) /\ [Next]_vars => (VectorInv /\ SumInv)'
  BY VectorStep, SumStep
<1> QED
  BY <1>1, <1>2, PTL DEF Spec

\* Lengths, counts and positions keep their ranges for every width of the
\* words: the sums of rw_copy_check_uvector and the loops never overflow.
THEOREM VectorTyped == Spec => []TypeOK
<1>1. VectorInv /\ SumInv => TypeOK
  <2> SUFFICES ASSUME VectorInv, SumInv PROVE TypeOK
    OBVIOUS
  <2>1. iov \in Seq(size_t) /\ DOMAIN iov = DOMAIN uvector
    <3>1. iov \in [DOMAIN uvector -> size_t] /\ uvector \in Seq(size_t)
      BY DEF SumInv, Typed, VectorInv, Given
    <3>2. iov \in [1 .. Len(uvector) -> size_t] /\ Len(uvector) \in Nat
      BY <3>1
    <3> QED
      BY <3>1, <3>2
  <2> QED
    BY <2>1 DEF SumInv, Typed, VectorInv, Given, TypeOK
<1> QED
  BY <1>1, SumAlways, PTL

\* For every vector and every behaviour of the file's methods, the bytes
\* moved are a prefix of the caller's vector and as many as the call
\* reports, in the segment loop as well as through the aio method; and only
\* an error of the aio method can leave bytes moved.
THEOREM VectorTransfersPrefix == Spec => []TransfersPrefix
<1>1. VectorInv /\ SumInv => TransfersPrefix
  <2> SUFFICES ASSUME VectorInv, SumInv PROVE TransfersPrefix
    OBVIOUS
  <2>1. TransfersPrefix <=> /\ FilledInOrder
                            /\ pc = "done" => \/ ret >= 0 /\ Sums(filled)[Len(filled)] = ret
                                              \/ ret < 0 /\ Sums(filled)[Len(filled)] = 0
                                              \/ ret = EIO /\ aio
    BY DEF TransfersPrefix, FilledInOrder, Transferred, Sums
  <2>2. Len(filled) = Len(uvector) /\ DOMAIN filled = DOMAIN uvector
    BY Vectors DEF SumInv
  <2>3. FilledInOrder
    <3>1. CASE pc = "loop"
      BY <3>1, LoopFilled
    <3>2. CASE pc = "done"
      BY <3>2 DEF SumInv, Finished
    <3>3. CASE pc \notin {"loop", "done"}
      BY <2>2, <3>3 DEF SumInv, Typed, Untouched, FilledInOrder
    <3> QED
      BY <3>1, <3>2, <3>3
  <2> QED
    BY <2>1, <2>2, <2>3 DEF SumInv, Finished
<1> QED
  BY <1>1, SumAlways, PTL

\* For every width of the words, one verification of the whole range is
\* enough: whichever segments are moved, the position is the start plus what
\* was moved and never wraps, for files with unsigned offsets too and after
\* an error of the aio method.
THEOREM VectorNeverWraps == Spec => []NeverWraps
<1>1. VectorInv /\ SumInv => NeverWraps
  <2> SUFFICES ASSUME VectorInv, SumInv, pc \in {"loop", "done"} PROVE Moved(Transferred)
    BY DEF NeverWraps, Moved
  <2>1. Transferred = Sums(filled)[Len(uvector)]
    <3>1. Len(filled) = Len(uvector)
      BY Vectors DEF SumInv
    <3> QED
      BY <3>1 DEF Transferred, Sums
  <2>2. CASE pc = "loop"
    <3>1. Sums(filled)[Len(uvector)] = ret /\ Moved(ret)
      BY <2>2, LoopFilled DEF SumInv, Looping
    <3> QED
      BY <2>1, <3>1
  <2>3. CASE pc = "done"
    BY <2>1, <2>3 DEF SumInv, Finished
  <2> QED
    BY <2>2, <2>3
<1> QED
  BY <1>1, SumAlways, PTL

\* For every vector and every limit below its length, iov_shorten leaves
\* exactly that many bytes in the segments it reports.
THEOREM VectorShortens == Spec => []ShortensExactly
<1>1. VectorInv /\ SumInv => ShortensExactly
  <2> SUFFICES ASSUME VectorInv, SumInv PROVE ShortensExactly
    OBVIOUS
  <2>1. \A i : Before(i) = Sums(iov)[i - 1]
    BY DEF Before, Sums
  <2>2. nr_segs \in Nat /\ (nr_segs + 1) - 1 = nr_segs
    BY Vectors DEF SumInv, Typed
  <2>3. pc = "shorten" => len = Sums(iov)[seg - 1] /\ len <= to
    BY RwAssumption DEF SumInv, Limited, Typed, VectorInv, Given
  <2>4. pc = "aio" => Sums(iov)[nr_segs] = to
    BY DEF SumInv, Limited
  <2> QED
    BY <2>1, <2>2, <2>3, <2>4 DEF ShortensExactly
<1> QED
  BY <1>1, SumAlways, PTL

=============================================================================
