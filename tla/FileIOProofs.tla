---------------------------- MODULE FileIOProofs ----------------------------
(***************************************************************************)
(* The guarantees of FileIO for all threads, files and calls, and words of *)
(* every width.                                                            *)
(*                                                                         *)
(* Globals and LocalsInv say what is in every variable and, for each place *)
(* of a call, what its local variables and its kiocb hold there: that      *)
(* alone makes what a call reports what it moved.  LocksHeld says which    *)
(* lock a place implies; with it AppendInv (an append writes at i_size     *)
(* until its bytes are in) and SeekInv (a relative seek's result stays     *)
(* that of the position it read) are inductive.  PositionInv and GapInv    *)
(* extend what is to hold of f_pos to every position that a call holds and *)
(* may yet store there, which is what the lock-free load and store of      *)
(* f_pos needs.                                                            *)
(***************************************************************************)
EXTENDS FileIO, RwVerifyProofs

RetryLabels == {"retry", "retry_test", "retry_sleep"}
WaitLabels  == {"wait", "wait_test", "wait_sleep"}
RwLabels    == {"call", "checks", "copy"} \cup RetryLabels \cup WaitLabels
SeekLabels  == {"lock", "target", "execute", "seek_store"}
OutLabels   == {"splice_from", "splice_write", "add", "add_store"}
SendLabels  == {"verify_out", "limit", "direct", "splice", "store_in", "check_max"} \cup OutLabels

Locals ==
  [pc : {"idle", "done"} \cup RwLabels \cup SeekLabels \cup SendLabels,
   call : RwCalls \cup SeekCalls \cup SendCalls \cup {[op |-> "none"]},
   pos : loff_t, segs : Seq(Nat), ret : Int, got : Nat, n : Int, from : Int, val : Int,
   old : Int, len : Int, sd : loff_t, tries : Nat]

Kiocbs == [users : {0, 1}, kicked : BOOLEAN, data : Int, owed : {"nothing", "kick", "complete"}]

\* Where a call can be, and what it has there: l are its local variables, k is
\* its kiocb and size the sizes of the files.
CallPlace(s, l, k, size) ==
  /\ l.pc \in RwLabels => l.call \in RwCalls /\ l.segs # <<>>
  /\ l.pc \in SeekLabels => l.call \in SeekCalls
  /\ l.pc \in {"execute", "seek_store"} => l.val \in loff_t
  /\ l.pc \in SendLabels => l.call \in SendCalls /\ s.kind[l.call.out] = "regular"
  /\ l.pc = "done" => l.call \in RwCalls \cup SendCalls
  /\ l.pc \in {"checks", "copy"} => s.kind[l.call.f] = "regular"
  /\ l.pc \in RetryLabels \cup WaitLabels => s.kind[l.call.f] = "async"
  /\ l.pc = "copy" => l.n \in Nat /\ l.n <= Head(l.segs) /\ l.from + l.n <= s.maxbytes[l.call.f]
  /\ l.pc \in {"splice"} \cup OutLabels => s.kind[l.call.f] = "regular"
  /\ l.pc \in OutLabels => l.n \in Nat /\ l.sd + l.n <= size[l.call.f]
  /\ l.pc \in OutLabels \ {"splice_from"} => l.call.out \notin s.append
  /\ l.pc \in {"add", "add_store"} => l.val \in 1 .. l.n
  /\ l.pc \notin WaitLabels => k.owed # "complete"
  /\ l.pc \notin WaitLabels \cup {"done"} => k.users = 1

\* What a call has to report is what it has moved.
Accounts(s, l, k) ==
  /\ l.pc \in RwLabels \ WaitLabels => l.ret = l.got
  /\ l.pc \in RwLabels /\ s.kind[l.call.f] # "plain" => l.ret = 0 /\ Len(l.segs) = 1
  /\ l.pc \in WaitLabels => IF k.users = 0 THEN k.owed = "nothing" /\ l.got = Bytes(k.data)
                                           ELSE k.owed = "complete" /\ l.got = 0
  /\ l.pc \in {"verify_out", "limit", "direct"} => l.got = 0
  /\ l.pc \in {"store_in", "check_max", "done"} /\ l.ret >= 0 => l.ret = l.got

\* What is left of a vector fits behind the position and under the limit.
Room(s, l, k) ==
  /\ l.pc \in RwLabels /\ k.users = 1 =>
       /\ Addressable(l.call.f \in s.unsigned, l.pos, Total(l.segs))
       /\ l.got + Total(l.segs) <= MAX_RW_COUNT
  /\ l.pc = "copy" => l.from >= 0
  /\ l.call.op = "rw" => l.got <= MAX_RW_COUNT

LocalOK(s, l, k, size) ==
  l \in Locals /\ k \in Kiocbs /\ CallPlace(s, l, k, size) /\ Accounts(s, l, k) /\ Room(s, l, k)

Globals ==
  /\ sys \in Systems
  /\ f_pos \in [Files -> loff_t]
  /\ i_size \in [Files -> 0 .. Half - 1]
  /\ holder \in [{"f_lock", "i_mutex"} \X Files -> Threads \cup {NoThread}]
  /\ task \in [Threads -> {"running", "uninterruptible"}]
  /\ wakes \in [Threads -> Nat]
  /\ left \in [Threads -> Nat] /\ \A t \in Threads : left[t] <= sys.budget[t]
  /\ touched \in [Files -> SUBSET Int] /\ bases \in [Files -> SUBSET Int]
  /\ moved \in [Files -> Int] /\ grown \in [Files -> Int]
  /\ only_cur \subseteq Files

LocalsInv ==
  /\ DOMAIN th = Threads /\ DOMAIN kiocb = Threads
  /\ \A t \in Threads : LocalOK(sys, th[t], kiocb[t], i_size)

-----------------------------------------------------------------------------
LockSet(l) ==
  IF l.pc \in {"checks", "copy"} THEN {<<"i_mutex", l.call.f>>}
  ELSE IF l.pc \in {"target", "execute", "seek_store"} THEN {SeekLock(l.call)} \ {<<>>}
  ELSE {}

LocksHeld == \A t \in Threads : \A k \in LockSet(th[t]) : holder[k] = t

AppendInv ==
  /\ AppendsDisjoint
  /\ \A t \in Threads : At(t, "copy") /\ File(t) \in sys.append => th[t].from = i_size[File(t)]

Uses(c) == IF c.op = "none" \/ (c.op = "seek" /\ c.origin = SEEK_CUR) THEN {}
           ELSE IF c.op = "send" THEN {c.f, c.out} ELSE {c.f}

SeekInv ==
  /\ SeeksAddUp
  /\ \A t \in Threads :
       /\ ~ At(t, "idle") => Uses(th[t].call) \cap only_cur = {}
       /\ th[t].pc \in {"execute", "seek_store"} /\ File(t) \in only_cur =>
            /\ th[t].call.off # 0
            /\ th[t].val = Signed(f_pos[File(t)] + th[t].call.off)

NotOut(s, f) == f \notin s.unsigned /\ \A t \in Threads : \A c \in s.calls[t] : c.op = "send" => c.out # f
Valid(s, f, p) == p >= 0 /\ (s.kind[f] = "regular" => p <= s.maxbytes[f])
Unpositioned(l) == l.pc \in RwLabels \cup {"done"} /\ l.call.op = "rw" /\ ~ l.call.positioned

\* The positions a call may store.
HeldValid(s, l) ==
  /\ Unpositioned(l) /\ NotOut(s, l.call.f) => Valid(s, l.call.f, l.pos)
  /\ l.pc \in {"splice", "store_in"} \cup OutLabels /\ ~ l.call.positioned /\ NotOut(s, l.call.f) =>
       Valid(s, l.call.f, l.sd)
  /\ l.pc = "seek_store" /\ NotOut(s, l.call.f) => Valid(s, l.call.f, l.val)

PositionInv ==
  /\ \A f \in Files : NotOut(sys, f) => i_size[f] <= sys.maxbytes[f] /\ Valid(sys, f, f_pos[f])
  /\ \A t \in Threads :
       /\ th[t].pc # "idle" => th[t].call \in sys.calls[t]
       /\ HeldValid(sys, th[t])

\* Every byte from a base B up to position p of file f is among T.
OffsetIn(s, f, p) == IF f \in s.unsigned THEN Unsigned(p) ELSE p
Reached(s, B, T, f, p) ==
  \E b \in B[f] : b <= OffsetIn(s, f, p) /\ (b .. OffsetIn(s, f, p) - 1) \subseteq T[f]

HeldReached(s, B, T, l) ==
  /\ Unpositioned(l) => Reached(s, B, T, l.call.f, l.pos)
  /\ l.pc = "copy" /\ l.call.f \notin s.append => l.from = l.pos
  /\ l.pc \in {"splice", "store_in"} \cup OutLabels /\ ~ l.call.positioned => Reached(s, B, T, l.call.f, l.sd)
  /\ l.pc \in {"add", "add_store"} =>
       /\ Reached(s, B, T, l.call.out, l.from)
       /\ (l.from .. l.from + l.val - 1) \subseteq T[l.call.out] \/ Signed(l.from + l.val) # l.from + l.val
       /\ (l.sd .. l.sd + l.val - 1) \subseteq T[l.call.f]

GapInv ==
  /\ \A f \in Files : Reached(sys, bases, touched, f, f_pos[f])
  /\ \A t \in Threads : HeldReached(sys, bases, touched, th[t])

-----------------------------------------------------------------------------
\* The length of a vector is its first segment and the rest.
LEMMA TotalIsSum ==
  ASSUME NEW segs
  PROVE  Total(segs) = Sums(segs)[Len(segs)]
  BY DEF Total, Sums

LEMMA TotalNat ==
  ASSUME NEW segs \in Seq(Nat)
  PROVE  Total(segs) \in Nat
<1>1. Len(segs) \in 0 .. Len(segs)
  OBVIOUS
<1> QED
  BY <1>1, TotalIsSum, SumsNat

LEMMA TotalRest ==
  ASSUME NEW segs \in Seq(Nat), segs # <<>>
  PROVE  /\ Head(segs) \in Nat /\ Tail(segs) \in Seq(Nat)
         /\ Total(Tail(segs)) \in Nat /\ Total(segs) = Head(segs) + Total(Tail(segs))
<1> DEFINE rest == Tail(segs)
           S == {k \in Nat : k <= Len(rest) => Sums(segs)[k + 1] = segs[1] + Sums(rest)[k]}
<1>1. /\ Len(segs) \in Nat \ {0} /\ rest \in Seq(Nat) /\ Len(rest) = Len(segs) - 1
      /\ Len(rest) \in Nat /\ Head(segs) = segs[1] /\ segs[1] \in Nat
      /\ \A i \in 1 .. Len(rest) : rest[i] = segs[i + 1] /\ rest[i] \in Nat
  OBVIOUS
<1> HIDE DEF rest
<1>2. Sums(segs)[0] = 0 /\ \A k \in 1 .. Len(segs) : Sums(segs)[k] = Sums(segs)[k - 1] + segs[k]
  BY <1>1, SumsUnfold
<1>3. Sums(rest)[0] = 0 /\ \A k \in 1 .. Len(rest) : Sums(rest)[k] = Sums(rest)[k - 1] + rest[k]
  BY <1>1, SumsUnfold
<1>4. \A k \in 0 .. Len(rest) : Sums(rest)[k] \in Nat
  BY <1>1, SumsNat
<1>5. 0 \in S
  <2>1. 1 \in 1 .. Len(segs) /\ 0 + 1 = 1 /\ 1 - 1 = 0
    BY <1>1
  <2>2. Sums(segs)[1] = Sums(segs)[0] + segs[1]
    BY <1>2, <2>1
  <2> QED
    BY <1>1, <1>2, <1>3, <2>1, <2>2
<1>6. ASSUME NEW k \in Nat, k \in S PROVE k + 1 \in S
  <2> SUFFICES ASSUME k + 1 <= Len(rest)
               PROVE  Sums(segs)[(k + 1) + 1] = segs[1] + Sums(rest)[k + 1]
    OBVIOUS
  <2> DEFINE j == k + 1
  <2>1. j \in 1 .. Len(rest) /\ j - 1 = k /\ j + 1 \in 1 .. Len(segs) /\ (j + 1) - 1 = j /\ k \in 0 .. Len(rest)
    BY <1>1
  <2>2. Sums(segs)[j] = segs[1] + Sums(rest)[k]
    BY <1>1, <1>6
  <2> HIDE DEF j
  <2>3. Sums(segs)[j + 1] = Sums(segs)[j] + segs[j + 1]
    BY <1>2, <2>1
  <2>4. Sums(rest)[j] = Sums(rest)[k] + rest[j]
    BY <1>3, <2>1
  <2>5. rest[j] = segs[j + 1] /\ rest[j] \in Nat /\ Sums(rest)[k] \in Nat
    BY <1>1, <1>4, <2>1
  <2>6. Sums(segs)[j + 1] = segs[1] + Sums(rest)[j]
    BY <1>1, <2>2, <2>3, <2>4, <2>5, SMTT(30)
  <2> QED
    BY <2>6 DEF j
<1>7. Nat \subseteq S
  <2> HIDE DEF S
  <2> QED
    BY <1>5, <1>6, NatUp
<1>8. Sums(segs)[Len(rest) + 1] = segs[1] + Sums(rest)[Len(rest)]
  BY <1>1, <1>7
<1>9. Len(rest) + 1 = Len(segs)
  BY <1>1
<1>10. Total(segs) = segs[1] + Total(rest)
  BY <1>8, <1>9, TotalIsSum
<1> QED
  BY <1>1, <1>10, TotalNat DEF rest

LEMMA TotalOne ==
  ASSUME NEW segs \in Seq(Nat), Len(segs) = 1
  PROVE  Total(segs) = Head(segs) /\ Head(segs) = segs[1] /\ Head(segs) \in Nat
<1>1. segs # <<>> /\ Len(Tail(segs)) = 0 /\ Tail(segs) \in Seq(Nat) /\ Head(segs) = segs[1] /\ segs[1] \in Nat
  OBVIOUS
<1>2. Total(Tail(segs)) = 0
  <2>1. Len(Tail(segs)) \in Nat
    BY <1>1
  <2>2. Sums(Tail(segs))[0] = 0
    BY <2>1, SumsUnfold
  <2> QED
    BY <1>1, <2>2, TotalIsSum
<1>3. Total(segs) = Head(segs) + Total(Tail(segs))
  BY <1>1, TotalRest
<1> QED
  BY <1>1, <1>2, <1>3

LEMMA LongVector ==
  ASSUME NEW segs \in Seq(Nat), Len(segs) > 1
  PROVE  Len(segs) # 1 /\ segs # <<>> /\ Tail(segs) # <<>>
<1>1. Len(segs) \in Nat /\ segs # <<>> /\ Len(<<>>) = 0
  OBVIOUS
<1>2. Len(Tail(segs)) = Len(segs) - 1
  BY <1>1
<1> DEFINE a == Len(segs)
           b == Len(Tail(segs))
<1>3. a \in Nat /\ a > 1 /\ b = a - 1
  BY <1>1, <1>2
<1> HIDE DEF a, b
<1>4. a # 1 /\ b # 0
  BY <1>3
<1>5. Len(segs) # 1 /\ Len(Tail(segs)) # Len(<<>>)
  BY <1>1, <1>4 DEF a, b
<1> QED
  BY <1>1, <1>5

-----------------------------------------------------------------------------
LEMMA Constants ==
  ASSUME NEW s \in Systems
  PROVE  SystemOK(s) /\ NoThread \notin Threads /\ MaxRetries \in Nat
  BY FileIOAssumption

LEMMA Errors ==
  /\ EIO \in Int /\ ENOMEM \in Int /\ EACCES \in Int /\ EFAULT \in Int /\ EINVAL \in Int
  /\ EFBIG \in Int /\ EOVERFLOW \in Int
  /\ EIO < 0 /\ ENOMEM < 0 /\ EACCES < 0 /\ EFAULT < 0 /\ EINVAL < 0 /\ EFBIG < 0 /\ EOVERFLOW < 0
  BY DEF EIO, ENOMEM, EACCES, EFAULT, EINVAL, EFBIG, EOVERFLOW

LEMMA Words ==
  /\ Half \in Nat \ {0} /\ MAX_RW_COUNT \in Nat /\ MAX_RW_COUNT < Half /\ MAX_RW_COUNT > 0
  /\ 0 \in loff_t
  /\ \A x \in loff_t : x \in Int /\ -Half <= x /\ x < Half
  /\ \A x \in Int : -Half <= x /\ x < Half => x \in loff_t
  BY RwAssumption DEF loff_t

\* A word is its own value.
LEMMA SignedSame ==
  ASSUME NEW x \in loff_t
  PROVE  Signed(x) = x
<1>1. x \in Int /\ -Half <= x /\ x < Half /\ x < 2 * Half
  BY Words
<1> QED
  BY <1>1, SignedValue

\* The locals of a call whose method returned.
LEMMA ReturnedFields ==
  ASSUME NEW l \in Locals, NEW n \in Int, NEW from \in Int, NEW m \in Nat, l.segs # <<>>
  PROVE  LET r    == Returned(l, n, from, m)
             more == n = Head(l.segs) /\ Len(l.segs) > 1
         IN  /\ r \in Locals
             /\ r.pc = IF more THEN "call" ELSE "done"
             /\ r.segs = IF more THEN Tail(l.segs) ELSE l.segs
             /\ r.ret = IF n >= 0 THEN l.ret + n ELSE IF l.ret = 0 THEN n ELSE l.ret
             /\ r.pos = IF m > 0 THEN Signed(from + m) ELSE l.pos
             /\ r.got = l.got + m
             /\ r.call = l.call
<1> DEFINE r == Returned(l, n, from, m)
           more == n = Head(l.segs) /\ Len(l.segs) > 1
<1>1. Signed(from + m) \in loff_t
  BY SignedWord
<1>2. l.segs \in Seq(Nat) /\ Tail(l.segs) \in Seq(Nat)
  BY TotalRest DEF Locals
<1>3. l.pos \in loff_t /\ l.ret \in Int /\ l.got \in Nat
  BY DEF Locals
<1> DEFINE pc2 == IF more THEN "call" ELSE "done"
           segs2 == IF more THEN Tail(l.segs) ELSE l.segs
           ret2 == IF n >= 0 THEN l.ret + n ELSE IF l.ret = 0 THEN n ELSE l.ret
           pos2 == IF m > 0 THEN Signed(from + m) ELSE l.pos
           got2 == l.got + m
<1>4. r = [l EXCEPT !.pc = pc2, !.segs = segs2, !.ret = ret2, !.pos = pos2, !.got = got2]
  BY DEF Returned
<1>5. /\ pc2 \in {"call", "done"} /\ segs2 \in Seq(Nat) /\ ret2 \in Int /\ pos2 \in loff_t /\ got2 \in Nat
  BY <1>1, <1>2, <1>3
<1> HIDE DEF r, pc2, segs2, ret2, pos2, got2
<1>6. /\ r \in Locals /\ r.pc = pc2 /\ r.segs = segs2 /\ r.ret = ret2 /\ r.pos = pos2 /\ r.got = got2
      /\ r.call = l.call
  BY <1>4, <1>5 DEF Locals, RwLabels
<1> QED
  BY <1>6 DEF r, pc2, segs2, ret2, pos2, got2

\* A position that moves within an addressable range does not wrap.
LEMMA Onward ==
  ASSUME NEW u \in BOOLEAN, NEW p \in loff_t, NEW n \in Nat, NEW r \in Nat, n + r <= MAX_RW_COUNT,
         Addressable(u, p, n + r)
  PROVE  /\ Signed(p + n) \in loff_t
         /\ IF u THEN Unsigned(Signed(p + n)) = Unsigned(p) + n ELSE Signed(p + n) = p + n
         /\ Addressable(u, Signed(p + n), r)
<1> DEFINE total == n + r
           w == Signed(p + n)
<1>1. total \in 0 .. MAX_RW_COUNT /\ total \in Nat /\ 0 + n <= total
  BY Words
<1>2. p \in Int /\ Unsigned(p) \in Int
  BY Words DEF Unsigned
<1>3. IF u THEN Unsigned(p) = Unsigned(p) + 0 ELSE p = p + 0
  BY <1>2
<1>4. w \in loff_t /\ IF u THEN Unsigned(w) = Unsigned(p) + (0 + n) ELSE w = p + (0 + n)
  <2> HIDE DEF total
  <2>1. Addressable(u, p, total)
    BY DEF total
  <2> QED
    BY <1>1, <1>3, <2>1, MovedOn
<1>5. IF u THEN Unsigned(w) = Unsigned(p) + n ELSE w = p + n
  BY <1>4
<1> HIDE DEF w
<1>6. w \in Int /\ Half \in Int
  BY <1>4, Words
<1>7. Addressable(u, w, r)
  <2>1. CASE u
    BY <1>2, <1>5, <1>6, <2>1 DEF Addressable
  <2>2. CASE ~ u
    BY <1>2, <1>5, <1>6, <2>2 DEF Addressable
  <2> QED
    BY <2>1, <2>2
<1> QED
  BY <1>4, <1>5, <1>7 DEF w

\* The call is in order after a method that returned n and moved m bytes.
LEMMA ReturnedOK ==
  ASSUME NEW s \in Systems, NEW l, NEW k, NEW size, LocalOK(s, l, k, size), l.pc \in RwLabels,
         NEW k2 \in Kiocbs, k2.owed # "complete",
         NEW n \in Int, NEW from \in Int, NEW m \in Nat, l.got + m <= MAX_RW_COUNT,
         n >= 0 => l.ret + n = l.got + m,
         n < 0 /\ l.ret # 0 => m = 0 /\ l.ret = l.got,
         n = Head(l.segs) /\ Len(l.segs) > 1 => m = n /\ from = l.pos /\ k.users = 1 /\ k2.users = 1,
         NEW size2
  PROVE  LocalOK(s, Returned(l, n, from, m), k2, size2)
<1> DEFINE r == Returned(l, n, from, m)
           more == n = Head(l.segs) /\ Len(l.segs) > 1
<1>1. /\ l \in Locals /\ k \in Kiocbs /\ CallPlace(s, l, k, size) /\ Accounts(s, l, k) /\ Room(s, l, k)
  BY DEF LocalOK
<1>2. /\ l.pos \in loff_t /\ l.segs \in Seq(Nat) /\ l.ret \in Int /\ l.got \in Nat /\ l.segs # <<>>
      /\ l.call \in RwCalls
  BY <1>1 DEF Locals, CallPlace
<1>3. /\ r \in Locals
      /\ r.pc = IF more THEN "call" ELSE "done"
      /\ r.segs = IF more THEN Tail(l.segs) ELSE l.segs
      /\ r.ret = IF n >= 0 THEN l.ret + n ELSE IF l.ret = 0 THEN n ELSE l.ret
      /\ r.pos = IF m > 0 THEN Signed(from + m) ELSE l.pos
      /\ r.got = l.got + m
      /\ r.call = l.call
  BY <1>1, <1>2, ReturnedFields
<1>4. CASE ~ more
  <2> HIDE DEF r, more
  <2>1. r.pc = "done"
    BY <1>3, <1>4
  <2>2. CallPlace(s, r, k2, size2)
    BY <1>2, <1>3, <2>1 DEF CallPlace, RwLabels, SeekLabels, SendLabels, OutLabels, WaitLabels, RetryLabels
  <2>3. Accounts(s, r, k2)
    <3>1. r.ret >= 0 => r.ret = r.got
      BY <1>2, <1>3
    <3> QED
      BY <2>1, <3>1 DEF Accounts, RwLabels, WaitLabels, RetryLabels
  <2>4. Room(s, r, k2)
    BY <1>3, <2>1 DEF Room, RwLabels, WaitLabels, RetryLabels
  <2> QED
    BY <1>3, <2>2, <2>3, <2>4 DEF LocalOK, r
<1>5. CASE more
  <2>1. /\ n = Head(l.segs) /\ Len(l.segs) > 1 /\ m = n /\ from = l.pos /\ k.users = 1 /\ k2.users = 1
        /\ r.pc = "call" /\ r.segs = Tail(l.segs)
    BY <1>3, <1>5
  <2>3. Tail(l.segs) # <<>> /\ Len(l.segs) # 1
    BY <1>2, <2>1, LongVector
  <2>2. s.kind[l.call.f] = "plain"
    BY <1>1, <2>3 DEF Accounts
  <2> HIDE DEF r, more
  <2>4. CallPlace(s, r, k2, size2)
    BY <1>2, <1>3, <2>1, <2>2, <2>3
    DEF CallPlace, RwLabels, SeekLabels, SendLabels, OutLabels, WaitLabels, RetryLabels
  <2>5. Accounts(s, r, k2)
    <3>1. r.ret = r.got
      BY <1>2, <1>3, <2>1
    <3> QED
      BY <1>3, <2>1, <2>2, <3>1 DEF Accounts, RwLabels, WaitLabels, RetryLabels
  <2>6. Room(s, r, k2)
    <3> DEFINE rest == Total(Tail(l.segs))
               u == l.call.f \in s.unsigned
    <3>1. rest \in Nat /\ n \in Nat /\ Total(l.segs) = n + rest
      BY <1>2, <2>1, TotalRest
    <3>2. Addressable(u, l.pos, n + rest) /\ l.got + (n + rest) <= MAX_RW_COUNT
      BY <1>1, <2>1, <3>1 DEF Room
    <3>3. u \in BOOLEAN
      OBVIOUS
    <3> HIDE DEF rest, u
    <3>4. n + rest <= MAX_RW_COUNT
      BY <1>2, <3>1, <3>2, Words
    <3>5. Addressable(u, Signed(l.pos + n), rest)
      BY <1>2, <3>1, <3>2, <3>3, <3>4, Onward
    <3>6. Addressable(u, r.pos, rest)
      <4>1. CASE n > 0
        BY <1>3, <2>1, <3>5, <4>1
      <4>2. CASE ~ (n > 0)
        <5>1. r.pos = l.pos /\ n + rest = rest
          BY <1>3, <2>1, <3>1, <4>2
        <5> QED
          BY <3>2, <5>1
      <4> QED
        BY <4>1, <4>2
    <3>7. r.got + rest <= MAX_RW_COUNT /\ r.got <= MAX_RW_COUNT
      BY <1>2, <1>3, <2>1, <3>1, <3>2, Words, SMTT(30)
    <3>8. Total(r.segs) = rest /\ (r.call.f \in s.unsigned <=> u)
      BY <1>3, <2>1 DEF rest, u
    <3> QED
      BY <2>1, <3>6, <3>7, <3>8 DEF Room
  <2> QED
    BY <1>3, <2>4, <2>5, <2>6 DEF LocalOK, r
<1> QED
  BY <1>4, <1>5

-----------------------------------------------------------------------------
\* Sizes only grow, which no call minds.
LEMMA Grown ==
  ASSUME NEW s, NEW l, NEW k, NEW size \in [Files -> Int], NEW size2 \in [Files -> Int],
         \A f \in Files : size[f] <= size2[f], LocalOK(s, l, k, size)
  PROVE  LocalOK(s, l, k, size2)
<1>1. l \in Locals /\ k \in Kiocbs /\ CallPlace(s, l, k, size) /\ Accounts(s, l, k) /\ Room(s, l, k)
  BY DEF LocalOK
<1>2. l.pc \in OutLabels => l.n \in Nat /\ l.sd + l.n <= size2[l.call.f]
  <2> SUFFICES ASSUME l.pc \in OutLabels PROVE l.n \in Nat /\ l.sd + l.n <= size2[l.call.f]
    OBVIOUS
  <2>1. l.call \in SendCalls /\ l.n \in Nat /\ l.sd + l.n <= size[l.call.f]
    BY <1>1 DEF CallPlace, SendLabels
  <2>2. l.call.f \in Files /\ l.sd \in Int
    BY <1>1, <2>1, Words DEF SendCalls, Locals
  <2> QED
    BY <2>1, <2>2
<1>3. CallPlace(s, l, k, size2)
  BY <1>1, <1>2 DEF CallPlace
<1> QED
  BY <1>1, <1>3 DEF LocalOK

\* One thread took a step that left its call in order; the others did not move.
Moves(t) ==
  /\ sys' = sys
  /\ i_size' \in [Files -> 0 .. Half - 1] /\ \A f \in Files : i_size[f] <= i_size'[f]
  /\ DOMAIN th' = Threads /\ DOMAIN kiocb' = Threads
  /\ \A u \in Threads \ {t} : th'[u] = th[u] /\ kiocb'[u] = kiocb[u]

LEMMA MovesOK ==
  ASSUME Globals, LocalsInv, NEW t \in Threads, Moves(t), LocalOK(sys, th'[t], kiocb'[t], i_size')
  PROVE  LocalsInv'
<1>1. i_size \in [Files -> Int] /\ i_size' \in [Files -> Int]
  BY Words DEF Globals, Moves
<1>2. ASSUME NEW u \in Threads PROVE LocalOK(sys', th'[u], kiocb'[u], i_size')
  <2>1. CASE u = t
    BY <2>1 DEF Moves
  <2>2. CASE u # t
    <3>1. LocalOK(sys, th[u], kiocb[u], i_size')
      BY <1>1, Grown DEF LocalsInv, Moves
    <3>2. th'[u] = th[u] /\ kiocb'[u] = kiocb[u] /\ sys' = sys
      BY <2>2 DEF Moves
    <3> QED
      BY <3>1, <3>2
  <2> QED
    BY <2>1, <2>2
<1> QED
  BY <1>2 DEF LocalsInv, Moves

\* What is known of a call that takes a step.
LEMMA Known ==
  ASSUME Globals, LocalsInv, NEW t \in Threads
  PROVE  /\ LocalOK(sys, th[t], kiocb[t], i_size)
         /\ th[t] \in Locals /\ kiocb[t] \in Kiocbs
         /\ CallPlace(sys, th[t], kiocb[t], i_size) /\ Accounts(sys, th[t], kiocb[t])
         /\ Room(sys, th[t], kiocb[t])
         /\ DOMAIN th = Threads /\ DOMAIN kiocb = Threads
         /\ sys \in Systems /\ SystemOK(sys)
         /\ i_size \in [Files -> 0 .. Half - 1] /\ \A f \in Files : i_size[f] <= i_size[f]
  BY Constants, Words DEF LocalsInv, LocalOK, Globals

-----------------------------------------------------------------------------
\* The places of a retry.
LEMMA RetrySteps ==
  ASSUME Globals, LocalsInv, NEW t \in Threads, retry_prepare(t) \/ retry_test(t) \/ retry_wake(t)
  PROVE  LocalsInv'
<1> DEFINE l == th[t]
           k == kiocb[t]
<1>1. /\ l \in Locals /\ k \in Kiocbs /\ CallPlace(sys, l, k, i_size) /\ Accounts(sys, l, k)
      /\ Room(sys, l, k) /\ DOMAIN th = Threads /\ DOMAIN kiocb = Threads
      /\ i_size \in [Files -> 0 .. Half - 1] /\ \A f \in Files : i_size[f] <= i_size[f]
  BY Known
<1> DEFINE k2 == kiocb'[t]
<1>2. /\ l.pc \in RetryLabels /\ \E p \in {"retry_test", "retry_sleep", "call"} : Go(t, p)
      /\ sys' = sys /\ i_size' = i_size /\ DOMAIN kiocb' = Threads
      /\ \A u \in Threads \ {t} : kiocb'[u] = kiocb[u]
      /\ k2 \in Kiocbs /\ k2.users = k.users /\ k2.owed = k.owed
  <2>1. CASE retry_prepare(t)
    BY <1>1, <2>1 DEF retry_prepare, At, RetryLabels
  <2>2. CASE retry_test(t)
    <3>1. l.pc \in RetryLabels /\ sys' = sys /\ i_size' = i_size
      BY <2>2 DEF retry_test, At, RetryLabels
    <3>2. \/ Go(t, "call") /\ kiocb' = [kiocb EXCEPT ![t].kicked = FALSE]
          \/ Go(t, "retry_sleep") /\ kiocb' = kiocb
      BY <2>2 DEF retry_test
    <3>3. CASE kiocb' = [kiocb EXCEPT ![t].kicked = FALSE]
      <4>1. DOMAIN kiocb' = Threads /\ k2 = [k EXCEPT !.kicked = FALSE]
            /\ \A u \in Threads \ {t} : kiocb'[u] = kiocb[u]
        BY <1>1, <3>3
      <4>2. k2 \in Kiocbs /\ k2.users = k.users /\ k2.owed = k.owed
        BY <1>1, <4>1 DEF Kiocbs
      <4> QED
        BY <3>1, <3>2, <4>1, <4>2
    <3>4. CASE kiocb' = kiocb
      BY <1>1, <3>1, <3>2, <3>4
    <3> QED
      BY <3>2, <3>3, <3>4
  <2>3. CASE retry_wake(t)
    BY <1>1, <2>3 DEF retry_wake, At, RetryLabels
  <2> QED
    BY <2>1, <2>2, <2>3
<1>3. PICK p \in {"retry_test", "retry_sleep", "call"} : Go(t, p)
  BY <1>2
<1> DEFINE l2 == [l EXCEPT !.pc = p]
<1>4. Moves(t) /\ th'[t] = l2
  BY <1>1, <1>2, <1>3 DEF Moves, Go
<1>5. /\ l2 \in Locals /\ l2.pc = p /\ l2.call = l.call /\ l2.segs = l.segs /\ l2.ret = l.ret
      /\ l2.got = l.got /\ l2.pos = l.pos
  BY <1>1, <1>3 DEF Locals, RwLabels, RetryLabels
<1> HIDE DEF l, k, l2, k2
<1>6. CallPlace(sys, l2, k2, i_size)
  BY <1>1, <1>2, <1>3, <1>5
  DEF CallPlace, RwLabels, SeekLabels, SendLabels, OutLabels, WaitLabels, RetryLabels
<1>7. Accounts(sys, l2, k2)
  BY <1>1, <1>2, <1>3, <1>5 DEF Accounts, RwLabels, WaitLabels, RetryLabels
<1>8. Room(sys, l2, k2)
  BY <1>1, <1>2, <1>3, <1>5 DEF Room, RwLabels, WaitLabels, RetryLabels
<1> QED
  BY <1>2, <1>4, <1>5, <1>6, <1>7, <1>8, MovesOK DEF LocalOK, k2

\* A wait ends with what the kiocb says, and only when it was completed.
LEMMA WaitSteps ==
  ASSUME Globals, LocalsInv, NEW t \in Threads,
         wait_on_sync_kiocb(t) \/ wait_test(t) \/ wait_wake(t)
  PROVE  LocalsInv'
<1> DEFINE l == th[t]
           k == kiocb[t]
<1>1. /\ l \in Locals /\ k \in Kiocbs /\ CallPlace(sys, l, k, i_size) /\ Accounts(sys, l, k)
      /\ Room(sys, l, k) /\ DOMAIN th = Threads /\ DOMAIN kiocb = Threads
      /\ i_size \in [Files -> 0 .. Half - 1] /\ \A f \in Files : i_size[f] <= i_size[f]
      /\ sys \in Systems /\ LocalOK(sys, l, k, i_size)
  BY Known
<1>2. /\ l.pc \in WaitLabels /\ sys' = sys /\ i_size' = i_size /\ kiocb' = kiocb
      /\ (k.users = 0 /\ Completed(t)) \/ \E p \in WaitLabels : Go(t, p)
  <2>1. CASE wait_on_sync_kiocb(t)
    BY <2>1 DEF wait_on_sync_kiocb, At, WaitLabels
  <2>2. CASE wait_test(t)
    BY <2>2 DEF wait_test, At, WaitLabels
  <2>3. CASE wait_wake(t)
    BY <2>3 DEF wait_wake, At, WaitLabels
  <2> QED
    BY <2>1, <2>2, <2>3
<1>3. CASE k.users = 0 /\ Completed(t)
  <2> DEFINE l2 == Returned(l, k.data, l.pos, 0)
  <2>1. Moves(t) /\ th'[t] = l2 /\ kiocb'[t] = k
    BY <1>1, <1>2, <1>3 DEF Moves, Completed
  <2> HIDE DEF l, k
  <2>2. /\ l.pc \in RwLabels /\ l.ret = 0 /\ Len(l.segs) = 1 /\ l.got = Bytes(k.data)
        /\ k.owed = "nothing" /\ l.call \in RwCalls
    BY <1>1, <1>2, <1>3 DEF CallPlace, Accounts, RwLabels
  <2>3. /\ l.pos \in Int /\ k.data \in Int /\ l.got \in Nat /\ l.got + 0 = l.got /\ l.ret + k.data = k.data
    BY <1>1, <2>2, Words DEF Locals, Kiocbs
  <2>4. k.data >= 0 => k.data = l.got
    BY <2>2, <2>3 DEF Bytes, Greatest
  <2>5. l.got <= MAX_RW_COUNT
    BY <1>1, <2>2 DEF Room, RwCalls
  <2>6. LocalOK(sys, l2, k, i_size)
    <3>1. /\ k.data >= 0 => l.ret + k.data = l.got + 0
          /\ ~ (Len(l.segs) > 1) /\ l.got + 0 <= MAX_RW_COUNT /\ k.owed # "complete"
      BY <2>2, <2>3, <2>4, <2>5
    <3>2. /\ k.data < 0 /\ l.ret # 0 => 0 = 0 /\ l.ret = l.got
          /\ k.data = Head(l.segs) /\ Len(l.segs) > 1 => 0 = k.data /\ l.pos = l.pos /\ k.users = 1 /\ k.users = 1
      BY <2>2, <3>1
    <3>3. 0 \in Nat
      OBVIOUS
    <3> QED
      BY <1>1, <2>2, <2>3, <3>1, <3>2, <3>3, ReturnedOK
  <2> HIDE DEF l2
  <2> QED
    BY <1>2, <2>1, <2>6, MovesOK
<1>4. CASE \E p \in WaitLabels : Go(t, p)
  <2>1. PICK p \in WaitLabels : Go(t, p)
    BY <1>4
  <2> DEFINE l2 == [l EXCEPT !.pc = p]
  <2>2. Moves(t) /\ th'[t] = l2 /\ kiocb'[t] = k
    BY <1>1, <1>2, <2>1 DEF Moves, Go
  <2>3. /\ l2 \in Locals /\ l2.pc = p /\ l2.call = l.call /\ l2.segs = l.segs /\ l2.ret = l.ret
        /\ l2.got = l.got /\ l2.pos = l.pos
    BY <1>1, <2>1 DEF Locals, RwLabels
  <2> HIDE DEF l, k, l2
  <2>4. CallPlace(sys, l2, k, i_size)
    BY <1>1, <1>2, <2>1, <2>3
    DEF CallPlace, RwLabels, SeekLabels, SendLabels, OutLabels, WaitLabels, RetryLabels
  <2>5. Accounts(sys, l2, k)
    BY <1>1, <1>2, <2>1, <2>3 DEF Accounts, RwLabels, WaitLabels, RetryLabels
  <2>6. Room(sys, l2, k)
    BY <1>1, <1>2, <2>1, <2>3 DEF Room, RwLabels, WaitLabels, RetryLabels
  <2> QED
    BY <1>1, <1>2, <2>2, <2>3, <2>4, <2>5, <2>6, MovesOK DEF LocalOK
<1> QED
  BY <1>2, <1>3, <1>4

\* A method that moves m bytes at the position and returns n.
LEMMA MethodOK ==
  ASSUME Globals, LocalsInv, NEW t \in Threads, At(t, "call"), NEW n \in Int, NEW m \in Nat,
         MethodReturns(t, n, m), m <= Head(th[t].segs), IF n >= 0 THEN m = n ELSE m = 0,
         sys' = sys, i_size' = i_size, DOMAIN kiocb' = Threads,
         \A u \in Threads \ {t} : kiocb'[u] = kiocb[u],
         kiocb'[t] \in Kiocbs, kiocb'[t].users = 1, kiocb'[t].owed # "complete"
  PROVE  LocalsInv'
<1> DEFINE l == th[t]
           k == kiocb[t]
           k2 == kiocb'[t]
           l2 == Returned(l, n, l.pos, m)
<1>1. /\ l \in Locals /\ k \in Kiocbs /\ CallPlace(sys, l, k, i_size) /\ Accounts(sys, l, k)
      /\ Room(sys, l, k) /\ DOMAIN th = Threads /\ DOMAIN kiocb = Threads
      /\ i_size \in [Files -> 0 .. Half - 1] /\ \A f \in Files : i_size[f] <= i_size[f]
      /\ sys \in Systems /\ LocalOK(sys, l, k, i_size)
  BY Known
<1>2. Moves(t) /\ th'[t] = l2
  BY <1>1 DEF Moves, MethodReturns
<1>3. l.pc = "call" /\ l.pc \in RwLabels \ WaitLabels /\ l.pc \notin WaitLabels \cup {"done"}
  BY DEF At, RwLabels, WaitLabels
<1>4. k2 \in Kiocbs /\ k2.owed # "complete" /\ k2.users = 1 /\ m <= Head(l.segs)
  OBVIOUS
<1> HIDE DEF l, k, k2
<1>5. l.segs # <<>> /\ k.users = 1 /\ l.ret = l.got
  BY <1>1, <1>3 DEF CallPlace, Accounts
<1>6. l.segs \in Seq(Nat) /\ l.got \in Nat /\ l.ret \in Int /\ l.pos \in Int
  BY <1>1, Words DEF Locals
<1>7. l.got + Total(l.segs) <= MAX_RW_COUNT
  BY <1>1, <1>3, <1>5 DEF Room
<1>8. l.got + m <= MAX_RW_COUNT
  <2> DEFINE a == Head(l.segs)
             b == Total(Tail(l.segs))
             c == Total(l.segs)
  <2>1. a \in Nat /\ b \in Nat /\ c = a + b /\ m <= a /\ l.got + c <= MAX_RW_COUNT
    BY <1>4, <1>5, <1>6, <1>7, TotalRest
  <2> HIDE DEF a, b, c
  <2> QED
    BY <1>6, <2>1, Words
<1>9. /\ n >= 0 => l.ret + n = l.got + m
      /\ n < 0 /\ l.ret # 0 => m = 0 /\ l.ret = l.got
      /\ n = Head(l.segs) /\ Len(l.segs) > 1 => m = n
  <2>1. Head(l.segs) >= 0
    BY <1>5, <1>6, TotalRest
  <2> QED
    BY <1>5, <2>1
<1>10. LocalOK(sys, l2, k2, i_size)
  BY <1>1, <1>3, <1>4, <1>5, <1>6, <1>8, <1>9, ReturnedOK
<1> HIDE DEF l2
<1> QED
  BY <1>2, <1>10, MovesOK DEF k2

LEMMA ReadSteps ==
  ASSUME Globals, LocalsInv, NEW t \in Threads, generic_file_aio_read(t) \/ plain_method(t)
  PROVE  LocalsInv'
<1> DEFINE l == th[t]
           k == kiocb[t]
<1>1. /\ l \in Locals /\ k \in Kiocbs /\ CallPlace(sys, l, k, i_size)
      /\ DOMAIN th = Threads /\ DOMAIN kiocb = Threads /\ i_size \in [Files -> 0 .. Half - 1]
  BY Known
<1>2. At(t, "call") /\ sys' = sys /\ i_size' = i_size /\ kiocb' = kiocb
  BY DEF generic_file_aio_read, plain_method
<1>3. k.users = 1 /\ k.owed # "complete" /\ l.segs # <<>> /\ l.call \in RwCalls
  BY <1>1, <1>2 DEF CallPlace, RwLabels, WaitLabels, At
<1>4. Head(l.segs) \in Nat /\ l.pos \in Int /\ l.call.f \in Files
  BY <1>1, <1>3, TotalRest, Words DEF Locals, RwCalls
<1>5. \E n \in Int, m \in Nat : /\ MethodReturns(t, n, m) /\ m <= Head(l.segs)
                                /\ IF n >= 0 THEN m = n ELSE m = 0
  <2>1. CASE generic_file_aio_read(t)
    <3> DEFINE room == Greatest(i_size[File(t)] - th[t].pos, 0)
               c    == Least(Head(th[t].segs), room)
    <3>1. PICK m \in 0 .. c : MethodReturns(t, IF m = 0 /\ c > 0 THEN EIO ELSE m, m)
      BY <2>1 DEF generic_file_aio_read
    <3>2. room \in Nat
      BY <1>1, <1>4, Words DEF Greatest, File
    <3> HIDE DEF room
    <3>3. c \in Nat /\ c <= Head(l.segs)
      BY <1>4, <3>2 DEF Least
    <3> HIDE DEF c, l, k
    <3>4. m \in Nat /\ m <= Head(l.segs)
      BY <1>4, <3>1, <3>3
    <3>5. CASE m = 0 /\ c > 0
      <4>1. MethodReturns(t, EIO, m)
        BY <3>1, <3>5
      <4> QED
        BY <3>4, <3>5, <4>1, Errors
    <3>6. CASE ~ (m = 0 /\ c > 0)
      <4>1. MethodReturns(t, m, m) /\ m \in Int /\ m >= 0
        BY <3>1, <3>4, <3>6
      <4> QED
        BY <3>4, <4>1
    <3> QED
      BY <3>5, <3>6
  <2>2. CASE plain_method(t)
    <3>1. PICK n \in {EIO} \cup 0 .. Head(l.segs) : MethodReturns(t, n, Bytes(n))
      BY <2>2 DEF plain_method, MethodResults
    <3> HIDE DEF l, k
    <3>2. n \in Int /\ Bytes(n) \in Nat /\ Bytes(n) <= Head(l.segs) /\ IF n >= 0 THEN Bytes(n) = n ELSE Bytes(n) = 0
      BY <1>4, Errors DEF Bytes, Greatest
    <3> QED
      BY <3>1, <3>2
  <2> QED
    BY <2>1, <2>2
<1> QED
  BY <1>1, <1>2, <1>3, <1>5, MethodOK

LEMMA AsyncSteps ==
  ASSUME Globals, LocalsInv, NEW t \in Threads, async_method(t)
  PROVE  LocalsInv'
<1> DEFINE l == th[t]
           k == kiocb[t]
           k2 == kiocb'[t]
<1>1. /\ l \in Locals /\ k \in Kiocbs /\ CallPlace(sys, l, k, i_size) /\ Accounts(sys, l, k)
      /\ Room(sys, l, k) /\ DOMAIN th = Threads /\ DOMAIN kiocb = Threads
      /\ i_size \in [Files -> 0 .. Half - 1] /\ \A f \in Files : i_size[f] <= i_size[f]
  BY Known
<1>2. /\ At(t, "call") /\ l.pc = "call" /\ sys.kind[l.call.f] = "async" /\ sys' = sys /\ i_size' = i_size
      /\ DOMAIN kiocb' = Threads /\ \A u \in Threads \ {t} : kiocb'[u] = kiocb[u]
  BY <1>1 DEF async_method, At, Kind, File
<1>3. k.users = 1 /\ k.owed # "complete" /\ l.segs # <<>> /\ l.call \in RwCalls /\ l.ret = l.got
      /\ l.ret = 0 /\ Len(l.segs) = 1
  BY <1>1, <1>2 DEF CallPlace, Accounts, RwLabels, WaitLabels
<1>4. Head(l.segs) \in Nat /\ l.tries \in Nat
  BY <1>1, <1>3, TotalRest DEF Locals
<1>5. CASE /\ \E n \in MethodResults(t) : MethodReturns(t, n, Bytes(n))
           /\ kiocb' = [kiocb EXCEPT ![t].owed = "nothing"]
  <2>1. PICK n \in {EIO} \cup 0 .. Head(l.segs) : MethodReturns(t, n, Bytes(n))
    BY <1>5 DEF MethodResults
  <2>2. k2 \in Kiocbs /\ k2.users = 1 /\ k2.owed # "complete"
    BY <1>1, <1>3, <1>5 DEF Kiocbs
  <2> HIDE DEF l, k
  <2>3. n \in Int /\ Bytes(n) \in Nat /\ Bytes(n) <= Head(l.segs) /\ IF n >= 0 THEN Bytes(n) = n ELSE Bytes(n) = 0
    BY <1>4, Errors DEF Bytes, Greatest
  <2> QED
    BY <1>2, <2>1, <2>2, <2>3, MethodOK DEF l
<1>6. CASE \/ /\ th' = [th EXCEPT ![t].pc = "retry", ![t].tries = @ + 1]
              /\ kiocb' = [kiocb EXCEPT ![t].owed = "kick"]
           \/ /\ Go(t, "wait")
              /\ kiocb' = [kiocb EXCEPT ![t].owed = "complete"]
  <2> DEFINE l2 == th'[t]
  <2>1. /\ l2 \in Locals /\ l2.call = l.call /\ l2.segs = l.segs /\ l2.ret = l.ret
        /\ l2.got = l.got /\ l2.pos = l.pos /\ DOMAIN th' = Threads
        /\ \A u \in Threads \ {t} : th'[u] = th[u]
    <3>1. CASE th' = [th EXCEPT ![t].pc = "retry", ![t].tries = @ + 1]
      <4>1. /\ l2 = [l EXCEPT !.pc = "retry", !.tries = l.tries + 1] /\ DOMAIN th' = Threads
            /\ \A u \in Threads \ {t} : th'[u] = th[u]
        BY <1>1, <3>1
      <4> HIDE DEF l, l2
      <4>2. l \in Locals /\ l.tries + 1 \in Nat
        BY <1>1, <1>4
      <4>3. l2 \in Locals
        BY <4>1, <4>2 DEF Locals, RwLabels, RetryLabels
      <4>4. /\ l2.call = l.call /\ l2.segs = l.segs /\ l2.ret = l.ret
            /\ l2.got = l.got /\ l2.pos = l.pos
        BY <4>1, <4>2 DEF Locals
      <4> QED
        BY <4>1, <4>3, <4>4
    <3>2. CASE Go(t, "wait")
      BY <1>1, <3>2 DEF Go, Locals, RwLabels, WaitLabels
    <3> QED
      BY <1>6, <3>1, <3>2
  <2>2. /\ k2 \in Kiocbs /\ k2.users = 1
        /\ (l2.pc = "retry" /\ k2.owed = "kick") \/ (l2.pc = "wait" /\ k2.owed = "complete")
    BY <1>1, <1>3, <1>6, SMTT(30) DEF Go, Kiocbs, Locals
  <2>3. Moves(t)
    BY <1>1, <1>2, <2>1 DEF Moves
  <2> HIDE DEF l, k, l2, k2
  <2>4. CallPlace(sys, l2, k2, i_size)
    BY <1>1, <1>2, <1>3, <2>1, <2>2
    DEF CallPlace, RwLabels, SeekLabels, SendLabels, OutLabels, WaitLabels, RetryLabels
  <2>5. Accounts(sys, l2, k2)
    <3>1. k2.users # 0
      BY <2>2
    <3>2. l2.ret = 0 /\ l2.got = 0
      BY <1>3, <2>1
    <3>3. Len(l2.segs) = 1
      BY <1>3, <2>1
    <3> QED
      BY <2>2, <3>1, <3>2, <3>3 DEF Accounts, RwLabels, WaitLabels, RetryLabels
  <2>6. Room(sys, l2, k2)
    BY <1>1, <1>2, <1>3, <2>1, <2>2 DEF Room, RwLabels, WaitLabels, RetryLabels
  <2> QED
    BY <1>2, <2>1, <2>2, <2>3, <2>4, <2>5, <2>6, MovesOK DEF LocalOK, l2, k2
<1> QED
  BY <1>5, <1>6 DEF async_method

\* The driver keeps its promise, and the scheduler wakes somebody.
LEMMA PromiseSteps ==
  ASSUME Globals, LocalsInv, NEW t \in Threads, Promise(t)
  PROVE  LocalsInv'
<1> DEFINE l == th[t]
           k == kiocb[t]
           k2 == kiocb'[t]
           l2 == th'[t]
<1>1. /\ l \in Locals /\ k \in Kiocbs /\ CallPlace(sys, l, k, i_size) /\ Accounts(sys, l, k)
      /\ Room(sys, l, k) /\ DOMAIN th = Threads /\ DOMAIN kiocb = Threads
      /\ i_size \in [Files -> 0 .. Half - 1] /\ (\A f \in Files : i_size[f] <= i_size[f])
      /\ sys \in Systems /\ LocalOK(sys, l, k, i_size)
  BY Known
<1>2. CASE wake_up_process(t)
  <2>1. Moves(t) /\ l2 = l /\ k2 = k /\ i_size' = i_size
    BY <1>1, <1>2 DEF wake_up_process, Moves
  <2> QED
    BY <1>1, <2>1, MovesOK
<1>3. CASE kick_iocb(t)
  <2>1. Moves(t) /\ l2 = l /\ i_size' = i_size
    BY <1>1, <1>3 DEF kick_iocb, Moves
  <2>2. k.owed = "kick" /\ k2 \in Kiocbs /\ k2.users = k.users /\ k2.owed = "nothing"
    BY <1>1, <1>3 DEF kick_iocb, Kiocbs
  <2> HIDE DEF l, k, l2, k2
  <2>3. CallPlace(sys, l, k2, i_size)
    BY <1>1, <2>2 DEF CallPlace
  <2>4. Accounts(sys, l, k2)
    BY <1>1, <2>2 DEF Accounts
  <2>5. Room(sys, l, k2)
    BY <1>1, <2>2 DEF Room
  <2> QED
    BY <1>1, <2>1, <2>2, <2>3, <2>4, <2>5, MovesOK DEF LocalOK, l2, k2
<1>4. CASE aio_complete(t)
  <2>1. PICK n \in {EIO} \cup 0 .. Head(l.segs) :
          /\ kiocb' = [kiocb EXCEPT ![t].owed = "nothing", ![t].data = n, ![t].users = 0]
          /\ th' = [th EXCEPT ![t].pos = Signed(@ + Bytes(n)), ![t].got = @ + Bytes(n)]
    BY <1>4 DEF aio_complete, MethodResults
  <2>2. k.owed = "complete" /\ sys' = sys /\ i_size' = i_size
    BY <1>4 DEF aio_complete
  <2>3. /\ l2 = [l EXCEPT !.pos = Signed(l.pos + Bytes(n)), !.got = l.got + Bytes(n)]
        /\ k2 = [k EXCEPT !.owed = "nothing", !.data = n, !.users = 0]
        /\ Moves(t)
    BY <1>1, <2>1, <2>2 DEF Moves
  <2> HIDE DEF l, k, l2, k2
  <2>4. /\ l.pc \in WaitLabels /\ l.call \in RwCalls /\ l.segs # <<>> /\ sys.kind[l.call.f] = "async"
        /\ l.ret = 0 /\ Len(l.segs) = 1
    BY <1>1, <2>2 DEF CallPlace, Accounts, RwLabels
  <2>5. k.users = 1 /\ l.got = 0
    BY <1>1, <2>2, <2>4 DEF Accounts, Kiocbs
  <2>6. l.segs \in Seq(Nat) /\ Head(l.segs) \in Nat /\ l.pos \in Int /\ Total(l.segs) = Head(l.segs)
    BY <1>1, <2>4, TotalOne, Words DEF Locals
  <2>7. Bytes(n) \in Nat /\ Bytes(n) <= Head(l.segs) /\ n \in Int
    BY <2>6, Errors DEF Bytes, Greatest
  <2>8. l.got + Bytes(n) = Bytes(n) /\ Bytes(n) <= MAX_RW_COUNT
    <3>1. l.got + Total(l.segs) <= MAX_RW_COUNT
      BY <1>1, <2>4, <2>5 DEF Room, RwLabels
    <3>2. Head(l.segs) <= MAX_RW_COUNT
      BY <2>5, <2>6, <3>1, Words
    <3> QED
      BY <2>5, <2>6, <2>7, <3>2, Words
  <2> DEFINE p == Signed(l.pos + Bytes(n))
             b == Bytes(n)
  <2>9. p \in loff_t /\ b \in Nat
    <3>1. b \in Nat
      BY <2>7
    <3> HIDE DEF b
    <3>2. l.pos + b \in Int
      BY <2>6, <3>1
    <3>3. Signed(l.pos + b) \in loff_t
      BY <3>2, SignedWord
    <3> QED
      BY <3>1, <3>3 DEF b
  <2>10. l2 = [l EXCEPT !.pos = p, !.got = b]
    BY <2>3, <2>8
  <2> HIDE DEF p
  <2>11. l2 \in Locals
    BY <1>1, <2>9, <2>10 DEF Locals
  <2>12. l2.pc = l.pc /\ l2.call = l.call /\ l2.segs = l.segs /\ l2.ret = l.ret /\ l2.got = b
    BY <1>1, <2>10 DEF Locals
  <2>13. k2 \in Kiocbs /\ k2.owed = "nothing" /\ k2.users = 0 /\ k2.data = n
    BY <1>1, <2>3, <2>7 DEF Kiocbs
  <2>14. CallPlace(sys, l2, k2, i_size)
    BY <2>4, <2>12, <2>13
    DEF CallPlace, RwLabels, SeekLabels, SendLabels, OutLabels, WaitLabels, RetryLabels
  <2>15. Accounts(sys, l2, k2)
    BY <2>4, <2>12, <2>13 DEF Accounts, RwLabels, WaitLabels, RetryLabels
  <2>16. Room(sys, l2, k2)
    BY <2>4, <2>8, <2>12, <2>13 DEF Room, WaitLabels
  <2> QED
    BY <2>2, <2>3, <2>11, <2>13, <2>14, <2>15, <2>16, MovesOK DEF LocalOK, l2, k2
<1> QED
  BY <1>2, <1>3, <1>4 DEF Promise

\* A write ends under the limit of the file system, so sizes are sizes.
LEMMA WriteGrows ==
  ASSUME Globals, LocalsInv, NEW t \in Threads, generic_file_buffered_write(t)
  PROVE  i_size' \in [Files -> 0 .. Half - 1] /\ \A g \in Files : i_size[g] <= i_size'[g]
<1> DEFINE l == th[t]
           f == l.call.f
           from == l.from
<1>1. /\ l \in Locals /\ CallPlace(sys, l, kiocb[t], i_size)
      /\ i_size \in [Files -> 0 .. Half - 1] /\ SystemOK(sys)
  BY Known
<1>2. PICK m \in 0 .. l.n :
        i_size' = [i_size EXCEPT ![f] = IF m > 0 THEN Greatest(@, from + m) ELSE @]
  BY DEF generic_file_buffered_write, File
<1>3. l.pc = "copy" /\ l.pc \in RwLabels
  BY DEF generic_file_buffered_write, At, RwLabels
<1>4. l.n \in Nat /\ from + l.n <= sys.maxbytes[f] /\ l.call \in RwCalls
  BY <1>1, <1>3 DEF CallPlace
<1>5. f \in Files /\ from \in Int
  BY <1>1, <1>4 DEF RwCalls, Locals
<1>6. sys.maxbytes[f] \in 0 .. Half - 1 /\ i_size[f] \in 0 .. Half - 1
  BY <1>1, <1>5 DEF SystemOK
<1> DEFINE e == from + m
           a == i_size[f]
           new == IF m > 0 THEN Greatest(a, e) ELSE a
<1>7. e \in Int /\ e <= Half - 1 /\ a \in 0 .. Half - 1 /\ Half \in Nat
  <2> HIDE DEF l, f, from
  <2> QED
    BY <1>2, <1>4, <1>5, <1>6, Words
<1>8. i_size' = [i_size EXCEPT ![f] = new]
  BY <1>2
<1> HIDE DEF e, a
<1>9. new \in 0 .. Half - 1 /\ a <= new
  BY <1>7 DEF Greatest
<1> HIDE DEF new, l, f
<1>10. \A g \in Files : i_size[g] \in Int
  BY <1>1, Words
<1> QED
  BY <1>1, <1>5, <1>8, <1>9, <1>10 DEF a

\* A write under i_mutex.
LEMMA WriteSteps ==
  ASSUME Globals, LocalsInv, NEW t \in Threads,
         lock_inode(t) \/ generic_write_checks(t) \/ generic_file_buffered_write(t)
  PROVE  LocalsInv'
<1> DEFINE l == th[t]
           k == kiocb[t]
           l2 == th'[t]
           f == l.call.f
<1>1. /\ l \in Locals /\ k \in Kiocbs /\ CallPlace(sys, l, k, i_size) /\ Accounts(sys, l, k)
      /\ Room(sys, l, k) /\ DOMAIN th = Threads /\ DOMAIN kiocb = Threads
      /\ i_size \in [Files -> 0 .. Half - 1] /\ (\A g \in Files : i_size[g] <= i_size[g])
      /\ sys \in Systems /\ SystemOK(sys) /\ LocalOK(sys, l, k, i_size)
  BY Known
<1>2. /\ sys' = sys /\ kiocb' = kiocb /\ l.pc \in {"call", "checks", "copy"}
  BY DEF lock_inode, generic_write_checks, generic_file_buffered_write, At
<1>3. /\ l.call \in RwCalls /\ l.segs # <<>> /\ k.users = 1 /\ k.owed # "complete"
      /\ f \in Files /\ l.ret = l.got
  BY <1>1, <1>2 DEF CallPlace, Accounts, RwLabels, WaitLabels, RwCalls, RetryLabels
<1>4. sys.kind[f] = "regular"
  <2>1. CASE lock_inode(t)
    BY <2>1 DEF lock_inode, Kind, File
  <2>2. CASE l.pc \in {"checks", "copy"}
    BY <1>1, <2>2 DEF CallPlace
  <2> QED
    BY <2>1, <2>2 DEF generic_write_checks, generic_file_buffered_write, At
<1>5. /\ l.ret = 0 /\ l.got = 0 /\ Len(l.segs) = 1 /\ ~ (Len(l.segs) > 1)
  <2>1. l.pc \in RwLabels /\ sys.kind[l.call.f] # "plain"
    BY <1>2, <1>4 DEF RwLabels
  <2>2. l.ret = 0 /\ Len(l.segs) = 1
    BY <1>1, <2>1 DEF Accounts
  <2> QED
    BY <1>3, <2>2
<1>6. /\ l.segs \in Seq(Nat) /\ Head(l.segs) \in Nat /\ l.pos \in Int /\ Total(l.segs) = Head(l.segs)
      /\ l.from \in Int /\ l.n \in Int /\ l.pos \in loff_t
  BY <1>1, <1>3, <1>5, TotalOne, Words DEF Locals
<1>7. /\ sys.maxbytes[f] \in 0 .. Half - 1 /\ f \notin sys.unsigned /\ i_size[f] \in 0 .. Half - 1
  BY <1>1, <1>3, <1>4 DEF SystemOK
<1>8. /\ Addressable(FALSE, l.pos, Head(l.segs)) /\ Head(l.segs) <= MAX_RW_COUNT /\ l.pos >= 0
  <2>1. Addressable(f \in sys.unsigned, l.pos, Total(l.segs)) /\ l.got + Total(l.segs) <= MAX_RW_COUNT
    BY <1>1, <1>2, <1>3 DEF Room, RwLabels
  <2>2. (f \in sys.unsigned) = FALSE
    BY <1>7
  <2>3. Addressable(FALSE, l.pos, Head(l.segs))
    BY <1>6, <2>1, <2>2
  <2> QED
    BY <1>5, <1>6, <2>1, <2>3, Words DEF Addressable
<1>9. CASE lock_inode(t)
  <2>1. l2 = [l EXCEPT !.pc = "checks"] /\ Moves(t) /\ l.pc = "call" /\ i_size' = i_size
    BY <1>1, <1>9 DEF lock_inode, Go, Moves, At
  <2> HIDE DEF l, l2, k, f
  <2>2. l2 \in Locals
    BY <1>1, <2>1 DEF Locals, RwLabels
  <2>3. /\ l2.pc = "checks" /\ l2.call = l.call /\ l2.segs = l.segs /\ l2.ret = l.ret /\ l2.got = l.got
        /\ l2.pos = l.pos
    BY <1>1, <2>1 DEF Locals
  <2>4. CallPlace(sys, l2, k, i_size)
    BY <1>3, <1>4, <2>3
    DEF CallPlace, RwLabels, SeekLabels, SendLabels, OutLabels, WaitLabels, RetryLabels, f
  <2>5. Accounts(sys, l2, k)
    BY <1>3, <1>5, <2>3 DEF Accounts, RwLabels, WaitLabels, RetryLabels
  <2>6. Room(sys, l2, k)
    BY <1>1, <1>2, <1>3, <2>1, <2>3 DEF Room, RwLabels
  <2> QED
    BY <1>1, <1>2, <2>1, <2>2, <2>4, <2>5, <2>6, MovesOK DEF LocalOK, l2, k
<1>10. CASE generic_write_checks(t)
  <2> DEFINE from  == IF f \in sys.append THEN i_size[f] ELSE l.pos
             count == Head(l.segs)
             max   == sys.maxbytes[f]
             full  == from >= max /\ (count > 0 \/ from > max)
             n     == IF full THEN EFBIG ELSE 0
             c     == Least(count, max - from)
  <2>1. /\ l.pc = "checks" /\ i_size' = i_size
        /\ \/ /\ full \/ count = 0
              /\ th' = [th EXCEPT ![t] = Returned(@, n, from, 0)]
           \/ /\ ~ full /\ count # 0
              /\ th' = [th EXCEPT ![t].pc = "copy", ![t].from = from, ![t].n = c]
    BY <1>10 DEF generic_write_checks, At, File
  <2>2. from \in Int /\ max \in Int /\ count \in Nat /\ n \in Int /\ from >= 0
    BY <1>6, <1>7, <1>8, Errors, Words
  <2>3. CASE /\ full \/ count = 0
             /\ th' = [th EXCEPT ![t] = Returned(@, n, from, 0)]
    <3>1. l2 = Returned(l, n, from, 0) /\ Moves(t)
      BY <1>1, <1>2, <2>1, <2>3 DEF Moves
    <3>2. (n >= 0 => n = 0)
      BY Errors
    <3> HIDE DEF l, l2, k, f, from, n
    <3>3. /\ n >= 0 => l.ret + n = l.got + 0
          /\ l.got + 0 <= MAX_RW_COUNT
      BY <1>5, <2>2, <3>2, Words
    <3>4. l.pc \in RwLabels
      BY <2>1 DEF RwLabels
    <3>5. LocalOK(sys, Returned(l, n, from, 0), k, i_size)
      BY <1>1, <1>3, <1>5, <2>2, <3>3, <3>4, ReturnedOK
    <3> QED
      BY <1>2, <2>1, <3>1, <3>5, MovesOK DEF l2, k
  <2>4. CASE /\ ~ full /\ count # 0
             /\ th' = [th EXCEPT ![t].pc = "copy", ![t].from = from, ![t].n = c]
    <3>1. l2 = [l EXCEPT !.pc = "copy", !.from = from, !.n = c] /\ Moves(t)
      BY <1>1, <1>2, <2>1, <2>4 DEF Moves
    <3>2. c \in Nat /\ c <= Head(l.segs) /\ from + c <= sys.maxbytes[f] /\ c \in Int
      <4>1. count > 0 /\ ~ (from >= max)
        BY <2>2, <2>4
      <4> HIDE DEF count, max, from, full
      <4>2. c \in Nat /\ c <= count /\ from + c <= max
        BY <2>2, <4>1 DEF Least
      <4> HIDE DEF c
      <4> QED
        BY <4>2 DEF count, max
    <3> HIDE DEF l, l2, k, f, from, c
    <3>3. l2 \in Locals
      BY <1>1, <2>2, <3>1, <3>2 DEF Locals, RwLabels
    <3>4. /\ l2.pc = "copy" /\ l2.call = l.call /\ l2.segs = l.segs /\ l2.ret = l.ret
          /\ l2.got = l.got /\ l2.pos = l.pos /\ l2.from = from /\ l2.n = c
      BY <1>1, <3>1 DEF Locals
    <3>5. CallPlace(sys, l2, k, i_size)
      BY <1>3, <1>4, <3>2, <3>4
      DEF CallPlace, RwLabels, SeekLabels, SendLabels, OutLabels, WaitLabels, RetryLabels, f
    <3>6. Accounts(sys, l2, k)
      BY <1>3, <1>5, <3>4 DEF Accounts, RwLabels, WaitLabels, RetryLabels
    <3>7. Room(sys, l2, k)
      BY <1>1, <1>2, <1>3, <2>1, <2>2, <3>4 DEF Room, RwLabels
    <3> QED
      BY <1>1, <1>2, <2>1, <3>1, <3>3, <3>5, <3>6, <3>7, MovesOK DEF LocalOK, l2, k
  <2> QED
    BY <2>1, <2>3, <2>4
<1>11. CASE generic_file_buffered_write(t)
  <2> DEFINE from == l.from
  <2>1. PICK m \in 0 .. l.n : \E n \in IF m = 0 THEN {EFAULT} ELSE {m, EIO} :
          /\ th' = [th EXCEPT ![t] = Returned(@, n, from, m)]
          /\ i_size' = [i_size EXCEPT ![f] = IF m > 0 THEN Greatest(@, from + m) ELSE @]
    BY <1>11 DEF generic_file_buffered_write, File
  <2>10. PICK n \in IF m = 0 THEN {EFAULT} ELSE {m, EIO} :
          /\ th' = [th EXCEPT ![t] = Returned(@, n, from, m)]
          /\ i_size' = [i_size EXCEPT ![f] = IF m > 0 THEN Greatest(@, from + m) ELSE @]
    BY <2>1
  <2>2. l.pc = "copy" /\ l.pc \in RwLabels
    BY <1>11 DEF generic_file_buffered_write, At, RwLabels
  <2>3. l.n \in Nat /\ l.n <= Head(l.segs) /\ from + l.n <= sys.maxbytes[f]
    BY <1>1, <2>2 DEF CallPlace
  <2>4. m \in Nat /\ n \in Int /\ m <= l.n
    BY <2>1, <2>10, <2>3, Errors
  <2>6. i_size' \in [Files -> 0 .. Half - 1] /\ \A g \in Files : i_size[g] <= i_size'[g]
    BY <1>11, WriteGrows
  <2>7. l2 = Returned(l, n, from, m) /\ Moves(t)
    BY <1>1, <1>2, <2>10, <2>6 DEF Moves
  <2> HIDE DEF l, l2, k, f
  <2>8. /\ n >= 0 => l.ret + n = l.got + m
        /\ l.got + m <= MAX_RW_COUNT
    <3>1. n >= 0 => n = m
      BY <2>10, Errors
    <3> QED
      BY <1>5, <1>6, <1>8, <2>3, <2>4, <3>1, Words
  <2>9. LocalOK(sys, Returned(l, n, from, m), k, i_size')
    BY <1>1, <1>3, <1>5, <1>6, <2>2, <2>4, <2>8, ReturnedOK
  <2> QED
    BY <1>2, <2>7, <2>9, MovesOK DEF l2, k
<1> QED
  BY <1>9, <1>10, <1>11

-----------------------------------------------------------------------------
\* The calls a thread can make.
LEMMA CallKinds ==
  ASSUME NEW s \in Systems, NEW t \in Threads, NEW c \in s.calls[t]
  PROVE  /\ c.op = "rw" => /\ c \in RwCalls /\ c.segs \in Seq(Nat) /\ Total(c.segs) \in size_t
                           /\ Len(c.segs) # 1 => Total(c.segs) <= MAX_RW_COUNT
         /\ c.op = "seek" => c \in SeekCalls
         /\ c.op = "send" => c \in SendCalls /\ s.kind[c.out] = "regular"
<1>1. /\ c \in RwCalls \cup SeekCalls \cup SendCalls
      /\ c.op = "rw" /\ Len(c.segs) # 1 => Total(c.segs) <= MAX_RW_COUNT
      /\ c.op = "send" => s.kind[c.out] = "regular"
  BY Constants DEF SystemOK
<1>2. /\ c.op = "rw" => c \in RwCalls
      /\ c.op = "seek" => c \in SeekCalls
      /\ c.op = "send" => c \in SendCalls
  BY <1>1 DEF RwCalls, SeekCalls, SendCalls
<1>3. ASSUME c.op = "rw" PROVE c.segs \in Seq(Nat) /\ Total(c.segs) \in size_t
  <2> DEFINE segs == c.segs
  <2>1. segs \in Seq(size_t)
    BY <1>2, <1>3 DEF RwCalls
  <2>2. Len(segs) # 1 => Total(segs) <= MAX_RW_COUNT
    BY <1>1, <1>3
  <2> HIDE DEF segs
  <2>3. \A x \in size_t : x \in Nat
    BY Words DEF size_t
  <2>4. segs \in Seq(Nat)
    BY <2>1, <2>3
  <2>5. Total(segs) \in Nat
    BY <2>4, TotalNat
  <2>6. Total(segs) \in size_t
    <3>1. CASE Len(segs) = 1
      <4>1. segs[1] \in size_t
        BY <2>1, <3>1
      <4> QED
        BY <2>4, <3>1, <4>1, TotalOne
    <3>2. CASE Len(segs) # 1
      BY <2>2, <2>5, <3>2, Words DEF size_t
    <3> QED
      BY <3>1, <3>2
  <2> QED
    BY <2>4, <2>6 DEF segs
<1> QED
  BY <1>1, <1>2, <1>3

LEMMA IdleLocals ==
  /\ Idle \in Locals /\ Idle.pc = "idle" /\ Idle.got = 0 /\ Idle.ret = 0 /\ Idle.call = [op |-> "none"]
  /\ Idle.call.op = "none"
<1>1. <<>> \in Seq(Nat) /\ 0 \in loff_t
  BY Words
<1> QED
  BY <1>1 DEF Idle, Locals

LEMMA IdleOK ==
  ASSUME NEW s, NEW k \in Kiocbs, k.users = 1, k.owed # "complete", NEW size
  PROVE  LocalOK(s, Idle, k, size)
<1>1. CallPlace(s, Idle, k, size)
  BY IdleLocals DEF CallPlace, RwLabels, SeekLabels, SendLabels, OutLabels, WaitLabels, RetryLabels
<1>2. Accounts(s, Idle, k)
  BY IdleLocals DEF Accounts, RwLabels, WaitLabels, RetryLabels
<1>3. Room(s, Idle, k)
  BY IdleLocals DEF Room, RwLabels, WaitLabels, RetryLabels
<1> QED
  BY <1>1, <1>2, <1>3, IdleLocals DEF LocalOK

\* A thread that enters a call.
LEMMA Entering ==
  ASSUME Globals, LocalsInv, NEW t \in Threads, NEW c \in sys.calls[t], Enter(t, c), NEW l2,
         th' = [th EXCEPT ![t] = l2]
  PROVE  /\ Moves(t) /\ th'[t] = l2 /\ kiocb'[t] = kiocb[t] /\ i_size' = i_size
         /\ kiocb[t] \in Kiocbs /\ kiocb[t].users = 1 /\ kiocb[t].owed # "complete"
         /\ sys \in Systems /\ SystemOK(sys) /\ f_pos \in [Files -> loff_t]
<1>1. /\ CallPlace(sys, th[t], kiocb[t], i_size) /\ DOMAIN th = Threads /\ DOMAIN kiocb = Threads
      /\ i_size \in [Files -> 0 .. Half - 1] /\ (\A g \in Files : i_size[g] <= i_size[g])
      /\ kiocb[t] \in Kiocbs /\ sys \in Systems /\ SystemOK(sys) /\ f_pos \in [Files -> loff_t]
  BY Known DEF Globals
<1>2. th[t].pc = "idle" /\ sys' = sys /\ i_size' = i_size /\ kiocb' = kiocb
  BY DEF Enter, At
<1>3. kiocb[t].users = 1 /\ kiocb[t].owed # "complete"
  BY <1>1, <1>2 DEF CallPlace, WaitLabels
<1>4. Moves(t) /\ th'[t] = l2 /\ kiocb'[t] = kiocb[t]
  BY <1>1, <1>2 DEF Moves
<1> QED
  BY <1>1, <1>2, <1>3, <1>4

LEMMA RwEnters ==
  ASSUME Globals, LocalsInv, NEW t \in Threads, NEW c \in sys.calls[t], sys_rw(t, c)
  PROVE  LocalsInv'
<1> DEFINE p     == IF c.positioned THEN c.at ELSE f_pos[c.f]
           count == Total(c.segs)
           u     == c.f \in sys.unsigned
           k     == kiocb[t]
<1>1. PICK v \in IF c.positioned /\ c.at < 0 THEN {EINVAL} ELSE VerifyOutcomes(u, p, count) :
           th' = [th EXCEPT ![t] =
             [Idle EXCEPT !.call = c, !.pos = p,
                          !.ret  = IF v < 0 THEN v ELSE 0,
                          !.segs = IF v < 0 THEN <<>> ELSE Segments(c, v),
                          !.pc   = IF v < 0 \/ (count = 0 /\ Len(c.segs) # 1) THEN "done" ELSE "call"]]
  BY DEF sys_rw
<1> DEFINE ret2 == IF v < 0 THEN v ELSE 0
           segs2 == IF v < 0 THEN <<>> ELSE Segments(c, v)
           pc2 == IF v < 0 \/ (count = 0 /\ Len(c.segs) # 1) THEN "done" ELSE "call"
           l2 == [Idle EXCEPT !.call = c, !.pos = p, !.ret = ret2, !.segs = segs2, !.pc = pc2]
<1>2. Enter(t, c) /\ c.op = "rw" /\ th' = [th EXCEPT ![t] = l2]
  BY <1>1 DEF sys_rw
<1> HIDE DEF l2
<1>3. /\ Moves(t) /\ th'[t] = l2 /\ kiocb'[t] = k /\ i_size' = i_size
      /\ k \in Kiocbs /\ k.users = 1 /\ k.owed # "complete"
      /\ sys \in Systems /\ SystemOK(sys) /\ f_pos \in [Files -> loff_t]
  BY <1>2, Entering
<1>4. /\ c \in RwCalls /\ c.segs \in Seq(Nat) /\ count \in size_t
      /\ Len(c.segs) # 1 => count <= MAX_RW_COUNT
  BY <1>2, <1>3, CallKinds
<1>5. p \in loff_t /\ u \in BOOLEAN /\ c.f \in Files
  BY <1>3, <1>4 DEF RwCalls
<1>6. Verified(u, p, count, v)
  <2>1. CASE v \in VerifyOutcomes(u, p, count)
    <3> HIDE DEF p, count, u
    <3> QED
      BY <1>4, <1>5, <2>1, VerifyRange
  <2>2. CASE v = EINVAL
    BY <2>2, Errors DEF Verified
  <2> QED
    BY <1>1, <2>1, <2>2
<1> HIDE DEF u
<1> DEFINE long == Kind(c.f) = "plain" /\ Len(c.segs) > 1
<1>7. Segments(c, v) = IF long THEN c.segs ELSE <<v>>
  BY DEF Segments
<1>8. segs2 \in Seq(Nat) /\ ret2 \in Int /\ pc2 \in {"done", "call"}
  <2>1. v \in Int /\ (~ (v < 0) => v \in Nat /\ <<v>> \in Seq(Nat))
    BY <1>6 DEF Verified
  <2>2. <<>> \in Seq(Nat)
    OBVIOUS
  <2>3. segs2 \in Seq(Nat)
    BY <1>4, <1>7, <2>1, <2>2
  <2> QED
    BY <2>1, <2>3
<1>9. l2 \in Locals
  <2> HIDE DEF p, count, segs2, ret2, pc2
  <2> QED
    BY <1>4, <1>5, <1>8, IdleLocals DEF l2, Locals, RwLabels
<1>10. /\ l2.call = c /\ l2.pos = p /\ l2.ret = ret2 /\ l2.segs = segs2 /\ l2.pc = pc2 /\ l2.got = 0
  <2> HIDE DEF p, count, segs2, ret2, pc2
  <2> QED
    BY IdleLocals DEF l2, Idle
<1>11. CASE pc2 = "done"
  <2> HIDE DEF p, count, segs2, pc2, l2
  <2>1. CallPlace(sys, l2, k, i_size)
    BY <1>3, <1>4, <1>10, <1>11
    DEF CallPlace, RwLabels, SeekLabels, SendLabels, OutLabels, WaitLabels, RetryLabels
  <2>2. Accounts(sys, l2, k)
    <3>1. ret2 >= 0 => ret2 = 0
      BY <1>6 DEF Verified
    <3> QED
      BY <1>10, <1>11, <3>1 DEF Accounts, RwLabels, WaitLabels, RetryLabels
  <2>3. Room(sys, l2, k)
    BY <1>10, <1>11, Words DEF Room, RwLabels, WaitLabels, RetryLabels
  <2> QED
    BY <1>3, <1>9, <2>1, <2>2, <2>3, MovesOK DEF LocalOK
<1>12. CASE pc2 = "call"
  <2>1. ~ (v < 0) /\ ret2 = 0 /\ segs2 = IF long THEN c.segs ELSE <<v>>
    BY <1>7, <1>12
  <2>2. /\ segs2 # <<>> /\ (~ long => Len(segs2) = 1)
        /\ Total(segs2) \in Nat /\ Total(segs2) <= MAX_RW_COUNT /\ Addressable(u, p, Total(segs2))
    <3>1. CASE long
      <4>1. segs2 = c.segs /\ Len(c.segs) > 1 /\ Len(c.segs) # 1 /\ c.segs # <<>>
        BY <1>4, <2>1, <3>1, LongVector
      <4>2. Total(segs2) = count /\ count \in Nat /\ count <= MAX_RW_COUNT
        BY <1>4, <4>1, Words DEF size_t
      <4>3. Addressable(u, p, count)
        BY <1>6, <2>1 DEF Verified
      <4> HIDE DEF segs2, count
      <4> QED
        BY <3>1, <4>1, <4>2, <4>3
    <3>2. CASE ~ long
      <4>1. segs2 = <<v>> /\ v \in Nat
        BY <1>6, <2>1, <3>2 DEF Verified
      <4> HIDE DEF segs2
      <4>2. Len(segs2) = 1 /\ segs2[1] = v /\ segs2 # <<>>
        BY <4>1
      <4>3. Total(segs2) = v
        BY <1>8, <4>2, TotalOne
      <4>4. v <= MAX_RW_COUNT /\ Addressable(u, p, v)
        BY <1>6, <2>1 DEF Verified
      <4> QED
        BY <4>1, <4>2, <4>3, <4>4
    <3> QED
      BY <3>1, <3>2
  <2>3. sys.kind[c.f] # "plain" => ~ long
    BY DEF Kind
  <2> HIDE DEF p, count, segs2, pc2, l2, ret2, long
  <2>4. CallPlace(sys, l2, k, i_size)
    BY <1>3, <1>4, <1>10, <1>12, <2>2
    DEF CallPlace, RwLabels, SeekLabels, SendLabels, OutLabels, WaitLabels, RetryLabels
  <2>5. Accounts(sys, l2, k)
    BY <1>10, <1>12, <2>1, <2>2, <2>3 DEF Accounts, RwLabels, WaitLabels, RetryLabels
  <2>6. Room(sys, l2, k)
    <3>1. l2.got + Total(l2.segs) <= MAX_RW_COUNT /\ l2.got <= MAX_RW_COUNT
      BY <1>10, <2>2, Words
    <3> QED
      BY <1>10, <1>12, <2>2, <3>1 DEF Room, u
  <2> QED
    BY <1>3, <1>9, <2>4, <2>5, <2>6, MovesOK DEF LocalOK
<1> QED
  BY <1>11, <1>12

-----------------------------------------------------------------------------
\* A seek is in order wherever it is.
LEMMA InSeek ==
  ASSUME NEW s, NEW l \in Locals, l.pc \in SeekLabels, l.call \in SeekCalls,
         l.pc \in {"execute", "seek_store"} => l.val \in loff_t,
         NEW k \in Kiocbs, k.users = 1, k.owed # "complete", NEW size
  PROVE  LocalOK(s, l, k, size)
<1>1. CallPlace(s, l, k, size)
  BY DEF CallPlace, RwLabels, SeekLabels, SendLabels, OutLabels, WaitLabels, RetryLabels
<1>2. Accounts(s, l, k)
  BY DEF Accounts, RwLabels, WaitLabels, RetryLabels, SeekLabels
<1>3. Room(s, l, k)
  BY DEF Room, RwLabels, WaitLabels, RetryLabels, SeekLabels, SeekCalls
<1> QED
  BY <1>1, <1>2, <1>3 DEF LocalOK

LEMMA SeekEnters ==
  ASSUME Globals, LocalsInv, NEW t \in Threads, NEW c \in sys.calls[t], sys_lseek(t, c)
  PROVE  LocalsInv'
<1> DEFINE p  == IF SeekLock(c) = <<>> THEN "target" ELSE "lock"
           l2 == [Idle EXCEPT !.call = c, !.pc = p]
<1>1. Enter(t, c) /\ c.op = "seek" /\ th' = [th EXCEPT ![t] = l2]
  BY DEF sys_lseek
<1>2. p \in SeekLabels /\ p \notin {"execute", "seek_store"}
  BY DEF SeekLabels
<1> HIDE DEF p
<1>3. c \in SeekCalls /\ sys \in Systems
  BY <1>1, CallKinds DEF Globals
<1>4. l2 \in Locals /\ l2.pc = p /\ l2.call = c
  BY <1>2, <1>3, IdleLocals DEF Locals
<1> HIDE DEF l2
<1>5. /\ Moves(t) /\ th'[t] = l2 /\ kiocb'[t] = kiocb[t] /\ i_size' = i_size
      /\ kiocb[t] \in Kiocbs /\ kiocb[t].users = 1 /\ kiocb[t].owed # "complete"
  BY <1>1, Entering
<1>6. LocalOK(sys, l2, kiocb[t], i_size)
  BY <1>2, <1>3, <1>4, <1>5, InSeek
<1> QED
  BY <1>5, <1>6, MovesOK

LEMMA SeekEndsOK ==
  ASSUME Globals, LocalsInv, NEW t \in Threads, SeekEnds(t), th[t].pc \in SeekLabels
  PROVE  LocalsInv'
<1>1. /\ CallPlace(sys, th[t], kiocb[t], i_size) /\ DOMAIN th = Threads /\ DOMAIN kiocb = Threads
      /\ i_size \in [Files -> 0 .. Half - 1] /\ (\A g \in Files : i_size[g] <= i_size[g])
      /\ kiocb[t] \in Kiocbs
  BY Known
<1>2. kiocb[t].users = 1 /\ kiocb[t].owed # "complete"
  BY <1>1 DEF CallPlace, WaitLabels, SeekLabels
<1>3. Moves(t) /\ th'[t] = Idle /\ kiocb'[t] = kiocb[t] /\ i_size' = i_size
  BY <1>1 DEF SeekEnds, Moves
<1>4. LocalOK(sys, Idle, kiocb[t], i_size)
  BY <1>1, <1>2, IdleOK
<1> QED
  BY <1>3, <1>4, MovesOK

\* What seek_target computes.
SeekVal(c, size) ==
  CASE c.origin \in {SEEK_SET, SEEK_DATA} -> c.off
    [] c.origin = SEEK_CUR -> Signed(f_pos[c.f] + c.off)
    [] c.origin = SEEK_END -> Signed(size + c.off)
    [] c.origin = SEEK_HOLE -> size

LEMMA SeekValWord ==
  ASSUME Globals, NEW c \in SeekCalls
  PROVE  /\ c.f \in Files /\ c.off \in Int /\ f_pos[c.f] \in Int
         /\ SeekVal(c, i_size[c.f]) \in loff_t
         /\ c.origin = SEEK_CUR => SeekVal(c, i_size[c.f]) = Signed(f_pos[c.f] + c.off)
<1>1. c.f \in Files /\ c.off \in loff_t /\ c.origin \in 0 .. 4
  BY DEF SeekCalls, SEEK_SET, SEEK_HOLE
<1>2. c.off \in Int /\ f_pos[c.f] \in Int /\ i_size[c.f] \in Int /\ i_size[c.f] \in loff_t
  BY <1>1, Words DEF Globals, loff_t
<1> DEFINE a == f_pos[c.f] + c.off
           b == i_size[c.f] + c.off
<1>3. a \in Int /\ b \in Int
  BY <1>2
<1>4. Signed(a) \in loff_t /\ Signed(b) \in loff_t
  <2> HIDE DEF a, b
  <2> QED
    BY <1>3, SignedWord
<1>5. c.origin \in {0, 1, 2, 3, 4}
  BY <1>1
<1> QED
  BY <1>1, <1>2, <1>4, <1>5 DEF SeekVal, SEEK_SET, SEEK_CUR, SEEK_END, SEEK_DATA, SEEK_HOLE

LEMMA SeekSteps ==
  ASSUME Globals, LocalsInv, NEW t \in Threads,
         seek_lock(t) \/ seek_target(t) \/ lseek_execute(t) \/ seek_store(t)
  PROVE  LocalsInv'
<1> DEFINE l == th[t]
           k == kiocb[t]
           l2 == th'[t]
<1>1. /\ l \in Locals /\ k \in Kiocbs /\ CallPlace(sys, l, k, i_size)
      /\ DOMAIN th = Threads /\ DOMAIN kiocb = Threads
      /\ i_size \in [Files -> 0 .. Half - 1] /\ \A f \in Files : i_size[f] <= i_size[f]
  BY Known
<1>2. l.pc \in SeekLabels
  BY DEF seek_lock, seek_target, lseek_execute, seek_store, At, SeekLabels
<1>3. l.call \in SeekCalls /\ k.users = 1 /\ k.owed # "complete"
  BY <1>1, <1>2 DEF CallPlace, WaitLabels, SeekLabels
<1>4. \/ SeekEnds(t)
      \/ /\ \E p \in SeekLabels : Go(t, p) /\ (p \in {"execute", "seek_store"} => l.pc = "execute")
         /\ sys' = sys /\ i_size' = i_size /\ kiocb' = kiocb
      \/ /\ th' = [th EXCEPT ![t].pc = "execute", ![t].val = SeekVal(l.call, i_size[l.call.f])]
         /\ sys' = sys /\ i_size' = i_size /\ kiocb' = kiocb
  <2>1. CASE seek_lock(t)
    BY <2>1 DEF seek_lock, SeekLabels
  <2>2. CASE seek_target(t)
    BY <2>2 DEF seek_target, SeekVal
  <2>3. CASE lseek_execute(t)
    BY <2>3 DEF lseek_execute, SeekLabels, At
  <2>4. CASE seek_store(t)
    BY <2>4 DEF seek_store
  <2> QED
    BY <2>1, <2>2, <2>3, <2>4
<1>5. CASE SeekEnds(t)
  BY <1>2, <1>5, SeekEndsOK
<1>6. CASE /\ \E p \in SeekLabels : Go(t, p) /\ (p \in {"execute", "seek_store"} => l.pc = "execute")
           /\ sys' = sys /\ i_size' = i_size /\ kiocb' = kiocb
  <2>1. PICK p \in SeekLabels : Go(t, p) /\ (p \in {"execute", "seek_store"} => l.pc = "execute")
    BY <1>6
  <2>2. l2 = [l EXCEPT !.pc = p] /\ Moves(t)
    BY <1>1, <1>6, <2>1 DEF Go, Moves
  <2> HIDE DEF l, l2, k
  <2>3. l2 \in Locals /\ l2.pc = p /\ l2.call = l.call /\ l2.val = l.val
    BY <1>1, <2>2 DEF Locals
  <2>4. l2.pc \in {"execute", "seek_store"} => l2.val \in loff_t
    BY <1>1, <2>1, <2>3 DEF CallPlace
  <2>5. LocalOK(sys, l2, k, i_size)
    BY <1>1, <1>3, <2>3, <2>4, InSeek
  <2> QED
    BY <1>6, <2>2, <2>5, MovesOK DEF l2, k
<1>7. CASE /\ th' = [th EXCEPT ![t].pc = "execute", ![t].val = SeekVal(l.call, i_size[l.call.f])]
           /\ sys' = sys /\ i_size' = i_size /\ kiocb' = kiocb
  <2> DEFINE v == SeekVal(l.call, i_size[l.call.f])
  <2>1. v \in loff_t /\ v \in Int
    BY <1>3, SeekValWord, Words
  <2> HIDE DEF v
  <2>2. l2 = [l EXCEPT !.pc = "execute", !.val = v] /\ Moves(t)
    BY <1>1, <1>7 DEF Moves, v
  <2> HIDE DEF l, l2, k
  <2>3. l2 \in Locals /\ l2.pc = "execute" /\ l2.call = l.call /\ l2.val = v
    BY <1>1, <2>1, <2>2 DEF Locals, SeekLabels
  <2>4. LocalOK(sys, l2, k, i_size)
    BY <1>1, <1>3, <2>1, <2>3, InSeek DEF SeekLabels
  <2> QED
    BY <1>7, <2>2, <2>4, MovesOK DEF l2, k
<1> QED
  BY <1>4, <1>5, <1>6, <1>7

LEMMA ReturnStep ==
  ASSUME Globals, LocalsInv, NEW t \in Threads, Return(t)
  PROVE  LocalsInv'
<1>1. /\ DOMAIN th = Threads /\ DOMAIN kiocb = Threads
      /\ i_size \in [Files -> 0 .. Half - 1] /\ \A f \in Files : i_size[f] <= i_size[f]
  BY Known
<1>2. Moves(t) /\ th'[t] = Idle /\ kiocb'[t] = NewKiocb /\ i_size' = i_size
  BY <1>1 DEF Return, Moves
<1>3. NewKiocb \in Kiocbs /\ NewKiocb.users = 1 /\ NewKiocb.owed # "complete"
  BY DEF NewKiocb, Kiocbs
<1>4. LocalOK(sys, Idle, NewKiocb, i_size)
  BY <1>3, IdleOK
<1> QED
  BY <1>2, <1>4, MovesOK

-----------------------------------------------------------------------------
\* What a sendfile has where it is.
SendPlace(s, l, size) ==
  /\ l.pc \in {"splice"} \cup OutLabels => s.kind[l.call.f] = "regular"
  /\ l.pc \in OutLabels => l.n \in Nat /\ l.sd + l.n <= size[l.call.f]
  /\ l.pc \in OutLabels \ {"splice_from"} => l.call.out \notin s.append
  /\ l.pc \in {"add", "add_store"} => l.val \in 1 .. l.n
  /\ l.pc \in {"verify_out", "limit", "direct"} => l.got = 0
  /\ l.pc \in {"store_in", "check_max", "done"} /\ l.ret >= 0 => l.ret = l.got

LEMMA InSend ==
  ASSUME NEW s, NEW l \in Locals, l.pc \in SendLabels \cup {"done"}, l.call \in SendCalls,
         s.kind[l.call.out] = "regular", NEW k \in Kiocbs, k.users = 1, k.owed # "complete",
         NEW size, SendPlace(s, l, size)
  PROVE  LocalOK(s, l, k, size)
<1>1. CallPlace(s, l, k, size)
  BY DEF CallPlace, SendPlace, RwLabels, SeekLabels, SendLabels, OutLabels, WaitLabels, RetryLabels
<1>2. Accounts(s, l, k)
  BY DEF Accounts, SendPlace, RwLabels, WaitLabels, RetryLabels, SendLabels, OutLabels
<1>3. Room(s, l, k)
  BY DEF Room, RwLabels, WaitLabels, RetryLabels, SendLabels, OutLabels, SendCalls
<1> QED
  BY <1>1, <1>2, <1>3 DEF LocalOK

LEMMA SpliceEndsOK ==
  ASSUME NEW s, NEW l \in Locals, NEW code \in Int, code <= 0, NEW size
  PROVE  LET r == SpliceEnds(l, code)
         IN  /\ r \in Locals /\ r.pc = "store_in" /\ r.call = l.call /\ r.got = l.got
             /\ r.sd = l.sd /\ r.pos = l.pos /\ SendPlace(s, r, size)
             /\ r.ret > 0 => r.got > 0
<1> DEFINE r == SpliceEnds(l, code)
           ret2 == IF l.got > 0 THEN l.got ELSE code
<1>1. l.got \in Nat /\ ret2 \in Int
  BY DEF Locals
<1>2. (ret2 >= 0 => ret2 = l.got) /\ (ret2 > 0 => l.got > 0)
  BY <1>1
<1>3. r = [l EXCEPT !.pc = "store_in", !.ret = ret2]
  BY DEF SpliceEnds
<1> HIDE DEF r, ret2
<1>4. r \in Locals
  BY <1>1, <1>3 DEF Locals, SendLabels
<1>5. /\ r.pc = "store_in" /\ r.call = l.call /\ r.got = l.got /\ r.sd = l.sd /\ r.pos = l.pos /\ r.ret = ret2
  BY <1>3 DEF Locals
<1>6. SendPlace(s, r, size)
  BY <1>2, <1>5 DEF SendPlace, OutLabels
<1> QED
  BY <1>2, <1>4, <1>5, <1>6 DEF r

\* A step of a sendfile that leaves it in order.
LEMMA SendMoves ==
  ASSUME Globals, LocalsInv, NEW t \in Threads, th[t].pc \in SendLabels,
         NEW l2 \in Locals, th' = [th EXCEPT ![t] = l2],
         sys' = sys, kiocb' = kiocb,
         i_size' \in [Files -> 0 .. Half - 1], \A f \in Files : i_size[f] <= i_size'[f],
         l2.pc \in SendLabels \cup {"done"}, l2.call = th[t].call, SendPlace(sys, l2, i_size')
  PROVE  LocalsInv'
<1>1. /\ CallPlace(sys, th[t], kiocb[t], i_size) /\ DOMAIN th = Threads /\ DOMAIN kiocb = Threads
      /\ kiocb[t] \in Kiocbs
  BY Known
<1>2. /\ kiocb[t].users = 1 /\ kiocb[t].owed # "complete"
      /\ th[t].call \in SendCalls /\ sys.kind[th[t].call.out] = "regular"
  BY <1>1 DEF CallPlace, WaitLabels, SendLabels, OutLabels
<1>3. Moves(t) /\ th'[t] = l2 /\ kiocb'[t] = kiocb[t]
  BY <1>1 DEF Moves
<1>4. LocalOK(sys, l2, kiocb[t], i_size')
  BY <1>1, <1>2, InSend
<1> QED
  BY <1>3, <1>4, MovesOK

LEMMA SendEnters ==
  ASSUME Globals, LocalsInv, NEW t \in Threads, NEW c \in sys.calls[t], sys_sendfile(t, c)
  PROVE  LocalsInv'
<1> DEFINE p == IF c.positioned THEN c.at ELSE f_pos[c.f]
           u == c.f \in sys.unsigned
<1>1. PICK v \in VerifyOutcomes(u, p, c.count) :
           th' = [th EXCEPT ![t] = [Idle EXCEPT !.call = c, !.pos = c.at, !.len = v, !.ret = v,
                                                !.pc = IF v < 0 THEN "done" ELSE "verify_out"]]
  BY DEF sys_sendfile
<1> DEFINE pc2 == IF v < 0 THEN "done" ELSE "verify_out"
           l2 == [Idle EXCEPT !.call = c, !.pos = c.at, !.len = v, !.ret = v, !.pc = pc2]
<1>2. Enter(t, c) /\ c.op = "send" /\ th' = [th EXCEPT ![t] = l2]
  BY <1>1 DEF sys_sendfile
<1> HIDE DEF l2
<1>3. /\ Moves(t) /\ th'[t] = l2 /\ kiocb'[t] = kiocb[t] /\ i_size' = i_size
      /\ kiocb[t] \in Kiocbs /\ kiocb[t].users = 1 /\ kiocb[t].owed # "complete"
      /\ sys \in Systems /\ f_pos \in [Files -> loff_t]
  BY <1>2, Entering
<1>4. c \in SendCalls /\ sys.kind[c.out] = "regular"
  BY <1>2, <1>3, CallKinds
<1>5. p \in loff_t /\ u \in BOOLEAN /\ c.count \in size_t /\ c.at \in loff_t
  BY <1>3, <1>4 DEF SendCalls
<1>6. v \in Int
  <2>1. Verified(u, p, c.count, v)
    <3> HIDE DEF u, p
    <3> QED
      BY <1>5, VerifyRange
  <2> QED
    BY <2>1 DEF Verified
<1>7. l2 \in Locals
  BY <1>4, <1>5, <1>6, IdleLocals, ZenonT(30) DEF l2, Locals, SendLabels
<1>8. l2.call = c /\ l2.ret = v /\ l2.pc = pc2 /\ l2.got = 0
  BY DEF l2, Idle
<1>9. SendPlace(sys, l2, i_size)
  BY <1>6, <1>8 DEF SendPlace, OutLabels
<1>10. l2.pc \in SendLabels \cup {"done"}
  BY <1>8 DEF SendLabels
<1> HIDE DEF pc2
<1>11. LocalOK(sys, l2, kiocb[t], i_size)
  BY <1>3, <1>4, <1>7, <1>8, <1>9, <1>10, InSend
<1> QED
  BY <1>3, <1>11, MovesOK

\* The tests of a sendfile before anything is spliced.
LEMMA SendTests ==
  ASSUME Globals, LocalsInv, NEW t \in Threads, verify_out(t) \/ limit(t) \/ do_splice_direct(t)
  PROVE  LocalsInv'
<1> DEFINE l == th[t]
<1>1. /\ l \in Locals /\ CallPlace(sys, l, kiocb[t], i_size) /\ Accounts(sys, l, kiocb[t])
      /\ i_size \in [Files -> 0 .. Half - 1] /\ (\A f \in Files : i_size[f] <= i_size[f])
      /\ SystemOK(sys) /\ f_pos \in [Files -> loff_t]
  BY Known DEF Globals
<1>2. l.pc \in {"verify_out", "limit", "direct"} /\ sys' = sys /\ i_size' = i_size /\ kiocb' = kiocb
  BY DEF verify_out, limit, do_splice_direct, SendStep, At
<1>3. l.pc \in SendLabels /\ l.call \in SendCalls /\ l.got = 0
  BY <1>1, <1>2 DEF CallPlace, Accounts, SendLabels
<1>4. /\ l.call.f \in Files /\ l.call.out \in Files /\ l.len \in Int /\ l.pos \in loff_t
      /\ f_pos[l.call.out] \in loff_t /\ f_pos[l.call.f] \in loff_t
      /\ sys.maxbytes[l.call.f] \in Int /\ sys.maxbytes[l.call.out] \in Int
  <2>1. l.call.f \in Files /\ l.call.out \in Files
    BY <1>3 DEF SendCalls
  <2>2. l.len \in Int /\ l.pos \in loff_t
    BY <1>1 DEF Locals
  <2>3. sys.maxbytes \in [Files -> 0 .. Half - 1] /\ Half \in Nat
    BY <1>1, Words DEF SystemOK
  <2> HIDE DEF l
  <2> QED
    BY <1>1, <2>1, <2>2, <2>3
<1>5. InPos(l) \in loff_t /\ MaxSend(l.call) \in Int
  BY <1>4 DEF InPos, MaxSend, Least
<1>6. \E l2 \in Locals : /\ th' = [th EXCEPT ![t] = l2] /\ l2.call = l.call
                         /\ l2.pc \in SendLabels \cup {"done"} /\ SendPlace(sys, l2, i_size)
  <2>1. ASSUME NEW e \in Int, e < 0, SendFails(t, e)
        PROVE  \E l2 \in Locals : /\ th' = [th EXCEPT ![t] = l2] /\ l2.call = l.call
                                  /\ l2.pc \in SendLabels \cup {"done"} /\ SendPlace(sys, l2, i_size)
    <3> DEFINE l2 == [l EXCEPT !.pc = "done", !.ret = e]
    <3>1. th' = [th EXCEPT ![t] = l2]
      BY <2>1 DEF SendFails
    <3> HIDE DEF l
    <3>2. l2 \in Locals
      BY <1>1 DEF Locals
    <3>3. l2.call = l.call /\ l2.pc = "done" /\ l2.ret = e
      BY <1>1 DEF Locals
    <3> HIDE DEF l2
    <3>4. SendPlace(sys, l2, i_size)
      BY <2>1, <3>3 DEF SendPlace, OutLabels
    <3> QED
      BY <3>1, <3>2, <3>3, <3>4
  <2>2. ASSUME NEW p \in {"limit", "direct"}, NEW len \in Int,
               th' = [th EXCEPT ![t] = [l EXCEPT !.pc = p, !.len = len]]
        PROVE  \E l2 \in Locals : /\ th' = [th EXCEPT ![t] = l2] /\ l2.call = l.call
                                  /\ l2.pc \in SendLabels \cup {"done"} /\ SendPlace(sys, l2, i_size)
    <3> DEFINE l2 == [l EXCEPT !.pc = p, !.len = len]
    <3>1. th' = [th EXCEPT ![t] = l2]
      BY <2>2
    <3> HIDE DEF l
    <3>2. l2 \in Locals
      BY <1>1 DEF Locals, SendLabels
    <3>3. l2.call = l.call /\ l2.pc = p /\ l2.got = l.got
      BY <1>1 DEF Locals
    <3> HIDE DEF l2
    <3>4. SendPlace(sys, l2, i_size)
      BY <1>3, <3>3 DEF SendPlace, OutLabels
    <3> QED
      BY <3>1, <3>2, <3>3, <3>4 DEF SendLabels
  <2>3. CASE verify_out(t)
    <3> DEFINE u == l.call.out \in sys.unsigned
               q == f_pos[l.call.out]
    <3>1. PICK v \in VerifyOutcomes(u, q, l.len) :
            IF v < 0 THEN SendFails(t, v) ELSE th' = [th EXCEPT ![t].pc = "limit", ![t].len = v]
      BY <2>3 DEF verify_out
    <3>2. u \in BOOLEAN /\ q \in loff_t
      BY <1>4
    <3>3. v \in Int
      <4> HIDE DEF u, q
      <4> QED
        BY <1>4, <3>1, <3>2, VerifyInt
    <3>4. CASE v < 0
      BY <2>1, <3>1, <3>3, <3>4
    <3>5. CASE ~ (v < 0)
      <4>1. th' = [th EXCEPT ![t] = [l EXCEPT !.pc = "limit", !.len = v]]
        BY <3>1, <3>5
      <4> QED
        BY <2>2, <3>3, <4>1
    <3> QED
      BY <3>4, <3>5
  <2>4. CASE limit(t)
    <3> DEFINE p   == InPos(l)
               max == MaxSend(l.call)
    <3>1. IF Unsigned(p + l.len) > max
            THEN IF p >= max THEN SendFails(t, EOVERFLOW)
                 ELSE th' = [th EXCEPT ![t].pc = "direct", ![t].len = Unsigned(max - p)]
            ELSE Go(t, "direct")
      BY <2>4 DEF limit
    <3>2. Unsigned(max - p) \in Int
      <4>1. max - p \in Int
        BY <1>5, Words
      <4> HIDE DEF max, p
      <4> QED
        BY <4>1, Words DEF Unsigned
    <3>3. CASE SendFails(t, EOVERFLOW)
      BY <2>1, <3>3, Errors
    <3>4. CASE th' = [th EXCEPT ![t].pc = "direct", ![t].len = Unsigned(max - p)]
      <4> DEFINE n == Unsigned(max - p)
      <4>1. th' = [th EXCEPT ![t] = [l EXCEPT !.pc = "direct", !.len = n]] /\ n \in Int
        BY <3>2, <3>4
      <4> HIDE DEF n
      <4> QED
        BY <2>2, <4>1
    <3>5. CASE Go(t, "direct")
      <4>1. [l EXCEPT !.pc = "direct"] = [l EXCEPT !.pc = "direct", !.len = l.len]
        <5> HIDE DEF l
        <5> QED
          BY <1>1 DEF Locals
      <4>2. th' = [th EXCEPT ![t] = [l EXCEPT !.pc = "direct", !.len = l.len]]
        BY <3>5, <4>1 DEF Go
      <4> QED
        BY <1>4, <2>2, <4>2
    <3> QED
      BY <3>1, <3>3, <3>4, <3>5
  <2>5. CASE do_splice_direct(t)
    <3> DEFINE ip == InPos(l)
               m == [l EXCEPT !.pc = "splice", !.sd = ip, !.ret = 0]
    <3>1. PICK code \in IF Kind(m.call.f) # "regular" THEN {EINVAL} ELSE {0, ENOMEM} :
            th' = [th EXCEPT ![t] = IF code < 0 THEN SpliceEnds(m, code) ELSE m]
      BY <2>5 DEF do_splice_direct
    <3>6. ip \in loff_t /\ l \in Locals /\ 0 \in Int
      BY <1>1, <1>5
    <3> HIDE DEF l, ip
    <3>2. m \in Locals
      BY <3>6 DEF Locals, SendLabels
    <3>3. m.call = l.call /\ m.pc = "splice"
      BY <1>1 DEF Locals
    <3> HIDE DEF m
    <3>4. CASE code < 0
      <4> DEFINE r == SpliceEnds(m, code)
      <4>1. code \in Int /\ code <= 0
        BY <3>1, <3>4, Errors
      <4>2. r \in Locals /\ r.pc = "store_in" /\ r.call = m.call /\ SendPlace(sys, r, i_size)
        BY <3>2, <4>1, SpliceEndsOK
      <4>3. th' = [th EXCEPT ![t] = r]
        BY <3>1, <3>4
      <4> HIDE DEF r
      <4> QED
        BY <3>3, <4>2, <4>3 DEF SendLabels
    <3>5. CASE ~ (code < 0)
      <4>1. sys.kind[m.call.f] = "regular"
        BY <3>1, <3>5, Errors DEF Kind
      <4>2. SendPlace(sys, m, i_size)
        BY <3>3, <4>1 DEF SendPlace, OutLabels
      <4>3. th' = [th EXCEPT ![t] = m]
        BY <3>1, <3>5
      <4> QED
        BY <3>2, <3>3, <4>2, <4>3 DEF SendLabels
    <3> QED
      BY <3>4, <3>5
  <2> QED
    BY <2>3, <2>4, <2>5
<1> QED
  BY <1>1, <1>2, <1>3, <1>6, SendMoves

\* What is known of a sendfile in the loop of splice_direct_to_actor.
LEMMA Splicing ==
  ASSUME Globals, LocalsInv, NEW t \in Threads, th[t].pc \in {"splice"} \cup OutLabels
  PROVE  /\ th[t] \in Locals /\ th[t].pc \in SendLabels /\ th[t].call \in SendCalls
         /\ SendPlace(sys, th[t], i_size) /\ SystemOK(sys) /\ f_pos \in [Files -> loff_t]
         /\ i_size \in [Files -> 0 .. Half - 1] /\ (\A f \in Files : i_size[f] <= i_size[f])
         /\ th[t].call.f \in Files /\ th[t].call.out \in Files /\ th[t].sd \in loff_t
         /\ th[t].len \in Int /\ th[t].got \in Nat /\ th[t].n \in Int
         /\ sys.kind[th[t].call.f] = "regular" /\ sys.kind[th[t].call.out] = "regular"
<1> DEFINE l == th[t]
<1>1. /\ l \in Locals /\ CallPlace(sys, l, kiocb[t], i_size) /\ Accounts(sys, l, kiocb[t])
      /\ i_size \in [Files -> 0 .. Half - 1] /\ (\A f \in Files : i_size[f] <= i_size[f])
      /\ SystemOK(sys) /\ f_pos \in [Files -> loff_t] /\ l.pc \in {"splice"} \cup OutLabels
  BY Known DEF Globals
<1> HIDE DEF l
<1>2. l.pc \in SendLabels
  BY <1>1 DEF SendLabels
<1>3. /\ l.call \in SendCalls /\ sys.kind[l.call.f] = "regular" /\ sys.kind[l.call.out] = "regular"
  BY <1>1, <1>2 DEF CallPlace
<1>4. SendPlace(sys, l, i_size)
  BY <1>1 DEF CallPlace, SendPlace, OutLabels
<1>5. l.call.f \in Files /\ l.call.out \in Files
  BY <1>3 DEF SendCalls
<1>6. l.sd \in loff_t /\ l.len \in Int /\ l.got \in Nat /\ l.n \in Int
  BY <1>1 DEF Locals
<1> QED
  BY <1>1, <1>2, <1>3, <1>4, <1>5, <1>6 DEF l

\* The loop ends with nothing or an error.
LEMMA LoopEnds ==
  ASSUME Globals, LocalsInv, NEW t \in Threads, th[t].pc \in {"splice"} \cup OutLabels,
         NEW code \in Int, code <= 0, th' = [th EXCEPT ![t] = SpliceEnds(th[t], code)],
         sys' = sys, kiocb' = kiocb,
         i_size' \in [Files -> 0 .. Half - 1], \A f \in Files : i_size[f] <= i_size'[f]
  PROVE  LocalsInv'
<1> DEFINE r == SpliceEnds(th[t], code)
<1>1. th[t] \in Locals /\ th[t].pc \in SendLabels
  BY Splicing
<1>2. r \in Locals /\ r.pc = "store_in" /\ r.call = th[t].call /\ SendPlace(sys, r, i_size')
  BY <1>1, SpliceEndsOK
<1>3. th' = [th EXCEPT ![t] = r] /\ r.pc \in SendLabels \cup {"done"}
  BY <1>2 DEF SendLabels
<1> HIDE DEF r
<1> QED
  BY <1>1, <1>2, <1>3, SendMoves

LEMMA SpliceToOK ==
  ASSUME Globals, LocalsInv, NEW t \in Threads, do_splice_to(t)
  PROVE  LocalsInv'
<1> DEFINE l == th[t]
           f == l.call.f
           room == Greatest(i_size[f] - l.sd, 0)
           u == f \in sys.unsigned
<1>1. l.pc = "splice" /\ sys' = sys /\ i_size' = i_size /\ kiocb' = kiocb
  BY DEF do_splice_to, SendStep, At
<1>2. /\ l \in Locals /\ l.pc \in SendLabels /\ l.call \in SendCalls
      /\ i_size \in [Files -> 0 .. Half - 1] /\ (\A g \in Files : i_size[g] <= i_size[g])
      /\ f \in Files /\ l.sd \in loff_t /\ l.len \in Int /\ sys.kind[f] = "regular"
  BY <1>1, Splicing
<1>3. \/ \E code \in Int : code <= 0 /\ th' = [th EXCEPT ![t] = SpliceEnds(l, code)]
      \/ \E n \in Int : n > 0 /\ n <= room /\ th' = [th EXCEPT ![t] = [l EXCEPT !.pc = "splice_from", !.n = n]]
  <2>1. CASE l.len = 0
    <3>1. th' = [th EXCEPT ![t] = SpliceEnds(l, 0)]
      BY <2>1 DEF do_splice_to
    <3>2. 0 \in Int /\ 0 <= 0
      OBVIOUS
    <3> QED
      BY <3>1, <3>2
  <2>2. CASE l.len # 0
    <3>1. PICK v \in VerifyOutcomes(u, l.sd, l.len) :
                IF v < 0 THEN th' = [th EXCEPT ![t] = SpliceEnds(l, v)]
                ELSE \E n \in {EIO} \cup 0 .. Least(l.len, room) :
                       th' = [th EXCEPT ![t] = IF n <= 0 THEN SpliceEnds(l, n)
                                               ELSE [l EXCEPT !.pc = "splice_from", !.n = n]]
      BY <2>2 DEF do_splice_to
    <3>2. v \in Int
      <4>1. u \in BOOLEAN
        OBVIOUS
      <4> HIDE DEF u
      <4> QED
        BY <1>2, <3>1, <4>1, VerifyInt
    <3>3. CASE v < 0
      <4>1. th' = [th EXCEPT ![t] = SpliceEnds(l, v)] /\ v <= 0
        BY <3>1, <3>2, <3>3
      <4> QED
        BY <3>2, <4>1
    <3>4. CASE ~ (v < 0)
      <4>1. PICK n \in {EIO} \cup 0 .. Least(l.len, room) :
              th' = [th EXCEPT ![t] = IF n <= 0 THEN SpliceEnds(l, n)
                                      ELSE [l EXCEPT !.pc = "splice_from", !.n = n]]
        BY <3>1, <3>4
      <4>2. i_size[f] \in Int /\ room \in Int
        BY <1>2, Words DEF Greatest
      <4> HIDE DEF l, room
      <4>3. n \in Int /\ (n > 0 => n <= room)
        BY <1>2, <4>1, <4>2, Errors DEF Least
      <4>4. CASE n <= 0
        BY <4>1, <4>3, <4>4
      <4>5. CASE ~ (n <= 0)
        <5>1. n > 0 /\ n <= room
          BY <4>3, <4>5
        <5> QED
          BY <4>1, <4>3, <4>5, <5>1
      <4> QED
        BY <4>4, <4>5
    <3> QED
      BY <3>3, <3>4
  <2> QED
    BY <2>1, <2>2
<1>4. CASE \E code \in Int : code <= 0 /\ th' = [th EXCEPT ![t] = SpliceEnds(l, code)]
  BY <1>1, <1>2, <1>4, LoopEnds
<1>5. CASE \E n \in Int : n > 0 /\ n <= room /\ th' = [th EXCEPT ![t] = [l EXCEPT !.pc = "splice_from", !.n = n]]
  <2>1. PICK n \in Int : n > 0 /\ n <= room /\ th' = [th EXCEPT ![t] = [l EXCEPT !.pc = "splice_from", !.n = n]]
    BY <1>5
  <2> DEFINE l2 == [l EXCEPT !.pc = "splice_from", !.n = n]
  <2>2. i_size[f] \in Int /\ l.sd \in Int
    BY <1>2, Words
  <2>3. n \in Nat /\ l.sd + n <= i_size[f]
    <3> HIDE DEF l, f
    <3> QED
      BY <2>1, <2>2 DEF Greatest
  <2>4. th' = [th EXCEPT ![t] = l2] /\ l.call = th[t].call
    BY <2>1
  <2> HIDE DEF l, room
  <2>5. l2 \in Locals
    BY <1>2 DEF Locals, SendLabels, OutLabels
  <2>6. l2.pc = "splice_from" /\ l2.n = n /\ l2.sd = l.sd /\ l2.call = l.call
    BY <1>2 DEF Locals
  <2> HIDE DEF l2
  <2>7. SendPlace(sys, l2, i_size)
    BY <1>2, <2>3, <2>6 DEF SendPlace, OutLabels
  <2>8. l2.pc \in SendLabels \cup {"done"}
    BY <2>6 DEF SendLabels, OutLabels
  <2> QED
    BY <1>1, <1>2, <2>4, <2>5, <2>6, <2>7, <2>8, SendMoves DEF l
<1> QED
  BY <1>3, <1>4, <1>5

LEMMA SpliceFromOK ==
  ASSUME Globals, LocalsInv, NEW t \in Threads, do_splice_from(t)
  PROVE  LocalsInv'
<1> DEFINE l == th[t]
           out == l.call.out
           u == out \in sys.unsigned
           q == f_pos[out]
<1>1. l.pc = "splice_from" /\ l.pc \in OutLabels /\ sys' = sys /\ i_size' = i_size /\ kiocb' = kiocb
  BY DEF do_splice_from, SendStep, At, OutLabels
<1>2. /\ l \in Locals /\ l.pc \in SendLabels /\ SendPlace(sys, l, i_size) /\ l.n \in Int
      /\ i_size \in [Files -> 0 .. Half - 1] /\ (\A g \in Files : i_size[g] <= i_size[g])
      /\ out \in Files /\ f_pos \in [Files -> loff_t]
  BY <1>1, Splicing
<1>3. PICK v \in VerifyOutcomes(u, q, l.n) :
        th' = [th EXCEPT ![t] = IF out \in sys.append THEN SpliceEnds(l, EINVAL)
                                ELSE IF v < 0 THEN SpliceEnds(l, v)
                                ELSE [l EXCEPT !.pc = "splice_write"]]
  BY DEF do_splice_from
<1>4. v \in Int
  <2>1. u \in BOOLEAN /\ q \in loff_t
    BY <1>2
  <2> HIDE DEF u, q
  <2> QED
    BY <1>2, <1>3, <2>1, VerifyInt
<1>5. CASE out \in sys.append
  <2>1. th' = [th EXCEPT ![t] = SpliceEnds(l, EINVAL)] /\ EINVAL \in Int /\ EINVAL <= 0
    BY <1>3, <1>5, Errors
  <2> QED
    BY <1>1, <1>2, <2>1, LoopEnds
<1>6. CASE out \notin sys.append /\ v < 0
  <2>1. th' = [th EXCEPT ![t] = SpliceEnds(l, v)] /\ v <= 0
    BY <1>3, <1>4, <1>6
  <2> QED
    BY <1>1, <1>2, <1>4, <2>1, LoopEnds
<1>7. CASE out \notin sys.append /\ ~ (v < 0)
  <2> DEFINE l2 == [l EXCEPT !.pc = "splice_write"]
  <2>1. th' = [th EXCEPT ![t] = l2]
    BY <1>3, <1>7
  <2> HIDE DEF l
  <2>2. l2 \in Locals
    BY <1>2 DEF Locals, SendLabels, OutLabels
  <2>3. l2.pc = "splice_write" /\ l2.n = l.n /\ l2.sd = l.sd /\ l2.call = l.call
    BY <1>2 DEF Locals
  <2> HIDE DEF l2
  <2>4. SendPlace(sys, l2, i_size)
    BY <1>1, <1>2, <1>7, <2>3 DEF SendPlace, OutLabels
  <2>5. l2.pc \in SendLabels \cup {"done"}
    BY <2>3 DEF SendLabels, OutLabels
  <2> QED
    BY <1>1, <1>2, <2>1, <2>2, <2>3, <2>4, <2>5, SendMoves DEF l
<1> QED
  BY <1>5, <1>6, <1>7

\* A splice that would wrap does not change the size.
LEMMA SpliceGrows ==
  ASSUME Globals, LocalsInv, NEW t \in Threads, splice_write(t)
  PROVE  i_size' \in [Files -> 0 .. Half - 1] /\ \A g \in Files : i_size[g] <= i_size'[g]
<1> DEFINE l == th[t]
           out == l.call.out
<1>1. l.pc = "splice_write" /\ l.pc \in OutLabels
  BY DEF splice_write, At, OutLabels
<1>2. /\ SendPlace(sys, l, i_size) /\ i_size \in [Files -> 0 .. Half - 1]
      /\ out \in Files /\ f_pos \in [Files -> loff_t]
  BY <1>1, Splicing
<1>3. PICK m \in 0 .. l.n :
        i_size' = [i_size EXCEPT ![out] = IF m > 0 THEN Greatest(@, Signed(f_pos[out] + m)) ELSE @]
  BY DEF splice_write
<1>4. m \in Nat
  BY <1>1, <1>2, <1>3 DEF SendPlace
<1> DEFINE w == Signed(f_pos[out] + m)
           a == i_size[out]
           new == IF m > 0 THEN Greatest(a, w) ELSE a
<1>5. f_pos[out] + m \in Int
  BY <1>2, <1>4, Words
<1>6. w \in loff_t
  BY <1>5, SignedWord
<1>7. w \in Int /\ w <= Half - 1 /\ a \in 0 .. Half - 1 /\ Half \in Nat
  <2>1. w \in Int /\ w < Half /\ Half \in Nat
    <3> HIDE DEF w
    <3> QED
      BY <1>6, Words
  <2> HIDE DEF w
  <2> QED
    BY <1>2, <2>1
<1>8. i_size' = [i_size EXCEPT ![out] = new]
  BY <1>3
<1> HIDE DEF w, a
<1>9. new \in 0 .. Half - 1 /\ a <= new
  BY <1>7 DEF Greatest
<1> HIDE DEF new
<1>10. \A g \in Files : i_size[g] \in Int
  BY <1>2, Words
<1>11. i_size[out] <= new
  BY <1>9 DEF a
<1> HIDE DEF l, out
<1> QED
  BY <1>2, <1>8, <1>9, <1>10, <1>11

LEMMA SpliceWriteOK ==
  ASSUME Globals, LocalsInv, NEW t \in Threads, splice_write(t)
  PROVE  LocalsInv'
<1> DEFINE l == th[t]
           out == l.call.out
<1>1. l.pc = "splice_write" /\ l.pc \in OutLabels /\ sys' = sys /\ kiocb' = kiocb
  BY DEF splice_write, At, OutLabels
<1>2. /\ l \in Locals /\ l.pc \in SendLabels /\ SendPlace(sys, l, i_size) /\ l.n \in Int
      /\ i_size \in [Files -> 0 .. Half - 1]
      /\ out \in Files /\ f_pos \in [Files -> loff_t] /\ l.call.f \in Files /\ l.sd \in loff_t
  BY <1>1, Splicing
<1>3. PICK m \in 0 .. l.n : \E synced \in BOOLEAN :
        /\ i_size' = [i_size EXCEPT ![out] = IF m > 0 THEN Greatest(@, Signed(f_pos[out] + m)) ELSE @]
        /\ th' = [th EXCEPT ![t] = IF m = 0 \/ ~ synced THEN SpliceEnds(l, EIO)
                                   ELSE [l EXCEPT !.pc = "add", !.from = f_pos[out], !.val = m]]
  BY DEF splice_write
<1>4. l.n \in Nat /\ l.sd + l.n <= i_size[l.call.f] /\ out \notin sys.append
  BY <1>1, <1>2 DEF SendPlace, OutLabels
<1>5. m \in Nat /\ m <= l.n
  BY <1>3, <1>4
<1>6. i_size' \in [Files -> 0 .. Half - 1] /\ \A g \in Files : i_size[g] <= i_size'[g]
  BY SpliceGrows
<1>7. CASE th' = [th EXCEPT ![t] = SpliceEnds(l, EIO)]
  <2>1. EIO \in Int /\ EIO <= 0
    BY Errors
  <2> QED
    BY <1>1, <1>6, <1>7, <2>1, LoopEnds
<1>8. CASE m # 0 /\ th' = [th EXCEPT ![t] = [l EXCEPT !.pc = "add", !.from = f_pos[out], !.val = m]]
  <2> DEFINE p == f_pos[out]
             l2 == [l EXCEPT !.pc = "add", !.from = p, !.val = m]
  <2>1. th' = [th EXCEPT ![t] = l2] /\ l \in Locals
    BY <1>2, <1>8
  <2>2. p \in Int /\ m \in Int
    BY <1>2, <1>5, Words
  <2> HIDE DEF l, p
  <2>3. l2 \in Locals
    BY <2>1, <2>2 DEF Locals, SendLabels, OutLabels
  <2>4. l2.pc = "add" /\ l2.n = l.n /\ l2.sd = l.sd /\ l2.call = l.call /\ l2.val = m
    BY <2>1 DEF Locals
  <2> HIDE DEF l2
  <2>5. l.sd + l.n <= i_size'[l.call.f]
    <3>1. l.sd + l.n \in Int /\ i_size[l.call.f] \in Int /\ i_size'[l.call.f] \in Int
          /\ i_size[l.call.f] <= i_size'[l.call.f]
      BY <1>2, <1>4, <1>6, Words
    <3> QED
      BY <1>4, <3>1
  <2>6. m \in 1 .. l.n /\ sys.kind[l.call.f] = "regular"
    BY <1>1, <1>2, <1>4, <1>5, <1>8 DEF SendPlace
  <2>7. SendPlace(sys, l2, i_size')
    BY <1>4, <2>4, <2>5, <2>6 DEF SendPlace, OutLabels, out
  <2>8. l2.pc \in SendLabels \cup {"done"}
    BY <2>4 DEF SendLabels, OutLabels
  <2> QED
    BY <1>1, <1>2, <1>6, <2>1, <2>3, <2>4, <2>7, <2>8, SendMoves DEF l
<1> QED
  BY <1>3, <1>7, <1>8

LEMMA AddOK ==
  ASSUME Globals, LocalsInv, NEW t \in Threads, load_out(t) \/ store_out(t)
  PROVE  LocalsInv'
<1> DEFINE l == th[t]
           out == l.call.out
<1>1. l.pc \in {"add", "add_store"} /\ l.pc \in OutLabels /\ sys' = sys /\ kiocb' = kiocb /\ i_size' = i_size
  BY DEF load_out, store_out, SendStep, At, OutLabels
<1>2. /\ l \in Locals /\ l.pc \in SendLabels /\ SendPlace(sys, l, i_size) /\ l.n \in Int
      /\ i_size \in [Files -> 0 .. Half - 1] /\ (\A g \in Files : i_size[g] <= i_size[g])
      /\ out \in Files /\ f_pos \in [Files -> loff_t] /\ l.call.f \in Files /\ l.sd \in loff_t
      /\ l.got \in Nat /\ l.len \in Int /\ sys.kind[l.call.f] = "regular"
  BY <1>1, Splicing
<1>3. l.n \in Nat /\ l.sd + l.n <= i_size[l.call.f] /\ out \notin sys.append /\ l.val \in 1 .. l.n
  BY <1>1, <1>2 DEF SendPlace, OutLabels
<1>4. CASE load_out(t)
  <2> DEFINE p == f_pos[out]
             l2 == [l EXCEPT !.pc = "add_store", !.old = p]
  <2>1. th' = [th EXCEPT ![t] = l2] /\ l \in Locals
    BY <1>2, <1>4 DEF load_out
  <2>2. p \in Int
    BY <1>2, Words
  <2> HIDE DEF l, p
  <2>3. l2 \in Locals
    BY <2>1, <2>2 DEF Locals, SendLabels, OutLabels
  <2>4. l2.pc = "add_store" /\ l2.n = l.n /\ l2.sd = l.sd /\ l2.call = l.call /\ l2.val = l.val
    BY <2>1 DEF Locals
  <2> HIDE DEF l2
  <2>5. SendPlace(sys, l2, i_size)
    BY <1>2, <1>3, <2>4 DEF SendPlace, OutLabels, out
  <2>6. l2.pc \in SendLabels \cup {"done"}
    BY <2>4 DEF SendLabels, OutLabels
  <2> QED
    BY <1>1, <1>2, <2>1, <2>3, <2>4, <2>5, <2>6, SendMoves DEF l
<1>5. CASE store_out(t)
  <2> DEFINE got2 == l.got + l.val
             len2 == l.len - l.val
             sd2 == l.sd + l.val
             l2 == [l EXCEPT !.got = got2, !.len = len2, !.sd = sd2, !.pc = "splice"]
  <2>1. th' = [th EXCEPT ![t] = IF l.val < l.n THEN SpliceEnds(l2, 0) ELSE l2] /\ l \in Locals
    BY <1>2, <1>5 DEF store_out, AfterActor
  <2>2. got2 \in Nat /\ len2 \in Int /\ sd2 \in loff_t
    <3>1. l.val \in Nat /\ l.val <= l.n /\ l.sd \in Int /\ -Half <= l.sd /\ i_size[l.call.f] \in Int /\ i_size[l.call.f] < Half
      BY <1>2, <1>3, Words
    <3> HIDE DEF l
    <3>2. sd2 \in Int /\ -Half <= sd2 /\ sd2 < Half
      BY <1>3, <3>1, Words
    <3>3. sd2 \in loff_t
      <4> HIDE DEF sd2
      <4> QED
        BY <3>2, Words
    <3> QED
      BY <1>2, <3>1, <3>3
  <2> HIDE DEF l, got2, len2, sd2
  <2>3. l2 \in Locals
    BY <2>1, <2>2 DEF Locals, SendLabels
  <2>4. l2.pc = "splice" /\ l2.call = l.call
    BY <2>1 DEF Locals
  <2> HIDE DEF l2
  <2>5. CASE l.val < l.n
    <3> DEFINE r == SpliceEnds(l2, 0)
    <3>1. r \in Locals /\ r.pc = "store_in" /\ r.call = l2.call /\ SendPlace(sys, r, i_size)
      BY <2>3, SpliceEndsOK
    <3>2. th' = [th EXCEPT ![t] = r]
      BY <2>1, <2>5
    <3> HIDE DEF r
    <3> QED
      BY <1>1, <1>2, <2>4, <3>1, <3>2, SendMoves DEF l, SendLabels
  <2>6. CASE ~ (l.val < l.n)
    <3>1. SendPlace(sys, l2, i_size)
      BY <1>2, <2>4 DEF SendPlace, OutLabels
    <3>2. th' = [th EXCEPT ![t] = l2]
      BY <2>1, <2>6
    <3> QED
      BY <1>1, <1>2, <2>3, <2>4, <3>1, <3>2, SendMoves DEF l, SendLabels
  <2> QED
    BY <2>5, <2>6
<1> QED
  BY <1>4, <1>5

LEMMA SendEndsOK ==
  ASSUME Globals, LocalsInv, NEW t \in Threads, store_in(t) \/ check_max(t)
  PROVE  LocalsInv'
<1> DEFINE l == th[t]
<1>1. /\ l \in Locals /\ CallPlace(sys, l, kiocb[t], i_size) /\ Accounts(sys, l, kiocb[t])
      /\ i_size \in [Files -> 0 .. Half - 1] /\ (\A f \in Files : i_size[f] <= i_size[f])
  BY Known
<1>2. l.pc \in {"store_in", "check_max"} /\ sys' = sys /\ i_size' = i_size /\ kiocb' = kiocb
  BY DEF store_in, check_max, SendStep, At
<1>3. l.pc \in SendLabels /\ l.call \in SendCalls /\ (l.ret >= 0 => l.ret = l.got)
  BY <1>1, <1>2 DEF CallPlace, Accounts, SendLabels
<1>4. l.pos \in loff_t /\ l.sd \in loff_t /\ l.ret \in Int
  BY <1>1 DEF Locals
<1>5. CASE store_in(t)
  <2> DEFINE p == IF l.ret > 0 THEN l.sd ELSE l.pos
             l2 == [l EXCEPT !.pc = "check_max", !.pos = p]
  <2>1. th' = [th EXCEPT ![t] = l2] /\ l \in Locals
    BY <1>1, <1>5 DEF store_in
  <2>2. p \in loff_t
    BY <1>4
  <2> HIDE DEF l, p
  <2>3. l2 \in Locals
    BY <2>1, <2>2 DEF Locals, SendLabels
  <2>4. l2.pc = "check_max" /\ l2.call = l.call /\ l2.ret = l.ret /\ l2.got = l.got
    BY <2>1 DEF Locals
  <2> HIDE DEF l2
  <2>5. SendPlace(sys, l2, i_size)
    BY <1>3, <2>4 DEF SendPlace, OutLabels
  <2> QED
    BY <1>1, <1>2, <1>3, <2>1, <2>3, <2>4, <2>5, SendMoves DEF l, SendLabels
<1>6. CASE check_max(t)
  <2> DEFINE v == IF InPos(l) > MaxSend(l.call) THEN EOVERFLOW ELSE l.ret
             l2 == [l EXCEPT !.pc = "done", !.ret = v]
  <2>1. th' = [th EXCEPT ![t] = l2] /\ l \in Locals
    BY <1>1, <1>6 DEF check_max
  <2>2. v \in Int /\ (v >= 0 => v = l.got)
    BY <1>3, <1>4, Errors
  <2> HIDE DEF l, v
  <2>3. l2 \in Locals
    BY <2>1, <2>2 DEF Locals
  <2>4. l2.pc = "done" /\ l2.call = l.call /\ l2.ret = v /\ l2.got = l.got
    BY <2>1 DEF Locals
  <2> HIDE DEF l2
  <2>5. SendPlace(sys, l2, i_size)
    BY <2>2, <2>4 DEF SendPlace, OutLabels
  <2> QED
    BY <1>1, <1>2, <1>3, <2>1, <2>3, <2>4, <2>5, SendMoves DEF l
<1> QED
  BY <1>5, <1>6

\* Every step leaves every call in order.
LEMMA LocalsStep ==
  ASSUME Globals, LocalsInv, [Next]_vars
  PROVE  LocalsInv'
<1>1. CASE UNCHANGED vars
  BY <1>1 DEF vars, LocalsInv
<1>2. CASE Next
  <2>1. PICK t \in Threads : Call(t) \/ Step(t) \/ Promise(t)
    BY <1>2 DEF Next
  <2>2. CASE Call(t)
    <3>1. PICK c \in sys.calls[t] : sys_rw(t, c) \/ sys_lseek(t, c) \/ sys_sendfile(t, c)
      BY <2>2 DEF Call
    <3> QED
      BY <3>1, RwEnters, SeekEnters, SendEnters
  <2>3. CASE Step(t)
    BY <2>3, ReadSteps, AsyncSteps, WriteSteps, RetrySteps, WaitSteps, SeekSteps, SendTests,
       SpliceToOK, SpliceFromOK, SpliceWriteOK, AddOK, SendEndsOK, ReturnStep DEF Step
  <2>4. CASE Promise(t)
    BY <2>4, PromiseSteps
  <2> QED
    BY <2>1, <2>2, <2>3, <2>4
<1> QED
  BY <1>1, <1>2

-----------------------------------------------------------------------------
\* What a step of a thread leaves alone, unless it is one of a few.
Footprint(t) ==
  /\ sys' = sys
  /\ \A u \in Threads \ {t} : th'[u] = th[u]
  /\ f_pos' = f_pos \/ Return(t) \/ seek_store(t) \/ store_out(t) \/ store_in(t)
  /\ i_size' = i_size \/ generic_file_buffered_write(t) \/ splice_write(t)
  /\ holder' = holder \/ lock_inode(t) \/ generic_write_checks(t) \/ generic_file_buffered_write(t)
                      \/ seek_lock(t) \/ (SeekEnds(t) /\ th[t].pc \in {"target", "execute", "seek_store"})
  /\ task' = task \/ \E u \in Threads, s \in {"running", "uninterruptible"} : task' = [task EXCEPT ![u] = s]
  /\ wakes' = wakes \/ wakes' = [wakes EXCEPT ![t] = @ + 1] \/ wake_up_process(t)
  /\ left' = left \/ (Call(t) /\ left[t] > 0 /\ left' = [left EXCEPT ![t] = @ - 1])
  /\ touched' = touched \/ generic_file_aio_read(t) \/ plain_method(t) \/ async_method(t)
                        \/ generic_file_buffered_write(t) \/ aio_complete(t) \/ splice_write(t)
  /\ bases' = bases \/ generic_file_buffered_write(t) \/ lseek_execute(t) \/ seek_store(t) \/ store_out(t)
  /\ moved' = moved \/ lseek_execute(t) \/ seek_store(t)
  /\ only_cur' = only_cur \/ Call(t)
  /\ grown' = grown \/ generic_file_buffered_write(t)

LEMMA FootprintOK ==
  ASSUME LocalsInv, NEW t \in Threads, Call(t) \/ Step(t) \/ Promise(t)
  PROVE  Footprint(t)
<1>1. DOMAIN th = Threads
  BY DEF LocalsInv
<1>2. CASE Call(t)
  <2>1. PICK c \in sys.calls[t] : sys_rw(t, c) \/ sys_lseek(t, c) \/ sys_sendfile(t, c)
    BY <1>2 DEF Call
  <2>2. Enter(t, c)
    BY <2>1 DEF sys_rw, sys_lseek, sys_sendfile
  <2>3. \A u \in Threads \ {t} : th'[u] = th[u]
    <3>1. CASE sys_rw(t, c)
      BY <1>1, <3>1 DEF sys_rw
    <3>2. CASE sys_lseek(t, c)
      BY <1>1, <3>2 DEF sys_lseek
    <3>3. CASE sys_sendfile(t, c)
      BY <1>1, <3>3 DEF sys_sendfile
    <3> QED
      BY <2>1, <3>1, <3>2, <3>3
  <2> QED
    BY <1>2, <2>2, <2>3 DEF Enter, Footprint
<1>3. CASE Step(t)
  <2>1. CASE generic_file_aio_read(t)
    BY <1>1, <2>1 DEF generic_file_aio_read, Footprint, history, MethodReturns, Record
  <2>2. CASE plain_method(t)
    BY <1>1, <2>2 DEF plain_method, Footprint, history, MethodReturns, Record
  <2>3. CASE async_method(t)
    BY <1>1, <2>3 DEF async_method, Footprint, history, MethodReturns, Record, Go
  <2>4. CASE lock_inode(t)
    BY <1>1, <2>4 DEF lock_inode, Footprint, history, Go
  <2>5. CASE generic_write_checks(t)
    BY <1>1, <2>5 DEF generic_write_checks, Footprint, history
  <2>6. CASE generic_file_buffered_write(t)
    BY <1>1, <2>6 DEF generic_file_buffered_write, Footprint, history
  <2>7. CASE retry_prepare(t)
    BY <1>1, <2>7 DEF retry_prepare, Footprint, history, Go
  <2>8. CASE retry_test(t)
    BY <1>1, <2>8 DEF retry_test, Footprint, history, Go
  <2>9. CASE retry_wake(t)
    BY <1>1, <2>9 DEF retry_wake, Footprint, history, Go
  <2>10. CASE wait_on_sync_kiocb(t)
    BY <1>1, <2>10 DEF wait_on_sync_kiocb, Footprint, history, Go, Completed
  <2>11. CASE wait_test(t)
    BY <1>1, <2>11 DEF wait_test, Footprint, history, Go, Completed
  <2>12. CASE wait_wake(t)
    BY <1>1, <2>12 DEF wait_wake, Footprint, history, Go
  <2>13. CASE seek_lock(t)
    BY <1>1, <2>13 DEF seek_lock, Footprint, history, Go
  <2>14. CASE seek_target(t)
    BY <1>1, <2>14 DEF seek_target, Footprint, history, At, SeekEnds
  <2>15. CASE lseek_execute(t)
    BY <1>1, <2>15 DEF lseek_execute, Footprint, history, At, SeekEnds, SeekSucceeds, Go
  <2>16. CASE seek_store(t)
    BY <1>1, <2>16 DEF seek_store, Footprint, history, At, SeekEnds, SeekSucceeds
  <2>17. CASE verify_out(t)
    BY <1>1, <2>17 DEF verify_out, Footprint, history, SendStep, SendFails
  <2>18. CASE limit(t)
    BY <1>1, <2>18 DEF limit, Footprint, history, SendStep, SendFails, Go
  <2>19. CASE do_splice_direct(t)
    BY <1>1, <2>19 DEF do_splice_direct, Footprint, history, SendStep
  <2>20. CASE do_splice_to(t)
    BY <1>1, <2>20 DEF do_splice_to, Footprint, history, SendStep
  <2>21. CASE do_splice_from(t)
    BY <1>1, <2>21 DEF do_splice_from, Footprint, history, SendStep
  <2>22. CASE splice_write(t)
    BY <1>1, <2>22 DEF splice_write, Footprint, history
  <2>23. CASE load_out(t)
    BY <1>1, <2>23 DEF load_out, Footprint, history, SendStep
  <2>24. CASE store_out(t)
    BY <1>1, <2>24 DEF store_out, Footprint, history, SendStep
  <2>25. CASE store_in(t)
    BY <1>1, <2>25 DEF store_in, Footprint, history, SendStep
  <2>26. CASE check_max(t)
    BY <1>1, <2>26 DEF check_max, Footprint, history, SendStep
  <2>27. CASE Return(t)
    BY <1>1, <2>27 DEF Return, Footprint, history
  <2> QED
    BY <1>3, <2>1, <2>2, <2>3, <2>4, <2>5, <2>6, <2>7, <2>8, <2>9, <2>10, <2>11, <2>12, <2>13, <2>14, <2>15, <2>16, <2>17, <2>18, <2>19, <2>20, <2>21, <2>22, <2>23, <2>24, <2>25, <2>26, <2>27 DEF Step
<1>4. CASE Promise(t)
  <2>1. CASE kick_iocb(t)
    BY <1>1, <2>1 DEF kick_iocb, Footprint, history
  <2>2. CASE aio_complete(t)
    BY <1>1, <2>2 DEF aio_complete, Footprint, history, Record
  <2>3. CASE wake_up_process(t)
    BY <1>1, <2>3 DEF wake_up_process, Footprint, history
  <2> QED
    BY <1>4, <2>1, <2>2, <2>3 DEF Promise
<1> QED
  BY <1>2, <1>3, <1>4

-----------------------------------------------------------------------------
\* Offsets are numbers.
LEMMA OffsetsInt ==
  ASSUME NEW f
  PROVE  /\ \A p \in Int : Offset(f, p) \in Int
         /\ \A from \in Int, n \in Int : Offsets(f, from, n) \subseteq Int
<1>1. \A p \in Int : Unsigned(p) \in Int
  BY Words DEF Unsigned
<1>2. \A p \in Int : Offset(f, p) \in Int
  BY <1>1 DEF Offset
<1>3. ASSUME NEW from \in Int, NEW n \in Int PROVE Offsets(f, from, n) \subseteq Int
  <2>1. \A i \in 0 .. n - 1 : from + i \in Int
    OBVIOUS
  <2>2. \A i \in 0 .. n - 1 : Signed(from + i) \in Int
    BY <2>1, SignedWord
  <2> QED
    BY <1>2, <2>2 DEF Offsets
<1> QED
  BY <1>2, <1>3

\* The file of a call.
LEMMA CallFiles ==
  ASSUME Globals, LocalsInv, NEW t \in Threads
  PROVE  /\ th[t].pc \in RwLabels \cup SeekLabels \cup SendLabels \cup {"done"} => th[t].call.f \in Files
         /\ th[t].pc \in SendLabels => th[t].call.out \in Files
         /\ th[t].pos \in Int /\ th[t].from \in Int /\ th[t].val \in Int /\ th[t].sd \in Int
         /\ th[t].old \in Int /\ th[t].n \in Int
         /\ th[t].pos \in loff_t /\ th[t].sd \in loff_t
<1> DEFINE l == th[t]
<1>1. l \in Locals /\ CallPlace(sys, l, kiocb[t], i_size)
  BY Known
<1> HIDE DEF l
<1>2. /\ l.pc \in RwLabels => l.call \in RwCalls
      /\ l.pc \in SeekLabels => l.call \in SeekCalls
      /\ l.pc \in SendLabels => l.call \in SendCalls
      /\ l.pc = "done" => l.call \in RwCalls \cup SendCalls
  BY <1>1 DEF CallPlace
<1>3. /\ l.pc \in RwLabels \cup SeekLabels \cup SendLabels \cup {"done"} => l.call.f \in Files
      /\ l.pc \in SendLabels => l.call.out \in Files
  BY <1>2 DEF RwCalls, SeekCalls, SendCalls
<1>4. /\ l.pos \in Int /\ l.from \in Int /\ l.val \in Int /\ l.sd \in Int /\ l.old \in Int /\ l.n \in Int
      /\ l.pos \in loff_t /\ l.sd \in loff_t
  BY <1>1, Words DEF Locals
<1> QED
  BY <1>3, <1>4 DEF l

\* What was transferred stays transferred.
LEMMA TouchedGrows ==
  ASSUME Globals, LocalsInv, NEW t \in Threads, Footprint(t)
  PROVE  touched' \in [Files -> SUBSET Int] /\ \A g \in Files : touched[g] \subseteq touched'[g]
<1>1. touched \in [Files -> SUBSET Int] /\ f_pos \in [Files -> Int]
  BY Words DEF Globals
<1>2. ASSUME NEW f \in Files, NEW from \in Int, NEW m \in Int,
             touched' = [touched EXCEPT ![f] = @ \cup Offsets(f, from, m)]
      PROVE  touched' \in [Files -> SUBSET Int] /\ \A g \in Files : touched[g] \subseteq touched'[g]
  BY <1>1, <1>2, OffsetsInt
<1>3. ASSUME At(t, "call"), \E n, m \in Int : MethodReturns(t, n, m)
      PROVE  touched' \in [Files -> SUBSET Int] /\ \A g \in Files : touched[g] \subseteq touched'[g]
  <2>1. PICK m \in Int : Record(File(t), th[t].pos, m)
    BY <1>3 DEF MethodReturns
  <2>2. th[t].call.f \in Files /\ th[t].pos \in Int
    BY <1>3, CallFiles DEF At, RwLabels
  <2> QED
    BY <1>2, <2>1, <2>2 DEF Record, File
<1>4. \A n \in MethodResults(t) : Bytes(n) \in Int /\ n \in Int
  <2>1. \A n \in MethodResults(t) : n \in Int
    BY Errors DEF MethodResults
  <2> QED
    BY <2>1 DEF Bytes, Greatest
<1>5. CASE touched' = touched
  BY <1>1, <1>5
<1>6. CASE generic_file_aio_read(t)
  BY <1>3, <1>6, Errors DEF generic_file_aio_read
<1>7. CASE plain_method(t)
  BY <1>3, <1>4, <1>7 DEF plain_method
<1>8. CASE async_method(t)
  <2>1. CASE \E n \in MethodResults(t) : MethodReturns(t, n, Bytes(n))
    BY <1>3, <1>4, <1>8, <2>1 DEF async_method
  <2>2. CASE UNCHANGED history
    BY <1>1, <2>2 DEF history
  <2> QED
    BY <1>8, <2>1, <2>2 DEF async_method
<1>9. CASE generic_file_buffered_write(t)
  <2>1. PICK m \in 0 .. th[t].n : Record(File(t), th[t].from, m)
    BY <1>9 DEF generic_file_buffered_write
  <2>2. th[t].call.f \in Files /\ th[t].from \in Int /\ m \in Int
    BY <1>9, CallFiles DEF generic_file_buffered_write, At, RwLabels
  <2> QED
    BY <1>2, <2>1, <2>2 DEF Record, File
<1>10. CASE aio_complete(t)
  <2>1. th[t].pc \in RwLabels
    <3>1. CallPlace(sys, th[t], kiocb[t], i_size) /\ kiocb[t].owed = "complete"
      BY <1>10, Known DEF aio_complete
    <3> QED
      BY <3>1 DEF CallPlace, RwLabels
  <2>2. PICK n \in MethodResults(t) : Record(File(t), th[t].pos, Bytes(n))
    BY <1>10 DEF aio_complete
  <2>3. th[t].call.f \in Files /\ th[t].pos \in Int
    BY <2>1, CallFiles
  <2> QED
    BY <1>2, <1>4, <2>2, <2>3 DEF Record, File
<1>11. CASE splice_write(t)
  <2> DEFINE l == th[t]
             out == l.call.out
             in == l.call.f
  <2>1. PICK m \in 0 .. l.n : \E synced \in BOOLEAN :
          touched' = [touched EXCEPT ![out] = @ \cup Offsets(out, f_pos[out], m),
                                     ![in] = @ \cup Offsets(in, l.sd, IF synced THEN m ELSE 0)]
    BY <1>11 DEF splice_write
  <2>2. PICK m2 \in Int :
          touched' = [touched EXCEPT ![out] = @ \cup Offsets(out, f_pos[out], m),
                                     ![in] = @ \cup Offsets(in, l.sd, m2)]
    <3>1. PICK synced \in BOOLEAN :
            touched' = [touched EXCEPT ![out] = @ \cup Offsets(out, f_pos[out], m),
                                       ![in] = @ \cup Offsets(in, l.sd, IF synced THEN m ELSE 0)]
      BY <2>1
    <3> DEFINE k == IF synced THEN m ELSE 0
    <3>2. k \in Int
      BY <2>1
    <3>3. touched' = [touched EXCEPT ![out] = @ \cup Offsets(out, f_pos[out], m),
                                     ![in] = @ \cup Offsets(in, l.sd, k)]
      BY <3>1
    <3> HIDE DEF k, l, in, out
    <3> QED
      BY <3>2, <3>3
  <2>3. out \in Files /\ in \in Files /\ l.sd \in Int /\ m \in Int
    BY <1>11, CallFiles DEF splice_write, At, SendLabels, OutLabels
  <2> DEFINE A == Offsets(out, f_pos[out], m)
             B == Offsets(in, l.sd, m2)
  <2>4. A \subseteq Int /\ B \subseteq Int
    BY <1>1, <2>2, <2>3, OffsetsInt
  <2>5. touched' = [touched EXCEPT ![out] = @ \cup A, ![in] = @ \cup B]
    BY <2>2
  <2> HIDE DEF A, B, in, out
  <2> QED
    BY <1>1, <2>3, <2>4, <2>5
<1> QED
  BY <1>5, <1>6, <1>7, <1>8, <1>9, <1>10, <1>11 DEF Footprint

\* A base stays a base.
LEMMA BasesGrow ==
  ASSUME Globals, LocalsInv, NEW t \in Threads, Footprint(t)
  PROVE  bases' \in [Files -> SUBSET Int] /\ \A g \in Files : bases[g] \subseteq bases'[g]
<1>1. bases \in [Files -> SUBSET Int]
  BY DEF Globals
<1>2. ASSUME NEW f \in Files, NEW B \in SUBSET Int, bases' = [bases EXCEPT ![f] = @ \cup B]
      PROVE  bases' \in [Files -> SUBSET Int] /\ \A g \in Files : bases[g] \subseteq bases'[g]
  BY <1>1, <1>2
<1>3. CASE bases' = bases
  BY <1>1, <1>3
<1>4. CASE generic_file_buffered_write(t)
  <2> DEFINE f == th[t].call.f
  <2>1. f \in Files /\ th[t].from \in Int
    BY <1>4, CallFiles DEF generic_file_buffered_write, At, RwLabels
  <2>2. \/ bases' = [bases EXCEPT ![f] = @ \cup {th[t].from}]
        \/ bases' = [bases EXCEPT ![f] = @]
    BY <1>4 DEF generic_file_buffered_write, File
  <2> HIDE DEF f
  <2> QED
    BY <1>1, <1>2, <2>1, <2>2
<1>5. ASSUME NEW c, SeekSucceeds(c, th[t].val), c.f \in Files
      PROVE  bases' \in [Files -> SUBSET Int] /\ \A g \in Files : bases[g] \subseteq bases'[g]
  <2>1. {Offset(c.f, th[t].val)} \in SUBSET Int
    BY CallFiles, OffsetsInt
  <2> QED
    BY <1>2, <1>5, <2>1 DEF SeekSucceeds
<1>6. CASE lseek_execute(t)
  <2>1. th[t].call.f \in Files
    BY <1>6, CallFiles DEF lseek_execute, At, SeekLabels
  <2> QED
    BY <1>3, <1>5, <1>6, <2>1 DEF lseek_execute, history
<1>7. CASE seek_store(t)
  <2>1. th[t].call.f \in Files
    BY <1>7, CallFiles DEF seek_store, At, SeekLabels
  <2> QED
    BY <1>5, <1>7, <2>1 DEF seek_store
<1>8. CASE store_out(t)
  <2> DEFINE out == th[t].call.out
             new == Signed(th[t].old + th[t].val)
  <2>1. out \in Files /\ th[t].old + th[t].val \in Int
    BY <1>8, CallFiles DEF store_out, SendStep, At, SendLabels, OutLabels
  <2>2. {Offset(out, new)} \in SUBSET Int
    BY <2>1, SignedWord, OffsetsInt
  <2>3. \/ bases' = [bases EXCEPT ![out] = @ \cup {Offset(out, new)}]
        \/ bases' = [bases EXCEPT ![out] = @]
    BY <1>8 DEF store_out
  <2> HIDE DEF out, new
  <2> QED
    BY <1>1, <1>2, <2>1, <2>2, <2>3
<1> QED
  BY <1>3, <1>4, <1>6, <1>7, <1>8 DEF Footprint

\* Every position that is stored is a word.
LEMMA PositionStored ==
  ASSUME Globals, LocalsInv, NEW t \in Threads, Footprint(t)
  PROVE  f_pos' = f_pos \/ \E f \in Files, p \in loff_t : f_pos' = [f_pos EXCEPT ![f] = p]
<1> DEFINE l == th[t]
<1>1. l.pos \in loff_t /\ l.sd \in loff_t
  BY CallFiles
<1>2. CASE Return(t)
  <2>1. l.call.f \in Files
    BY <1>2, CallFiles DEF Return, At
  <2> QED
    BY <1>1, <1>2, <2>1 DEF Return
<1>3. CASE seek_store(t)
  <2>1. l.call.f \in Files /\ l.pc = "seek_store"
    BY <1>3, CallFiles DEF seek_store, At, SeekLabels
  <2>2. l.val \in loff_t
    BY <2>1, Known DEF CallPlace
  <2> QED
    BY <1>3, <2>1, <2>2 DEF seek_store, File
<1>4. CASE store_out(t)
  <2>1. l.call.out \in Files /\ l.old + l.val \in Int
    BY <1>4, CallFiles DEF store_out, SendStep, At, SendLabels, OutLabels
  <2>2. Signed(l.old + l.val) \in loff_t
    BY <2>1, SignedWord
  <2> QED
    BY <1>4, <2>1, <2>2 DEF store_out
<1>5. CASE store_in(t)
  <2>1. l.call.f \in Files
    BY <1>5, CallFiles DEF store_in, SendStep, At, SendLabels
  <2> QED
    BY <1>1, <1>5, <2>1 DEF store_in
<1> QED
  BY <1>2, <1>3, <1>4, <1>5 DEF Footprint

\* A lock has one holder, or none.
LEMMA HolderTyped ==
  ASSUME Globals, LocalsInv, NEW t \in Threads, Footprint(t)
  PROVE  holder' \in [{"f_lock", "i_mutex"} \X Files -> Threads \cup {NoThread}]
<1>1. holder \in [{"f_lock", "i_mutex"} \X Files -> Threads \cup {NoThread}]
  BY DEF Globals
<1> DEFINE Keys == {"f_lock", "i_mutex"} \X Files
<1>2. ASSUME NEW key, NEW w \in Threads \cup {NoThread}, holder' = [holder EXCEPT ![key] = w]
      PROVE  holder' \in [Keys -> Threads \cup {NoThread}]
  <2> HIDE DEF Keys
  <2> QED
    BY <1>1, <1>2 DEF Keys
<1>3. CASE SeekEnds(t) /\ th[t].pc \in {"target", "execute", "seek_store"}
  <2> HIDE DEF Keys
  <2>1. holder' = [k \in Keys |-> IF k = SeekLock(th[t].call) THEN NoThread ELSE holder[k]]
    BY <1>1, <1>3 DEF SeekEnds, Keys
  <2>2. holder \in [Keys -> Threads \cup {NoThread}]
    BY <1>1 DEF Keys
  <2>3. holder' \in [Keys -> Threads \cup {NoThread}]
    BY <2>1, <2>2
  <2> QED
    BY <2>3 DEF Keys
<1>4. CASE lock_inode(t)
  BY <1>2, <1>4 DEF lock_inode
<1>5. CASE generic_write_checks(t)
  BY <1>1, <1>2, <1>5 DEF generic_write_checks
<1>6. CASE generic_file_buffered_write(t)
  BY <1>2, <1>6 DEF generic_file_buffered_write
<1>7. CASE seek_lock(t)
  BY <1>2, <1>7 DEF seek_lock
<1> QED
  BY <1>1, <1>3, <1>4, <1>5, <1>6, <1>7 DEF Footprint

LEMMA SizesTyped ==
  ASSUME Globals, LocalsInv, NEW t \in Threads, Footprint(t)
  PROVE  i_size' \in [Files -> 0 .. Half - 1] /\ \A g \in Files : i_size[g] <= i_size'[g]
<1>1. CASE i_size' = i_size
  BY <1>1, Known
<1> QED
  BY <1>1, WriteGrows, SpliceGrows DEF Footprint

\* The counts of the history.
LEMMA CountsTyped ==
  ASSUME Globals, LocalsInv, NEW t \in Threads, Footprint(t)
  PROVE  moved' \in [Files -> Int] /\ grown' \in [Files -> Int]
<1>1. moved \in [Files -> Int] /\ grown \in [Files -> Int]
  BY DEF Globals
<1>2. moved' \in [Files -> Int]
  <2>1. ASSUME SeekSucceeds(th[t].call, th[t].val), th[t].pc \in SeekLabels
        PROVE  moved' \in [Files -> Int]
    <3> DEFINE c == th[t].call
    <3>1. c \in SeekCalls
      BY <2>1, Known DEF CallPlace
    <3>2. c.f \in Files /\ c.off \in Int
      BY <3>1, SeekValWord
    <3>3. moved' = [moved EXCEPT ![c.f] = IF c.origin = SEEK_CUR THEN @ + c.off ELSE @]
      BY <2>1 DEF SeekSucceeds
    <3> HIDE DEF c
    <3> QED
      BY <1>1, <3>2, <3>3
  <2>2. CASE lseek_execute(t)
    BY <1>1, <2>1, <2>2 DEF lseek_execute, history, At, SeekLabels
  <2>3. CASE seek_store(t)
    BY <2>1, <2>3 DEF seek_store, At, SeekLabels
  <2> QED
    BY <1>1, <2>2, <2>3 DEF Footprint
<1>3. grown' \in [Files -> Int]
  <2>1. CASE generic_file_buffered_write(t)
    <3> DEFINE f == File(t)
    <3>1. PICK m \in 0 .. th[t].n : grown' = [grown EXCEPT ![f] = IF f \in sys.append THEN @ + m ELSE @]
      BY <2>1 DEF generic_file_buffered_write
    <3>2. m \in Int /\ f \in Files
      BY <2>1, <3>1, CallFiles DEF generic_file_buffered_write, At, RwLabels, File
    <3> HIDE DEF f
    <3>3. CASE f \in sys.append
      BY <1>1, <3>1, <3>2, <3>3
    <3>4. CASE f \notin sys.append
      BY <1>1, <3>1, <3>4
    <3> QED
      BY <3>3, <3>4
  <2> QED
    BY <1>1, <2>1 DEF Footprint
<1> QED
  BY <1>2, <1>3

LEMMA GlobalsStep ==
  ASSUME Globals, LocalsInv, [Next]_vars
  PROVE  Globals'
<1>1. CASE UNCHANGED vars
  BY <1>1 DEF vars, history, Globals
<1>2. CASE Next
  <2>1. PICK t \in Threads : Call(t) \/ Step(t) \/ Promise(t)
    BY <1>2 DEF Next
  <2>2. Footprint(t)
    BY <2>1, FootprintOK
  <2>3. sys' \in Systems /\ f_pos' \in [Files -> loff_t] /\ sys' = sys
    <3>1. f_pos \in [Files -> loff_t] /\ sys \in Systems
      BY DEF Globals
    <3> QED
      BY <2>2, <3>1, PositionStored DEF Footprint
  <2>4. task' \in [Threads -> {"running", "uninterruptible"}]
    BY <2>2 DEF Footprint, Globals
  <2>5. wakes' \in [Threads -> Nat]
    <3>1. CASE wake_up_process(t)
      <4>1. wakes \in [Threads -> Nat] /\ wakes[t] \in Nat /\ wakes[t] > 0 /\ wakes' = [wakes EXCEPT ![t] = @ - 1]
        BY <3>1 DEF wake_up_process, Globals
      <4> QED
        BY <4>1
    <3> QED
      BY <2>2, <3>1 DEF Footprint, Globals
  <2>6. left' \in [Threads -> Nat] /\ \A u \in Threads : left'[u] <= sys'.budget[u]
    <3>1. left \in [Threads -> Nat] /\ (\A u \in Threads : left[u] <= sys.budget[u])
          /\ sys.budget \in [Threads -> Nat]
      BY Known DEF Globals, SystemOK
    <3>2. CASE left[t] > 0 /\ left' = [left EXCEPT ![t] = @ - 1]
      <4>1. left' \in [Threads -> Nat]
        BY <3>1, <3>2
      <4>2. \A u \in Threads : left'[u] <= sys.budget[u]
        BY <3>1, <3>2
      <4> QED
        BY <2>3, <4>1, <4>2
    <3> QED
      BY <2>2, <2>3, <3>1, <3>2 DEF Footprint
  <2>7. only_cur' \subseteq Files
    <3>1. CASE Call(t)
      <4>1. PICK c \in sys.calls[t] : Enter(t, c)
        BY <3>1 DEF Call, sys_rw, sys_lseek, sys_sendfile
      <4> QED
        BY <4>1 DEF Enter, Globals
    <3> QED
      BY <2>2, <3>1 DEF Footprint, Globals
  <2> QED
    BY <2>2, <2>3, <2>4, <2>5, <2>6, <2>7, TouchedGrows, BasesGrow, HolderTyped, SizesTyped, CountsTyped
    DEF Globals
<1> QED
  BY <1>1, <1>2

LEMMA Start ==
  ASSUME Init
  PROVE  Globals /\ LocalsInv
<1>1. sys \in Systems /\ SystemOK(sys)
  BY Constants DEF Init
<1>2. /\ sys.budget \in [Threads -> Nat] /\ sys.size \in [Files -> 0 .. Half - 1] /\ sys.start \in [Files -> loff_t]
  BY <1>1 DEF SystemOK
<1>3. bases \in [Files -> SUBSET Int]
  <2>1. \A f \in Files : sys.start[f] \in Int
    BY <1>2, Words
  <2>2. \A f \in Files : {Offset(f, sys.start[f])} \in SUBSET Int
    BY <2>1, OffsetsInt
  <2> QED
    BY <2>2 DEF Init
<1>4. left \in [Threads -> Nat] /\ \A t \in Threads : left[t] <= sys.budget[t]
  <2>1. left = sys.budget
    BY DEF Init
  <2> QED
    BY <1>2, <2>1
<1>5. Globals
  BY <1>1, <1>2, <1>3, <1>4 DEF Init, Globals
<1>6. NewKiocb \in Kiocbs /\ NewKiocb.users = 1 /\ NewKiocb.owed # "complete"
  BY DEF NewKiocb, Kiocbs
<1>7. LocalOK(sys, Idle, NewKiocb, i_size)
  BY <1>6, IdleOK
<1>8. LocalsInv
  BY <1>7 DEF Init, LocalsInv
<1> QED
  BY <1>5, <1>8

\* Calls, kiocbs and the shared state are in order at every moment.
LEMMA AlwaysInOrder == Spec => [](Globals /\ LocalsInv)
<1>1. Init => Globals /\ LocalsInv
  BY Start
<1>2. (Globals /\ LocalsInv) /\ [Next]_vars => (Globals /\ LocalsInv)'
  BY GlobalsStep, LocalsStep
<1> QED
  BY <1>1, <1>2, PTL DEF Spec

\* Type correctness: whatever methods return and however the calls of all
\* threads interleave, positions are words, sizes are not negative, a
\* synchronous kiocb is completed at most once (the BUG_ON of aio_complete)
\* and no read or write moves more than MAX_RW_COUNT bytes.
THEOREM FileIOTyped == Spec => []TypeOK
<1>1. Globals /\ LocalsInv => TypeOK
  <2> SUFFICES ASSUME Globals, LocalsInv PROVE TypeOK
    OBVIOUS
  <2>1. ASSUME NEW t \in Threads
        PROVE  /\ DOMAIN th[t] = DOMAIN Idle
               /\ th[t].pos \in loff_t /\ th[t].got \in Nat /\ th[t].len \in Int
               /\ th[t].call.op = "rw" => th[t].got <= MAX_RW_COUNT
               /\ kiocb[t].users \in {0, 1} /\ kiocb[t].owed \in {"nothing", "kick", "complete"}
    <3> DEFINE l == th[t]
               k == kiocb[t]
    <3>1. l \in Locals /\ k \in Kiocbs /\ Room(sys, l, k)
      BY Known
    <3> HIDE DEF l, k
    <3>2. DOMAIN l = DOMAIN Idle
      BY <3>1 DEF Locals, Idle
    <3>3. l.pos \in loff_t /\ l.got \in Nat /\ l.len \in Int
      BY <3>1 DEF Locals
    <3>4. k.users \in {0, 1} /\ k.owed \in {"nothing", "kick", "complete"}
      BY <3>1 DEF Kiocbs
    <3>5. l.call.op = "rw" => l.got <= MAX_RW_COUNT
      BY <3>1 DEF Room
    <3> QED
      BY <3>2, <3>3, <3>4, <3>5 DEF l, k
  <2>2. ASSUME NEW t \in Threads
        PROVE  /\ task[t] \in {"running", "uninterruptible"}
               /\ wakes[t] \in Nat /\ left[t] \in 0 .. sys.budget[t]
    <3>1. left[t] \in Nat /\ left[t] <= sys.budget[t] /\ sys.budget[t] \in Nat
      BY Known DEF Globals, SystemOK
    <3> QED
      BY <3>1 DEF Globals
  <2> QED
    BY <2>1, <2>2 DEF Globals, TypeOK
<1> QED
  BY <1>1, AlwaysInOrder, PTL

\* A call that reports success reports the bytes that were moved for it: the
\* value do_loop_readv_writev adds up, wait_on_sync_kiocb takes from the kiocb
\* or splice_direct_to_actor counts is the number of bytes transferred.
THEOREM ReportsAreTrue == Spec => []ReturnsWhatMoved
<1>1. Globals /\ LocalsInv => ReturnsWhatMoved
  BY Known DEF ReturnsWhatMoved, At, Accounts
<1> QED
  BY <1>1, AlwaysInOrder, PTL

-----------------------------------------------------------------------------
\* What a call is after a step of its thread.
Arrives(t) ==
  \/ th'[t] = th[t]
  \/ Call(t)
  \/ th'[t] = Idle
  \/ /\ th[t].pc # "idle" /\ th'[t].pc # "idle" /\ th'[t].call = th[t].call
     /\ th'[t].pc = "checks" => lock_inode(t)
     /\ th'[t].pc = "copy" => generic_write_checks(t)
     /\ th'[t].pc = "target" => seek_lock(t)
     /\ th'[t].pc = "execute" => seek_target(t)
     /\ th'[t].pc = "seek_store" => lseek_execute(t)
     /\ th'[t].pc = "add" => splice_write(t)
     /\ th'[t].pc = "add_store" => load_out(t)
     /\ th'[t].pc \in {"splice", "store_in"} \cup OutLabels =>
          th[t].pc \in {"splice"} \cup OutLabels \/ do_splice_direct(t)
     /\ th'[t].pos # th[t].pos => \/ generic_file_aio_read(t) \/ plain_method(t) \/ async_method(t)
                                 \/ generic_file_buffered_write(t) \/ aio_complete(t) \/ store_in(t)
     /\ th'[t].sd # th[t].sd => do_splice_direct(t) \/ store_out(t)

LEMMA ReturnedPlace ==
  ASSUME NEW l \in Locals, NEW n, NEW from, NEW m
  PROVE  LET r == Returned(l, n, from, m)
         IN  /\ r.pc \in {"call", "done"} /\ r.call = l.call /\ r.sd = l.sd
             /\ m = 0 => r.pos = l.pos
  BY DEF Returned, Locals

LEMMA ArrivesOK ==
  ASSUME Globals, LocalsInv, NEW t \in Threads, Call(t) \/ Step(t) \/ Promise(t)
  PROVE  Arrives(t)
<1>1. DOMAIN th = Threads /\ th[t] \in Locals
  BY Known
<1>4. ASSUME NEW n, NEW from, NEW m, th' = [th EXCEPT ![t] = Returned(@, n, from, m)], th[t].pc # "idle",
             \/ m = 0 \/ generic_file_aio_read(t) \/ plain_method(t) \/ async_method(t)
             \/ generic_file_buffered_write(t)
      PROVE  Arrives(t)
  <2>1. th'[t] = Returned(th[t], n, from, m)
    BY <1>1, <1>4
  <2>2. /\ th'[t].pc \in {"call", "done"} /\ th'[t].call = th[t].call /\ th'[t].sd = th[t].sd
        /\ m = 0 => th'[t].pos = th[t].pos
    BY <1>1, <2>1, ReturnedPlace
  <2> QED
    BY <1>4, <2>2 DEF Arrives, OutLabels
<1>5. ASSUME NEW l2 \in Locals, NEW code, th' = [th EXCEPT ![t] = SpliceEnds(l2, code)], th[t].pc # "idle",
             l2.call = th[t].call, l2.pos = th[t].pos,
             th[t].pc \in {"splice"} \cup OutLabels \/ do_splice_direct(t),
             l2.sd = th[t].sd \/ do_splice_direct(t) \/ store_out(t)
      PROVE  Arrives(t)
  <2>1. th'[t] = SpliceEnds(l2, code)
    BY <1>1, <1>5
  <2>2. /\ th'[t].pc = "store_in" /\ th'[t].call = l2.call /\ th'[t].sd = l2.sd /\ th'[t].pos = l2.pos
    BY <2>1, <1>5 DEF SpliceEnds, Locals
  <2> QED
    BY <1>5, <2>2 DEF Arrives, OutLabels
<1>2. CASE Step(t)
  <2>1. CASE generic_file_aio_read(t)
    <3>1. \E n, m : th' = [th EXCEPT ![t] = Returned(@, n, @.pos, m)]
      BY <2>1 DEF generic_file_aio_read, MethodReturns
    <3>2. th[t].pc # "idle"
      BY <2>1 DEF generic_file_aio_read, At
    <3> QED
      BY <1>1, <1>4, <2>1, <3>1, <3>2
  <2>2. CASE plain_method(t)
    BY <1>4, <2>2 DEF plain_method, MethodReturns, At
  <2>3. CASE async_method(t)
    <3>1. CASE \E n \in MethodResults(t) : MethodReturns(t, n, Bytes(n))
      BY <1>4, <2>3, <3>1, ZenonT(30) DEF async_method, MethodReturns, At
    <3>2. CASE th' = [th EXCEPT ![t].pc = "retry", ![t].tries = @ + 1]
      BY <1>1, <2>3, <3>2 DEF async_method, Arrives, At, OutLabels, Locals
    <3>3. CASE Go(t, "wait")
      BY <1>1, <2>3, <3>3 DEF async_method, Arrives, At, OutLabels, Locals, Go
    <3> QED
      BY <2>3, <3>1, <3>2, <3>3 DEF async_method
  <2>4. CASE lock_inode(t)
    BY <1>1, <2>4 DEF lock_inode, Arrives, At, OutLabels, Locals, Go
  <2>5. CASE generic_write_checks(t)
    <3>1. CASE \E n, from : th' = [th EXCEPT ![t] = Returned(@, n, from, 0)]
      BY <1>4, <2>5, <3>1 DEF generic_write_checks, At
    <3>2. CASE \E from, n : th' = [th EXCEPT ![t].pc = "copy", ![t].from = from, ![t].n = n]
      <4>1. PICK from, n : th' = [th EXCEPT ![t].pc = "copy", ![t].from = from, ![t].n = n]
        BY <3>2
      <4>2. /\ th'[t].pc = "copy" /\ th'[t].call = th[t].call /\ th'[t].pos = th[t].pos /\ th'[t].sd = th[t].sd
        BY <1>1, <4>1 DEF Locals
      <4>3. th[t].pc # "idle"
        BY <2>5 DEF generic_write_checks, At
      <4> QED
        BY <2>5, <4>2, <4>3 DEF Arrives, OutLabels
    <3> QED
      BY <2>5, <3>1, <3>2 DEF generic_write_checks
  <2>6. CASE generic_file_buffered_write(t)
    <3>1. \E n, m : th' = [th EXCEPT ![t] = Returned(@, n, th[t].from, m)]
      BY <2>6 DEF generic_file_buffered_write
    <3>2. th[t].pc # "idle"
      BY <2>6 DEF generic_file_buffered_write, At
    <3> QED
      BY <1>4, <2>6, <3>1, <3>2
  <2>7. CASE retry_prepare(t)
    BY <1>1, <2>7 DEF retry_prepare, Arrives, At, OutLabels, Locals, Go
  <2>8. CASE retry_test(t)
    BY <1>1, <2>8 DEF retry_test, Arrives, At, OutLabels, Locals, Go
  <2>9. CASE retry_wake(t)
    BY <1>1, <2>9 DEF retry_wake, Arrives, At, OutLabels, Locals, Go
  <2>10. CASE wait_on_sync_kiocb(t)
    <3>1. CASE Completed(t)
      BY <1>4, <2>10, <3>1 DEF wait_on_sync_kiocb, Completed, At
    <3>2. CASE \E p \in {"wait_test", "wait_sleep"} : Go(t, p)
      BY <1>1, <2>10, <3>2 DEF wait_on_sync_kiocb, Arrives, At, OutLabels, Locals, Go
    <3> QED
      BY <2>10, <3>1, <3>2 DEF wait_on_sync_kiocb
  <2>11. CASE wait_test(t)
    <3>1. CASE Completed(t)
      BY <1>4, <2>11, <3>1 DEF wait_test, Completed, At
    <3>2. CASE \E p \in {"wait_test", "wait_sleep"} : Go(t, p)
      BY <1>1, <2>11, <3>2 DEF wait_test, Arrives, At, OutLabels, Locals, Go
    <3> QED
      BY <2>11, <3>1, <3>2 DEF wait_test
  <2>12. CASE wait_wake(t)
    BY <1>1, <2>12 DEF wait_wake, Arrives, At, OutLabels, Locals, Go
  <2>13. CASE seek_lock(t)
    BY <1>1, <2>13 DEF seek_lock, Arrives, At, OutLabels, Locals, Go
  <2>14. CASE seek_target(t)
    <3>1. CASE SeekEnds(t)
      BY <1>1, <3>1 DEF SeekEnds, Arrives
    <3>2. CASE \E v : th' = [th EXCEPT ![t].pc = "execute", ![t].val = v]
      <4>1. PICK v : th' = [th EXCEPT ![t].pc = "execute", ![t].val = v]
        BY <3>2
      <4>2. /\ th'[t].pc = "execute" /\ th'[t].call = th[t].call /\ th'[t].pos = th[t].pos /\ th'[t].sd = th[t].sd
        BY <1>1, <4>1 DEF Locals
      <4>3. th[t].pc # "idle"
        BY <2>14 DEF seek_target, At
      <4> QED
        BY <2>14, <4>2, <4>3 DEF Arrives, OutLabels
    <3> QED
      BY <2>14, <3>1, <3>2 DEF seek_target
  <2>15. CASE lseek_execute(t)
    BY <1>1, <2>15 DEF lseek_execute, Arrives, At, OutLabels, Locals, SeekEnds, Go
  <2>16. CASE seek_store(t)
    BY <1>1, <2>16 DEF seek_store, Arrives, At, OutLabels, Locals, SeekEnds
  <2>17. CASE verify_out(t)
    BY <1>1, <2>17 DEF verify_out, Arrives, At, OutLabels, Locals, SendStep, SendFails
  <2>18. CASE limit(t)
    BY <1>1, <2>18 DEF limit, Arrives, At, OutLabels, Locals, SendStep, SendFails, Go
  <2>19. CASE do_splice_direct(t)
    <3> DEFINE l == [th[t] EXCEPT !.pc = "splice", !.sd = InPos(th[t]), !.ret = 0]
    <3>1. th[t].pc # "idle" /\ \/ \E code : th' = [th EXCEPT ![t] = SpliceEnds(l, code)]
                               \/ th' = [th EXCEPT ![t] = l]
      BY <2>19 DEF do_splice_direct, SendStep, At
    <3>2. InPos(th[t]) \in loff_t
      <4>1. th[t].call.f \in Files /\ f_pos \in [Files -> loff_t] /\ th[t].pos \in loff_t
        BY <2>19, CallFiles DEF do_splice_direct, SendStep, At, SendLabels, Globals
      <4> QED
        BY <4>1 DEF InPos
    <3> DEFINE p == InPos(th[t])
    <3> HIDE DEF p
    <3> DEFINE l0 == th[t]
    <3>3. l = [l0 EXCEPT !.pc = "splice", !.sd = p, !.ret = 0] /\ p \in loff_t /\ l0 \in Locals
      BY <1>1, <3>2 DEF p
    <3> HIDE DEF l, l0
    <3>4. l \in Locals
      BY <3>3, 0 \in Int DEF Locals, SendLabels
    <3>5. l.pc = "splice" /\ l.call = l0.call /\ l.pos = l0.pos
      BY <3>3 DEF Locals
    <3> USE DEF l0
    <3>6. CASE th' = [th EXCEPT ![t] = l]
      <4>1. th'[t].pc = "splice" /\ th'[t].call = th[t].call /\ th'[t].pos = th[t].pos
        BY <1>1, <3>5, <3>6
      <4>2. th[t].pc # "idle"
        BY <3>1
      <4> QED
        BY <2>19, <4>1, <4>2 DEF Arrives, OutLabels
    <3> QED
      BY <1>5, <2>19, <3>1, <3>4, <3>5, <3>6
  <2>20. CASE do_splice_to(t)
    <3>1. th[t].pc = "splice" /\ \/ \E code : th' = [th EXCEPT ![t] = SpliceEnds(th[t], code)]
                                 \/ \E n : th' = [th EXCEPT ![t] = [th[t] EXCEPT !.pc = "splice_from", !.n = n]]
      BY <2>20 DEF do_splice_to, SendStep, At
    <3>2. CASE \E n : th' = [th EXCEPT ![t] = [th[t] EXCEPT !.pc = "splice_from", !.n = n]]
      <4>1. PICK n : th' = [th EXCEPT ![t] = [th[t] EXCEPT !.pc = "splice_from", !.n = n]]
        BY <3>2
      <4>2. /\ th'[t].pc = "splice_from" /\ th'[t].call = th[t].call /\ th'[t].pos = th[t].pos /\ th'[t].sd = th[t].sd
        BY <1>1, <4>1 DEF Locals
      <4>3. th[t].pc = "splice"
        BY <3>1
      <4> QED
        BY <4>2, <4>3 DEF Arrives, OutLabels
    <3> QED
      BY <1>1, <1>5, <3>1, <3>2
  <2>21. CASE do_splice_from(t)
    BY <1>1, <2>21 DEF do_splice_from, Arrives, At, OutLabels, Locals, SendStep, SpliceEnds
  <2>22. CASE splice_write(t)
    <3>1. th[t].pc = "splice_write" /\ \/ \E code : th' = [th EXCEPT ![t] = SpliceEnds(th[t], code)]
                                       \/ \E p, m : th' = [th EXCEPT ![t] = [th[t] EXCEPT !.pc = "add", !.from = p, !.val = m]]
      <4>1. PICK m : \E synced \in BOOLEAN :
              th' = [th EXCEPT ![t] = IF m = 0 \/ ~ synced THEN SpliceEnds(th[t], EIO)
                                   ELSE [th[t] EXCEPT !.pc = "add", !.from = f_pos[th[t].call.out], !.val = m]]
        BY <2>22 DEF splice_write
      <4> QED
        BY <2>22, <4>1 DEF splice_write, At
    <3>2. CASE \E p, m : th' = [th EXCEPT ![t] = [th[t] EXCEPT !.pc = "add", !.from = p, !.val = m]]
      <4>1. PICK p, m : th' = [th EXCEPT ![t] = [th[t] EXCEPT !.pc = "add", !.from = p, !.val = m]]
        BY <3>2
      <4>2. /\ th'[t].pc = "add" /\ th'[t].call = th[t].call /\ th'[t].pos = th[t].pos /\ th'[t].sd = th[t].sd
        BY <1>1, <4>1 DEF Locals
      <4>3. th[t].pc = "splice_write"
        BY <3>1
      <4> QED
        BY <2>22, <4>2, <4>3 DEF Arrives, OutLabels
    <3> QED
      BY <1>1, <1>5, <3>1, <3>2 DEF OutLabels
  <2>23. CASE load_out(t)
    BY <1>1, <2>23 DEF load_out, Arrives, At, OutLabels, Locals, SendStep
  <2>24. CASE store_out(t)
    BY <1>1, <2>24 DEF store_out, Arrives, At, OutLabels, Locals, SendStep, SpliceEnds
  <2>25. CASE store_in(t)
    BY <1>1, <2>25 DEF store_in, Arrives, At, OutLabels, Locals, SendStep
  <2>26. CASE check_max(t)
    BY <1>1, <2>26 DEF check_max, Arrives, At, OutLabels, Locals, SendStep
  <2>27. CASE Return(t)
    BY <1>1, <2>27 DEF Return, Arrives, At, OutLabels, Locals
  <2> QED
    BY <1>2, <2>1, <2>2, <2>3, <2>4, <2>5, <2>6, <2>7, <2>8, <2>9, <2>10, <2>11, <2>12, <2>13, <2>14, <2>15, <2>16, <2>17, <2>18, <2>19, <2>20, <2>21, <2>22, <2>23, <2>24, <2>25, <2>26, <2>27 DEF Step
<1>3. CASE Promise(t)
  <2>1. CASE aio_complete(t)
    <3>1. CallPlace(sys, th[t], kiocb[t], i_size) /\ kiocb[t].owed = "complete"
      BY <2>1, Known DEF aio_complete
    <3>2. th[t].pc \in WaitLabels
      BY <3>1 DEF CallPlace
    <3>3. PICK n : th' = [th EXCEPT ![t].pos = Signed(@ + Bytes(n)), ![t].got = @ + Bytes(n)]
      BY <2>1 DEF aio_complete
    <3>4. th'[t].pc = th[t].pc /\ th'[t].call = th[t].call /\ th'[t].sd = th[t].sd
      BY <1>1, <3>3 DEF Locals
    <3> QED
      BY <2>1, <3>2, <3>4 DEF Arrives, OutLabels, WaitLabels
  <2>2. CASE kick_iocb(t) \/ wake_up_process(t)
    BY <2>2 DEF kick_iocb, wake_up_process, Arrives
  <2> QED
    BY <1>3, <2>1, <2>2 DEF Promise
<1> QED
  BY <1>2, <1>3 DEF Arrives

\* What a call is when it begins.
Begins(t) ==
  \E c \in sys.calls[t] :
    /\ Enter(t, c) /\ th'[t].call = c
    /\ th'[t].pc \in {"done", "call", "target", "lock", "verify_out"}
    /\ th'[t].pc = "target" => c.op = "seek" /\ SeekLock(c) = <<>>
    /\ c.op = "rw" => th'[t].pos = IF c.positioned THEN c.at ELSE f_pos[c.f]

LEMMA BeginsOK ==
  ASSUME Globals, LocalsInv, NEW t \in Threads, Call(t)
  PROVE  Begins(t)
<1>1. DOMAIN th = Threads
  BY DEF LocalsInv
<1>2. PICK c \in sys.calls[t] : sys_rw(t, c) \/ sys_lseek(t, c) \/ sys_sendfile(t, c)
  BY DEF Call
<1>3. CASE sys_rw(t, c)
  <2>1. PICK v : th' = [th EXCEPT ![t] =
             [Idle EXCEPT !.call = c, !.pos = IF c.positioned THEN c.at ELSE f_pos[c.f],
                          !.ret  = IF v < 0 THEN v ELSE 0,
                          !.segs = IF v < 0 THEN <<>> ELSE Segments(c, v),
                          !.pc   = IF v < 0 \/ (Total(c.segs) = 0 /\ Len(c.segs) # 1) THEN "done" ELSE "call"]]
    BY <1>3 DEF sys_rw
  <2> QED
    BY <1>1, <1>3, <2>1 DEF sys_rw, Begins, Idle
<1>4. CASE sys_lseek(t, c)
  BY <1>1, <1>4 DEF sys_lseek, Begins, Idle
<1>5. CASE sys_sendfile(t, c)
  <2>1. PICK v : th' = [th EXCEPT ![t] = [Idle EXCEPT !.call = c, !.pos = c.at, !.len = v, !.ret = v,
                                                !.pc = IF v < 0 THEN "done" ELSE "verify_out"]]
    BY <1>5 DEF sys_sendfile
  <2> QED
    BY <1>1, <1>5, <2>1 DEF sys_sendfile, Begins, Idle
<1> QED
  BY <1>2, <1>3, <1>4, <1>5

-----------------------------------------------------------------------------
Keys == {"f_lock", "i_mutex"} \X Files

\* The lock of a seek.
LEMMA SeekLockKey ==
  ASSUME Globals, NEW c \in SeekCalls
  PROVE  SeekLock(c) \in Keys \/ SeekLock(c) = <<>>
<1>1. c.f \in Files
  BY DEF SeekCalls
<1> QED
  BY <1>1 DEF SeekLock, Keys

LEMMA LockSetKeys ==
  ASSUME Globals, LocalsInv, NEW t \in Threads
  PROVE  LockSet(th[t]) \subseteq Keys
<1> DEFINE l == th[t]
<1>1. CallPlace(sys, l, kiocb[t], i_size)
  BY Known
<1>2. CASE l.pc \in {"checks", "copy"}
  <2>1. l.call.f \in Files
    BY <1>2, CallFiles DEF RwLabels
  <2> QED
    BY <1>2, <2>1 DEF LockSet, Keys
<1>3. CASE l.pc \in {"target", "execute", "seek_store"}
  <2>1. l.call \in SeekCalls
    BY <1>1, <1>3 DEF CallPlace, SeekLabels
  <2>2. LockSet(l) = {SeekLock(l.call)} \ {<<>>}
    BY <1>3 DEF LockSet
  <2> HIDE DEF l
  <2> QED
    BY <2>1, <2>2, SeekLockKey DEF l
<1>4. CASE l.pc \notin {"checks", "copy", "target", "execute", "seek_store"}
  BY <1>4 DEF LockSet
<1> QED
  BY <1>2, <1>3, <1>4

\* No step takes a lock from another thread.
LEMMA LocksKept ==
  ASSUME Globals, LocalsInv, LocksHeld, NEW t \in Threads, Footprint(t),
         NEW u \in Threads, u # t, NEW k \in Keys, holder[k] = u
  PROVE  holder'[k] = u
<1>1. holder \in [Keys -> Threads \cup {NoThread}] /\ NoThread \notin Threads
  BY FileIOAssumption DEF Globals, Keys
<1>2. \A j \in LockSet(th[t]) : holder[j] = t
  BY DEF LocksHeld
<1>3. ASSUME NEW j, holder[j] # u, NEW w, holder' = [holder EXCEPT ![j] = w]
      PROVE  holder'[k] = u
  BY <1>1, <1>3
<1>4. CASE lock_inode(t)
  BY <1>1, <1>3, <1>4 DEF lock_inode
<1>5. CASE seek_lock(t)
  BY <1>1, <1>3, <1>5 DEF seek_lock
<1>6. CASE generic_write_checks(t)
  <2>1. holder[<<"i_mutex", File(t)>>] = t
    BY <1>2, <1>6 DEF generic_write_checks, At, LockSet, File
  <2>2. holder' = holder \/ holder' = [holder EXCEPT ![<<"i_mutex", File(t)>>] = NoThread]
    BY <1>6 DEF generic_write_checks
  <2> QED
    BY <1>3, <2>1, <2>2
<1>7. CASE generic_file_buffered_write(t)
  <2>1. holder[<<"i_mutex", File(t)>>] = t
    BY <1>2, <1>7 DEF generic_file_buffered_write, At, LockSet, File
  <2>2. holder' = [holder EXCEPT ![<<"i_mutex", File(t)>>] = NoThread]
    BY <1>7 DEF generic_file_buffered_write
  <2> QED
    BY <1>3, <2>1, <2>2
<1>8. CASE SeekEnds(t) /\ th[t].pc \in {"target", "execute", "seek_store"}
  <2> DEFINE key == SeekLock(th[t].call)
  <2>1. LockSet(th[t]) = {key} \ {<<>>}
    BY <1>8 DEF LockSet
  <2>2. holder' = [j \in Keys |-> IF j = key THEN NoThread ELSE holder[j]]
    BY <1>1, <1>8 DEF SeekEnds
  <2> HIDE DEF key
  <2>3. k # <<>>
    BY DEF Keys
  <2>4. k # key
    BY <1>2, <2>1, <2>3
  <2> QED
    BY <2>2, <2>4
<1> QED
  BY <1>4, <1>5, <1>6, <1>7, <1>8 DEF Footprint

\* A thread between lock and unlock holds the lock.
LEMMA LocksStep ==
  ASSUME Globals, LocalsInv, LocksHeld, NEW t \in Threads, Call(t) \/ Step(t) \/ Promise(t)
  PROVE  LocksHeld'
<1>1. Footprint(t) /\ Arrives(t) /\ sys' = sys
  BY FootprintOK, ArrivesOK DEF Footprint
<1>2. holder \in [Keys -> Threads \cup {NoThread}] /\ DOMAIN th = Threads /\ th[t] \in Locals
  BY Known DEF Globals, Keys
<1>4. ASSUME NEW u \in Threads, NEW k \in LockSet(th[u])' PROVE holder'[k] = u
  <2>1. CASE u # t
    <3>1. th'[u] = th[u]
      BY <1>1, <2>1 DEF Footprint
    <3>2. LockSet(th[u])' = LockSet(th[u])
      BY <1>1, <3>1 DEF LockSet, SeekLock, Kind
    <3>3. k \in LockSet(th[u]) /\ k \in Keys /\ holder[k] = u
      BY <1>4, <3>2, LockSetKeys DEF LocksHeld
    <3> QED
      BY <1>1, <2>1, <3>3, LocksKept
  <2>2. CASE u = t
    <3> DEFINE l == th'[t]
    <3>1. \/ l.pc \in {"checks", "copy"} /\ k = <<"i_mutex", l.call.f>>
          \/ l.pc \in {"target", "execute", "seek_store"} /\ k = SeekLock(l.call) /\ k # <<>>
      BY <1>1, <1>4, <2>2 DEF LockSet, SeekLock, Kind
    <3>2. ASSUME holder' = holder, k \in LockSet(th[t]) PROVE holder'[k] = t
      BY <3>2 DEF LocksHeld
    <3>3. CASE th'[t] = th[t]
      <4>1. LockSet(th[t])' = LockSet(th[t])
        BY <1>1, <3>3 DEF LockSet, SeekLock, Kind
      <4>2. k \in LockSet(th[t])
        BY <1>4, <2>2, <4>1
      <4>3. holder' = holder
        <5>1. CASE lock_inode(t)
          BY <1>2, <3>3, <5>1 DEF lock_inode, At, Go, Locals
        <5>2. CASE generic_write_checks(t)
          <6>1. th[t].pc = "checks"
            BY <5>2 DEF generic_write_checks, At
          <6>2. CASE \E n, from : th' = [th EXCEPT ![t] = Returned(@, n, from, 0)]
            <7>1. th'[t].pc \in {"call", "done"}
              BY <1>2, <6>2, ReturnedPlace
            <7> QED
              BY <3>3, <6>1, <7>1
          <6> QED
            BY <5>2, <6>2 DEF generic_write_checks
        <5>3. CASE generic_file_buffered_write(t)
          <6>1. PICK n, m : th' = [th EXCEPT ![t] = Returned(@, n, th[t].from, m)]
            BY <5>3 DEF generic_file_buffered_write
          <6>2. th'[t].pc \in {"call", "done"} /\ th[t].pc = "copy"
            BY <1>2, <5>3, <6>1, ReturnedPlace DEF generic_file_buffered_write, At
          <6> QED
            BY <3>3, <6>2
        <5>4. CASE seek_lock(t)
          BY <1>2, <3>3, <5>4 DEF seek_lock, At, Go, Locals
        <5>5. CASE SeekEnds(t) /\ th[t].pc \in {"target", "execute", "seek_store"}
          BY <1>2, <3>3, <5>5, IdleLocals DEF SeekEnds
        <5> QED
          BY <1>1, <5>1, <5>2, <5>3, <5>4, <5>5 DEF Footprint
      <4> QED
        BY <2>2, <3>2, <4>2, <4>3
    <3>4. CASE Call(t)
      <4>1. PICK c \in sys.calls[t] : /\ l.call = c /\ l.pc \in {"done", "call", "target", "lock", "verify_out"}
                                      /\ l.pc = "target" => SeekLock(c) = <<>>
        BY <3>4, BeginsOK DEF Begins
      <4> QED
        BY <3>1, <4>1
    <3>5. CASE th'[t] = Idle
      BY <3>1, <3>5, IdleLocals
    <3>6. CASE /\ l.call = th[t].call
               /\ l.pc = "checks" => lock_inode(t)
               /\ l.pc = "copy" => generic_write_checks(t)
               /\ l.pc = "target" => seek_lock(t)
               /\ l.pc = "execute" => seek_target(t)
               /\ l.pc = "seek_store" => lseek_execute(t)
      <4>1. CASE l.pc = "checks"
        <5>1. holder' = [holder EXCEPT ![<<"i_mutex", th[t].call.f>>] = t] /\ th[t].pc = "call"
          BY <3>6, <4>1 DEF lock_inode, At, File
        <5>2. th[t].call.f \in Files
          BY <5>1, CallFiles DEF RwLabels
        <5>3. k = <<"i_mutex", th[t].call.f>> /\ k \in Keys
          BY <3>1, <3>6, <4>1, <5>2 DEF Keys
        <5> HIDE DEF l
        <5> QED
          BY <1>2, <2>2, <5>1, <5>3
      <4>2. CASE l.pc = "copy"
        <5>1. generic_write_checks(t) /\ th[t].pc = "checks"
          BY <3>6, <4>2 DEF generic_write_checks, At
        <5>2. k = <<"i_mutex", th[t].call.f>>
          BY <3>1, <3>6, <4>2
        <5>3. k \in LockSet(th[t])
          BY <5>1, <5>2 DEF LockSet
        <5>4. holder' = holder
          <6>1. CASE \E n, from : th' = [th EXCEPT ![t] = Returned(@, n, from, 0)]
            <7>1. th'[t].pc \in {"call", "done"}
              BY <1>2, <6>1, ReturnedPlace
            <7> QED
              BY <4>2, <7>1
          <6> QED
            BY <5>1, <6>1 DEF generic_write_checks
        <5> QED
          BY <2>2, <3>2, <5>3, <5>4
      <4>3. CASE l.pc = "target"
        <5>1. holder' = [holder EXCEPT ![SeekLock(th[t].call)] = t] /\ th[t].pc = "lock"
          BY <3>6, <4>3 DEF seek_lock, At
        <5>2. k = SeekLock(th[t].call) /\ k # <<>>
          BY <3>1, <3>6, <4>3
        <5>3. th[t].call \in SeekCalls
          BY <5>1, Known DEF CallPlace, SeekLabels
        <5>4. k \in Keys
          BY <5>2, <5>3, SeekLockKey
        <5> QED
          BY <1>2, <2>2, <5>1, <5>2, <5>4
      <4>4. CASE l.pc \in {"execute", "seek_store"}
        <5>1. th[t].pc \in {"target", "execute"} /\ ~ SeekEnds(t)
          <6>1. th[t].pc \in {"target", "execute"}
            BY <3>6, <4>4 DEF seek_target, lseek_execute, At
          <6>2. ~ SeekEnds(t)
            <7>1. SeekEnds(t) => th'[t] = Idle
              BY <1>2 DEF SeekEnds
            <7> QED
              BY <4>4, <7>1, IdleLocals
          <6> QED
            BY <6>1, <6>2
        <5>2. holder' = holder
          <6>1. CASE seek_target(t)
            BY <5>1, <6>1 DEF seek_target
          <6>2. CASE lseek_execute(t)
            BY <5>1, <6>2 DEF lseek_execute
          <6> QED
            BY <3>6, <4>4, <6>1, <6>2
        <5>3. k = SeekLock(th[t].call) /\ k # <<>>
          BY <3>1, <3>6, <4>4
        <5>4. k \in LockSet(th[t])
          BY <5>1, <5>3 DEF LockSet
        <5> QED
          BY <2>2, <3>2, <5>2, <5>4
      <4> QED
        BY <3>1, <4>1, <4>2, <4>3, <4>4
    <3> QED
      BY <1>1, <3>3, <3>4, <3>5, <3>6 DEF Arrives
  <2> QED
    BY <2>1, <2>2
<1> QED
  BY <1>4 DEF LocksHeld

\* Two threads are not inside the same lock.
LEMMA MutualExclusion ==
  ASSUME LocksHeld, NEW t \in Threads, NEW u \in Threads, NEW k, k \in LockSet(th[t]), k \in LockSet(th[u])
  PROVE  t = u
  BY DEF LocksHeld

\* The size of a file that is appended to changes only by appends.
LEMMA AppendGrows ==
  ASSUME Globals, LocalsInv, LocksHeld, AppendInv, NEW t \in Threads, Footprint(t),
         NEW f \in Files, f \in sys.append
  PROVE  /\ i_size'[f] = sys.size[f] + grown'[f]
         /\ i_size'[f] # i_size[f] => At(t, "copy") /\ File(t) = f
<1>1. i_size \in [Files -> 0 .. Half - 1] /\ grown \in [Files -> Int] /\ i_size[f] = sys.size[f] + grown[f]
  BY DEF Globals, AppendInv, AppendsDisjoint
<1>2. sys.size[f] \in Int /\ grown[f] \in Int /\ i_size[f] \in Int
  BY <1>1, Known, Words DEF SystemOK
<1>3. CASE i_size' = i_size /\ grown' = grown
  BY <1>1, <1>3
<1>4. CASE generic_file_buffered_write(t)
  <2> DEFINE g == File(t)
             from == th[t].from
  <2>1. PICK m \in 0 .. th[t].n :
          /\ i_size' = [i_size EXCEPT ![g] = IF m > 0 THEN Greatest(@, from + m) ELSE @]
          /\ grown' = [grown EXCEPT ![g] = IF g \in sys.append THEN @ + m ELSE @]
    BY <1>4 DEF generic_file_buffered_write
  <2>2. At(t, "copy") /\ m \in Nat
    BY <1>4, <2>1 DEF generic_file_buffered_write
  <2>3. CASE g = f
    <3>1. from = i_size[f]
      BY <2>2, <2>3 DEF AppendInv
    <3>2. i_size'[f] = (IF m > 0 THEN Greatest(i_size[f], i_size[f] + m) ELSE i_size[f])
          /\ grown'[f] = grown[f] + m
      BY <1>1, <2>1, <2>3, <3>1
    <3>3. i_size'[f] = i_size[f] + m
      BY <1>2, <2>2, <3>2 DEF Greatest
    <3>4. i_size'[f] = sys.size[f] + grown'[f]
      BY <1>1, <1>2, <2>2, <3>2, <3>3
    <3> QED
      BY <2>2, <2>3, <3>4
  <2>4. CASE g # f
    <3>1. i_size'[f] = i_size[f] /\ grown'[f] = grown[f]
      BY <1>1, <2>1, <2>4
    <3> QED
      BY <1>1, <3>1
  <2> QED
    BY <2>3, <2>4
<1>5. CASE splice_write(t)
  <2> DEFINE out == th[t].call.out
  <2>1. out \notin sys.append
    BY <1>5, Known DEF splice_write, At, CallPlace, OutLabels
  <2>2. \E new : i_size' = [i_size EXCEPT ![out] = new]
    BY <1>5 DEF splice_write
  <2>3. grown' = grown
    BY <1>5 DEF splice_write
  <2>4. i_size'[f] = i_size[f]
    BY <1>1, <2>1, <2>2
  <2> QED
    BY <1>1, <2>3, <2>4
<1> QED
  BY <1>3, <1>4, <1>5 DEF Footprint

LEMMA AppendStep ==
  ASSUME Globals, LocalsInv, LocksHeld, AppendInv, NEW t \in Threads, Call(t) \/ Step(t) \/ Promise(t)
  PROVE  AppendInv'
<1>1. Footprint(t) /\ Arrives(t) /\ sys' = sys
  BY FootprintOK, ArrivesOK DEF Footprint
<1>2. sys.append \subseteq Files /\ DOMAIN th = Threads /\ th[t] \in Locals
  BY Known DEF SystemOK
<1>3. AppendsDisjoint'
  BY <1>1, <1>2, AppendGrows DEF AppendsDisjoint
<1>4. ASSUME NEW u \in Threads, th'[u].pc = "copy", th'[u].call.f \in sys.append
      PROVE  th'[u].from = i_size'[th'[u].call.f]
  <2>1. ASSUME th'[u] = th[u] PROVE th'[u].from = i_size'[th'[u].call.f]
    <3> DEFINE f == th[u].call.f
    <3>1. th[u].pc = "copy" /\ f \in sys.append /\ f \in Files /\ th[u].from = i_size[f]
      BY <1>2, <1>4, <2>1 DEF AppendInv, At, File
    <3>2. i_size'[f] = i_size[f]
      <4> SUFFICES ASSUME i_size'[f] # i_size[f] PROVE FALSE
        OBVIOUS
      <4>1. th[t].pc = "copy" /\ th[t].call.f = f
        BY <1>1, <3>1, AppendGrows DEF At, File
      <4>2. <<"i_mutex", f>> \in LockSet(th[t]) /\ <<"i_mutex", f>> \in LockSet(th[u])
        BY <3>1, <4>1 DEF LockSet
      <4>3. t = u
        BY <4>2, MutualExclusion
      <4>4. generic_file_buffered_write(t)
        BY <1>1, <4>1 DEF Footprint, splice_write, At
      <4>5. PICK n, m : th' = [th EXCEPT ![t] = Returned(@, n, th[t].from, m)]
        BY <4>4 DEF generic_file_buffered_write
      <4>6. th'[t].pc \in {"call", "done"}
        BY <1>2, <4>5, ReturnedPlace
      <4> QED
        BY <1>4, <4>3, <4>6
    <3> QED
      BY <2>1, <3>1, <3>2
  <2>2. CASE u # t
    BY <1>1, <2>1, <2>2 DEF Footprint
  <2>3. CASE u = t /\ generic_write_checks(t)
    <3> DEFINE f == th[t].call.f
               from == IF f \in sys.append THEN i_size[f] ELSE th[t].pos
    <3>1. i_size' = i_size
      BY <2>3 DEF generic_write_checks
    <3>2. CASE \E n, e : th' = [th EXCEPT ![t] = Returned(@, n, e, 0)]
      <4>1. th'[t].pc \in {"call", "done"}
        BY <1>2, <3>2, ReturnedPlace
      <4> QED
        BY <1>4, <2>3, <4>1
    <3>3. CASE \E n : th' = [th EXCEPT ![t].pc = "copy", ![t].from = from, ![t].n = n]
      <4>1. PICK n : th' = [th EXCEPT ![t].pc = "copy", ![t].from = from, ![t].n = n]
        BY <3>3
      <4> HIDE DEF from
      <4>2. th'[t].from = from /\ th'[t].call.f = f
        BY <1>2, <4>1 DEF Locals
      <4> QED
        BY <1>4, <2>3, <3>1, <4>2 DEF from
    <3> QED
      BY <2>3, <3>2, <3>3 DEF generic_write_checks, File
  <2>4. CASE u = t /\ Call(t)
    <3>1. th'[t].pc \in {"done", "call", "target", "lock", "verify_out"}
      BY <2>4, BeginsOK DEF Begins
    <3> QED
      BY <1>4, <2>4, <3>1
  <2>5. CASE u = t /\ th'[t] = Idle
    BY <1>4, <2>5, IdleLocals
  <2> QED
    BY <1>1, <1>4, <2>1, <2>2, <2>3, <2>4, <2>5 DEF Arrives
<1> QED
  BY <1>1, <1>3, <1>4 DEF AppendInv, At, File

-----------------------------------------------------------------------------
\* Where a position of a file that only SEEK_CURs use is stored.
LEMMA OnlySeeksStore ==
  ASSUME Globals, LocalsInv, SeekInv, NEW t \in Threads, Footprint(t), NEW f \in only_cur
  PROVE  f_pos'[f] = f_pos[f] \/ (seek_store(t) /\ File(t) = f)
<1> DEFINE l == th[t]
<1>1. ~ At(t, "idle") => Uses(l.call) \cap only_cur = {}
  BY DEF SeekInv
<1>2. f_pos \in [Files -> loff_t] /\ f \in Files
  BY DEF Globals
<1>3. CASE Return(t)
  <2>1. l.pc = "done" /\ f_pos' = IF l.call.op = "rw" /\ ~ l.call.positioned
                                    THEN [f_pos EXCEPT ![l.call.f] = l.pos] ELSE f_pos
    BY <1>3 DEF Return, At
  <2>2. l.call.op = "rw" => l.call.f # f
    BY <1>1, <2>1 DEF Uses, At
  <2> QED
    BY <1>2, <2>1, <2>2
<1>4. CASE seek_store(t)
  BY <1>2, <1>4 DEF seek_store
<1>5. CASE store_out(t) \/ store_in(t)
  <2>1. l.pc \in SendLabels /\ ~ At(t, "idle")
    BY <1>5 DEF store_out, store_in, SendStep, At, SendLabels, OutLabels
  <2>5. f_pos' = f_pos \/ \E g \in {l.call.f, l.call.out} : \E p : f_pos' = [f_pos EXCEPT ![g] = p]
    BY <1>5 DEF store_out, store_in
  <2>2. l.call \in SendCalls
    BY <2>1, Known DEF CallPlace
  <2>3. l.call.op = "send"
    BY <2>2 DEF SendCalls
  <2>4. l.call.f # f /\ l.call.out # f
    BY <1>1, <2>1, <2>3 DEF Uses
  <2> QED
    BY <1>2, <2>4, <2>5
<1> QED
  BY <1>3, <1>4, <1>5 DEF Footprint

\* A successful SEEK_CUR adds to the position what it adds to the sum.
LEMMA SeekAdds ==
  ASSUME Globals, LocalsInv, SeekInv, NEW t \in Threads, th[t].pc \in {"execute", "seek_store"},
         SeekSucceeds(th[t].call, th[t].val), NEW f \in only_cur
  PROVE  IF File(t) = f THEN th[t].val = Signed(sys.start[f] + moved'[f]) ELSE moved'[f] = moved[f]
<1> DEFINE l == th[t]
           c == l.call
<1>1. c \in SeekCalls
  BY Known DEF CallPlace, SeekLabels
<1>2. c.f \in Files /\ c.off \in Int /\ c.op = "seek"
  BY <1>1, SeekValWord DEF SeekCalls
<1>3. moved' = [moved EXCEPT ![c.f] = IF c.origin = SEEK_CUR THEN @ + c.off ELSE @]
  BY DEF SeekSucceeds
<1>4. moved \in [Files -> Int] /\ only_cur \subseteq Files
  BY DEF Globals
<1>5. CASE c.f = f
  <2>1. c.origin = SEEK_CUR
    BY <1>2, <1>5 DEF SeekInv, Uses, At
  <2>2. l.val = Signed(f_pos[f] + c.off) /\ f_pos[f] = Signed(sys.start[f] + moved[f])
    BY <1>5 DEF SeekInv, SeeksAddUp, File
  <2>3. moved'[f] = moved[f] + c.off /\ moved[f] \in Int
    BY <1>3, <1>4, <1>5, <2>1
  <2>4. sys.start[f] \in Int
    BY <1>4, Known, Words DEF SystemOK
  <2> DEFINE a == sys.start[f] + moved[f]
  <2>5. a \in Int /\ Signed(Signed(a) + c.off) = Signed(a + c.off)
    BY <1>2, <2>3, <2>4, SignedAdd
  <2>6. a + c.off = sys.start[f] + moved'[f]
    BY <1>2, <2>3, <2>4
  <2> QED
    BY <1>5, <2>2, <2>5, <2>6 DEF File
<1>6. CASE c.f # f
  BY <1>2, <1>3, <1>4, <1>6 DEF File
<1> QED
  BY <1>5, <1>6

LEMMA SeekStep ==
  ASSUME Globals, LocalsInv, LocksHeld, SeekInv, NEW t \in Threads, Call(t) \/ Step(t) \/ Promise(t)
  PROVE  SeekInv'
<1>1. Footprint(t) /\ Arrives(t) /\ sys' = sys
  BY FootprintOK, ArrivesOK DEF Footprint
<1>2. /\ DOMAIN th = Threads /\ th[t] \in Locals /\ f_pos \in [Files -> loff_t]
      /\ only_cur \subseteq Files
  BY Known DEF Globals
<1>3. only_cur' \subseteq only_cur
  <2>1. CASE Call(t)
    BY <2>1, BeginsOK DEF Begins, Enter
  <2> QED
    BY <1>1, <2>1 DEF Footprint
<1>4. ASSUME NEW f \in only_cur' PROVE f_pos'[f] = Signed(sys.start[f] + moved'[f])
  <2>1. f \in only_cur /\ f_pos[f] = Signed(sys.start[f] + moved[f])
    BY <1>3, <1>4 DEF SeekInv, SeeksAddUp
  <2>2. CASE moved' = moved /\ f_pos'[f] = f_pos[f]
    BY <2>1, <2>2
  <2>3. CASE lseek_execute(t)
    <3>1. f_pos' = f_pos
      BY <2>3 DEF lseek_execute
    <3>2. th[t].pc = "execute"
      BY <2>3 DEF lseek_execute, At
    <3>3. CASE moved' = moved
      BY <2>1, <3>1, <3>3
    <3>4. CASE SeekSucceeds(th[t].call, th[t].val) /\ th[t].val = f_pos[th[t].call.f]
      <4>1. CASE th[t].call.f = f
        BY <2>1, <3>1, <3>2, <3>4, <4>1, SeekAdds DEF File
      <4>2. CASE th[t].call.f # f
        BY <2>1, <3>1, <3>2, <3>4, <4>2, SeekAdds DEF File
      <4> QED
        BY <4>1, <4>2
    <3> QED
      BY <2>3, <3>3, <3>4 DEF lseek_execute, history
  <2>4. CASE seek_store(t)
    <3>1. f_pos' = [f_pos EXCEPT ![th[t].call.f] = th[t].val] /\ SeekSucceeds(th[t].call, th[t].val)
          /\ th[t].pc = "seek_store"
      BY <2>4 DEF seek_store, File, At
    <3>2. CASE th[t].call.f = f
      <4>1. f_pos'[f] = th[t].val
        BY <1>2, <2>1, <3>1, <3>2
      <4> QED
        BY <2>1, <3>1, <3>2, <4>1, SeekAdds DEF File
    <3>3. CASE th[t].call.f # f
      <4>1. f_pos'[f] = f_pos[f]
        BY <1>2, <2>1, <3>1, <3>3
      <4> QED
        BY <2>1, <3>1, <3>3, <4>1, SeekAdds DEF File
    <3> QED
      BY <3>2, <3>3
  <2> QED
    BY <1>1, <2>1, <2>2, <2>3, <2>4, OnlySeeksStore DEF Footprint
<1>5. ASSUME NEW u \in Threads, th'[u].pc # "idle" PROVE Uses(th'[u].call) \cap only_cur' = {}
  <2>1. CASE th[u].pc # "idle" /\ th'[u].call = th[u].call
    BY <1>3, <2>1 DEF SeekInv, At
  <2>2. CASE u = t /\ Call(t)
    <3>1. PICK c : Enter(t, c) /\ th'[t].call = c
      BY <2>2, BeginsOK DEF Begins
    <3> QED
      BY <2>2, <3>1 DEF Enter, Uses
  <2>3. CASE u = t /\ th'[t] = Idle
    BY <1>5, <2>3, IdleLocals
  <2>4. CASE th'[u] = th[u]
    BY <1>5, <2>1, <2>4
  <2> QED
    BY <1>1, <2>1, <2>2, <2>3, <2>4 DEF Footprint, Arrives
<1>6. ASSUME NEW u \in Threads, th'[u].pc \in {"execute", "seek_store"}, th'[u].call.f \in only_cur'
      PROVE  /\ th'[u].call.off # 0
             /\ th'[u].val = Signed(f_pos'[th'[u].call.f] + th'[u].call.off)
  <2> DEFINE f == th[u].call.f
  <2>1. CASE th'[u] = th[u]
    <3>1. f \in only_cur /\ th[u].pc \in {"execute", "seek_store"}
      BY <1>3, <1>6, <2>1
    <3>2. th[u].call.off # 0 /\ th[u].val = Signed(f_pos[f] + th[u].call.off)
      BY <3>1 DEF SeekInv, File
    <3>3. f_pos'[f] = f_pos[f]
      <4> SUFFICES ASSUME f_pos'[f] # f_pos[f] PROVE FALSE
        OBVIOUS
      <4>1. seek_store(t) /\ th[t].call.f = f
        BY <1>1, <3>1, OnlySeeksStore DEF File
      <4>2. t # u
        <5>1. th[t].pc = "seek_store" /\ th'[t] = Idle
          BY <1>2, <4>1 DEF seek_store, At, SeekEnds
        <5> QED
          BY <1>6, <5>1, IdleLocals
      <4>3. th[t].pc = "seek_store" /\ th[t].call \in SeekCalls /\ th[u].call \in SeekCalls
        <5>1. th[t].pc = "seek_store"
          BY <4>1 DEF seek_store, At
        <5> QED
          BY <3>1, <5>1, Known DEF CallPlace, SeekLabels
      <4>4. th[t].call.op = "seek" /\ th[u].call.op = "seek"
        BY <4>3 DEF SeekCalls
      <4>5. th[t].call.origin = SEEK_CUR /\ th[u].call.origin = SEEK_CUR
        BY <3>1, <4>1, <4>3, <4>4 DEF SeekInv, Uses, At
      <4>6. th[t].call.off # 0
        BY <3>1, <4>1, <4>3 DEF SeekInv, File
      <4>7. SeekLock(th[t].call) = SeekLock(th[u].call)
        BY <3>2, <4>1, <4>5, <4>6 DEF SeekLock
      <4>8. SeekLock(th[t].call) # <<>>
        BY <4>5, <4>6 DEF SeekLock
      <4>9. SeekLock(th[t].call) \in LockSet(th[t]) /\ SeekLock(th[t].call) \in LockSet(th[u])
        BY <3>1, <4>3, <4>7, <4>8 DEF LockSet
      <4> QED
        BY <4>2, <4>9, MutualExclusion
    <3> QED
      BY <2>1, <3>2, <3>3
  <2>2. CASE u = t /\ seek_target(t)
    <3>1. th[t].pc = "target"
      BY <2>2 DEF seek_target, At
    <3>2. CASE SeekEnds(t)
      <4>1. th'[t] = Idle
        BY <1>2, <3>2 DEF SeekEnds
      <4> QED
        BY <1>6, <2>2, <4>1, IdleLocals
    <3>3. CASE ~ SeekEnds(t)
      <4> DEFINE c == th[t].call
                 v == SeekVal(c, i_size[c.f])
      <4>1. /\ c.origin = SEEK_CUR => c.off # 0
            /\ th' = [th EXCEPT ![t].pc = "execute", ![t].val = v] /\ f_pos' = f_pos
        BY <2>2, <3>3 DEF seek_target, SeekVal
      <4> HIDE DEF v
      <4>2. th'[t].val = v /\ th'[t].call = th[t].call
        BY <1>2, <4>1 DEF Locals
      <4>3. c \in SeekCalls
        BY <3>1, Known DEF CallPlace, SeekLabels
      <4>4. c.f \in only_cur /\ c.op = "seek"
        BY <1>3, <1>6, <2>2, <4>2, <4>3 DEF SeekCalls
      <4>5. c.origin = SEEK_CUR
        BY <3>1, <4>4 DEF SeekInv, Uses, At
      <4>6. v = Signed(f_pos[c.f] + c.off)
        BY <4>3, <4>5, SeekValWord DEF v
      <4> QED
        BY <2>2, <4>1, <4>2, <4>5, <4>6
    <3> QED
      BY <3>2, <3>3
  <2>3. CASE u = t /\ lseek_execute(t)
    <3>1. th[t].pc = "execute"
      BY <2>3 DEF lseek_execute, At
    <3>2. CASE SeekEnds(t)
      <4>1. th'[t] = Idle
        BY <1>2, <3>2 DEF SeekEnds
      <4> QED
        BY <1>6, <2>3, <4>1, IdleLocals
    <3>3. CASE Go(t, "seek_store") /\ f_pos' = f_pos
      <4>1. th'[t].val = th[t].val /\ th'[t].call = th[t].call
        BY <1>2, <3>3 DEF Go, Locals
      <4>2. th[t].call.f \in only_cur
        BY <1>3, <1>6, <2>3, <4>1
      <4>3. th[t].call.off # 0 /\ th[t].val = Signed(f_pos[th[t].call.f] + th[t].call.off)
        BY <3>1, <4>2 DEF SeekInv, File
      <4> QED
        BY <2>3, <3>3, <4>1, <4>3
    <3> QED
      BY <2>3, <3>2, <3>3 DEF lseek_execute
  <2>4. CASE u = t /\ Call(t)
    <3>1. th'[t].pc \in {"done", "call", "target", "lock", "verify_out"}
      BY <2>4, BeginsOK DEF Begins
    <3> QED
      BY <1>6, <2>4, <3>1
  <2>5. CASE u = t /\ th'[t] = Idle
    BY <1>6, <2>5, IdleLocals
  <2> QED
    BY <1>1, <1>6, <2>1, <2>2, <2>3, <2>4, <2>5 DEF Footprint, Arrives
<1> QED
  BY <1>1, <1>4, <1>5, <1>6 DEF SeekInv, SeeksAddUp, At, File

-----------------------------------------------------------------------------
LockInv == LocksHeld /\ AppendInv /\ SeekInv

LEMMA LockStart ==
  ASSUME Init
  PROVE  LockInv
<1>1. \A t \in Threads : th[t] = Idle
  BY DEF Init
<1>2. LocksHeld
  BY <1>1, IdleLocals DEF LocksHeld, LockSet
<1>3. /\ f_pos = sys.start /\ i_size = sys.size /\ moved = [f \in Files |-> 0] /\ grown = [f \in Files |-> 0]
      /\ only_cur = Files
  BY DEF Init
<1>4. SystemOK(sys)
  BY Constants DEF Init
<1>5. AppendInv
  <2>1. \A f \in sys.append : i_size[f] = sys.size[f] + grown[f]
    <3>1. \A f \in sys.append : f \in Files /\ sys.size[f] \in Int
      BY <1>4, Words DEF SystemOK
    <3> QED
      BY <1>3, <3>1
  <2> QED
    BY <1>1, <2>1, IdleLocals DEF AppendInv, AppendsDisjoint, At
<1>6. SeekInv
  <2>1. ASSUME NEW f \in Files PROVE f_pos[f] = Signed(sys.start[f] + moved[f])
    <3>1. sys.start[f] \in loff_t /\ sys.start[f] \in Int /\ moved[f] = 0
      BY <1>3, <1>4, Words DEF SystemOK
    <3>2. sys.start[f] + 0 = sys.start[f] /\ Signed(sys.start[f]) = sys.start[f]
      BY <3>1, SignedSame
    <3> QED
      BY <1>3, <3>1, <3>2
  <2> QED
    BY <1>1, <1>3, <2>1, IdleLocals DEF SeekInv, SeeksAddUp, At
<1> QED
  BY <1>2, <1>5, <1>6 DEF LockInv

LEMMA LockInvStep ==
  ASSUME Globals, LocalsInv, LockInv, [Next]_vars
  PROVE  LockInv'
<1>1. CASE UNCHANGED vars
  <2>1. /\ sys' = sys /\ f_pos' = f_pos /\ i_size' = i_size /\ holder' = holder /\ th' = th
        /\ moved' = moved /\ only_cur' = only_cur /\ grown' = grown
    BY <1>1 DEF vars, history
  <2> QED
    BY <2>1 DEF LockInv, LocksHeld, LockSet, SeekLock, Kind, AppendInv, AppendsDisjoint, SeekInv,
                SeeksAddUp, At, File
<1>2. CASE Next
  <2>1. PICK t \in Threads : Call(t) \/ Step(t) \/ Promise(t)
    BY <1>2 DEF Next
  <2> QED
    BY <2>1, LocksStep, AppendStep, SeekStep DEF LockInv
<1> QED
  BY <1>1, <1>2

LEMMA AlwaysLocked == Spec => []LockInv
<1>1. Init => Globals /\ LocalsInv /\ LockInv
  BY Start, LockStart
<1>2. (Globals /\ LocalsInv /\ LockInv) /\ [Next]_vars => (Globals /\ LocalsInv /\ LockInv)'
  BY GlobalsStep, LocalsStep, LockInvStep
<1> QED
  BY <1>1, <1>2, PTL DEF Spec

\* No append is lost and none overwrites another: the size of a file in append
\* mode is its first size and every byte written since, as i_mutex is held
\* from the load of i_size in generic_write_checks to its update, and sendfile
\* refuses such a file.
THEOREM AppendsAddUp == Spec => []AppendsDisjoint
<1>1. LockInv => AppendsDisjoint
  BY DEF LockInv, AppendInv
<1> QED
  BY <1>1, AlwaysLocked, PTL

\* The position of a file that is only moved by SEEK_CUR is the sum of the
\* moves that succeeded, modulo the word: f_lock in generic_file_llseek_size
\* and i_mutex in default_llseek make the load and the store one step.
THEOREM RelativeSeeksAddUp == Spec => []SeeksAddUp
<1>1. LockInv => SeeksAddUp
  BY DEF LockInv, SeekInv
<1> QED
  BY <1>1, AlwaysLocked, PTL

-----------------------------------------------------------------------------
\* A method moved m bytes at the position, which is behind them now.
Transfer(t, m) ==
  LET l == th[t]
      f == l.call.f
  IN  /\ m \in Nat \ {0} /\ m <= MAX_RW_COUNT
      /\ th'[t].pos = Signed(l.pos + m)
      /\ touched' = [touched EXCEPT ![f] = @ \cup Offsets(f, l.pos, m)]
      /\ Addressable(f \in sys.unsigned, l.pos, m)
      /\ sys.kind[f] = "regular" => l.pos + m <= i_size[f]

LEMMA RoomForMore ==
  ASSUME Globals, LocalsInv, NEW t \in Threads, th[t].pc \in RwLabels, kiocb[t].users = 1,
         NEW m \in Nat, m <= Head(th[t].segs)
  PROVE  m <= MAX_RW_COUNT /\ Addressable(th[t].call.f \in sys.unsigned, th[t].pos, m)
<1> DEFINE l == th[t]
           total == Total(l.segs)
           u == l.call.f \in sys.unsigned
<1>1. l \in Locals /\ l.segs # <<>> /\ Addressable(u, l.pos, total) /\ l.got + total <= MAX_RW_COUNT
  BY Known DEF CallPlace, Room
<1>2. l.segs \in Seq(Nat) /\ l.got \in Nat /\ l.pos \in loff_t
  BY <1>1 DEF Locals
<1> DEFINE a == Head(l.segs)
           b == Total(Tail(l.segs))
<1>3. a \in Nat /\ b \in Nat /\ total = a + b /\ m <= a
  BY <1>1, <1>2, TotalRest
<1>4. u \in BOOLEAN
  OBVIOUS
<1> HIDE DEF total, u, a, b, l
<1>5. total \in Nat /\ m <= total /\ m <= MAX_RW_COUNT
  BY <1>1, <1>2, <1>3, Words
<1>6. Addressable(u, l.pos, m)
  BY <1>1, <1>2, <1>4, <1>5, ShorterAddressable
<1> QED
  BY <1>5, <1>6 DEF l, u

LEMMA MethodTransfers ==
  ASSUME Globals, LocalsInv, NEW t \in Threads, At(t, "call"), NEW n, NEW m \in Nat, m <= Head(th[t].segs),
         MethodReturns(t, n, m),
         sys.kind[th[t].call.f] = "regular" /\ m > 0 => th[t].pos + m <= i_size[th[t].call.f]
  PROVE  th'[t].pos = th[t].pos \/ Transfer(t, m)
<1>1. th[t].pc \in RwLabels /\ th[t].pc \notin WaitLabels \cup {"done"}
  BY DEF At, RwLabels, WaitLabels
<1>2. kiocb[t].users = 1 /\ DOMAIN th = Threads /\ th[t] \in Locals
  BY <1>1, Known DEF CallPlace
<1>3. m <= MAX_RW_COUNT /\ Addressable(th[t].call.f \in sys.unsigned, th[t].pos, m)
  BY <1>1, <1>2, RoomForMore
<1>4. th'[t] = Returned(th[t], n, th[t].pos, m)
  BY <1>2 DEF MethodReturns
<1>5. th'[t].pos = IF m > 0 THEN Signed(th[t].pos + m) ELSE th[t].pos
  BY <1>2, <1>4 DEF Returned, Locals
<1>6. touched' = [touched EXCEPT ![th[t].call.f] = @ \cup Offsets(th[t].call.f, th[t].pos, m)]
  BY DEF MethodReturns, Record, File
<1> QED
  BY <1>3, <1>5, <1>6 DEF Transfer

LEMMA Transfers ==
  ASSUME Globals, LocalsInv, NEW t \in Threads,
         generic_file_aio_read(t) \/ plain_method(t) \/ async_method(t) \/ aio_complete(t)
  PROVE  th'[t].pos = th[t].pos \/ \E m : Transfer(t, m)
<1> DEFINE l == th[t]
<1>1. l \in Locals /\ CallPlace(sys, l, kiocb[t], i_size) /\ Accounts(sys, l, kiocb[t]) /\ DOMAIN th = Threads
  BY Known
<1>2. l.pc \in RwLabels /\ (aio_complete(t) => kiocb[t].users = 1 /\ sys.kind[l.call.f] = "async")
  <2>1. CASE aio_complete(t)
    <3>1. kiocb[t].owed = "complete"
      BY <2>1 DEF aio_complete
    <3>2. l.pc \in WaitLabels
      BY <1>1, <3>1 DEF CallPlace
    <3>3. kiocb[t].users # 0 /\ kiocb[t].users \in {0, 1}
      BY <1>1, <3>1, <3>2, Known DEF Accounts, Kiocbs
    <3> QED
      BY <1>1, <3>2, <3>3 DEF CallPlace, RwLabels
  <2>2. CASE generic_file_aio_read(t) \/ plain_method(t) \/ async_method(t)
    <3>1. l.pc = "call"
      BY <2>2 DEF generic_file_aio_read, plain_method, async_method, At
    <3>2. l.pc \notin WaitLabels
      BY <3>1 DEF WaitLabels
    <3>3. ~ aio_complete(t)
      BY <1>1, <3>2 DEF CallPlace, aio_complete
    <3> QED
      BY <3>1, <3>3 DEF RwLabels
  <2> QED
    BY <2>1, <2>2
<1>3. Head(l.segs) \in Nat /\ l.pos \in Int /\ l.call.f \in Files /\ i_size[l.call.f] \in Int
  <2>1. l.segs \in Seq(Nat) /\ l.segs # <<>>
    BY <1>1, <1>2 DEF CallPlace, Locals
  <2>2. l.pos \in Int /\ l.call.f \in Files
    BY <1>2, CallFiles
  <2>3. i_size[l.call.f] \in Int
    BY <2>2, Words DEF Globals
  <2>4. Head(l.segs) \in Nat
    BY <2>1, TotalRest
  <2> QED
    BY <2>2, <2>3, <2>4
<1>4. \A n \in MethodResults(t) : Bytes(n) \in Nat /\ Bytes(n) <= Head(l.segs)
  <2>1. \A n \in {EIO} \cup 0 .. Head(l.segs) : n \in Int /\ n <= Head(l.segs)
    <3> HIDE DEF l
    <3> QED
      BY <1>3, Errors
  <2> QED
    BY <1>3, <2>1 DEF MethodResults, Bytes, Greatest
<1>5. CASE generic_file_aio_read(t)
  <2> DEFINE room == Greatest(i_size[l.call.f] - l.pos, 0)
             c    == Least(Head(l.segs), room)
  <2>1. PICK m \in 0 .. c : \E n : MethodReturns(t, n, m)
    BY <1>5 DEF generic_file_aio_read, File
  <2>2. /\ m \in Nat /\ m <= Head(l.segs) /\ m <= room
    <3>1. room \in Nat
      <4> HIDE DEF l
      <4> QED
        BY <1>3 DEF Greatest
    <3> HIDE DEF room, l
    <3> QED
      BY <1>3, <2>1, <3>1 DEF Least
  <2>3. m > 0 => l.pos + m <= i_size[l.call.f]
    <3> HIDE DEF l
    <3> QED
      BY <1>3, <2>2 DEF Greatest
  <2> QED
    BY <1>5, <2>1, <2>2, <2>3, MethodTransfers DEF generic_file_aio_read
<1>6. CASE plain_method(t)
  BY <1>4, <1>6, MethodTransfers DEF plain_method, Kind, File
<1>7. CASE async_method(t)
  <2>1. CASE \E n \in MethodResults(t) : MethodReturns(t, n, Bytes(n))
    BY <1>4, <1>7, <2>1, MethodTransfers DEF async_method, Kind, File
  <2>2. CASE th' = [th EXCEPT ![t].pc = "retry", ![t].tries = @ + 1] \/ Go(t, "wait")
    BY <1>1, <2>2 DEF Go, Locals
  <2> QED
    BY <1>7, <2>1, <2>2 DEF async_method
<1>8. CASE aio_complete(t)
  <2>1. PICK n \in MethodResults(t) :
          /\ Record(File(t), th[t].pos, Bytes(n))
          /\ th' = [th EXCEPT ![t].pos = Signed(@ + Bytes(n)), ![t].got = @ + Bytes(n)]
    BY <1>8 DEF aio_complete
  <2> DEFINE m == Bytes(n)
  <2>2. m \in Nat /\ m <= Head(l.segs)
    BY <1>4
  <2>3. th'[t].pos = Signed(l.pos + m)
    BY <1>1, <2>1 DEF Locals
  <2>4. m <= MAX_RW_COUNT /\ Addressable(l.call.f \in sys.unsigned, l.pos, m)
    BY <1>2, <1>8, <2>2, RoomForMore
  <2>5. touched' = [touched EXCEPT ![l.call.f] = @ \cup Offsets(l.call.f, l.pos, m)]
    BY <2>1 DEF Record, File
  <2>6. CASE m = 0
    <3>1. l.pos + m = l.pos /\ l.pos \in loff_t
      BY <1>3, <2>6, CallFiles
    <3>2. Signed(l.pos) = l.pos
      BY <3>1, SignedSame
    <3> QED
      BY <2>3, <3>1, <3>2
  <2>7. CASE m # 0
    <3>1. sys.kind[l.call.f] # "regular"
      BY <1>2, <1>8
    <3>2. m \in Nat \ {0}
      BY <2>2, <2>7
    <3> HIDE DEF m
    <3>3. Transfer(t, m)
      BY <2>3, <2>4, <2>5, <3>1, <3>2 DEF Transfer
    <3> QED
      BY <3>3
  <2> QED
    BY <2>6, <2>7
<1> QED
  BY <1>5, <1>6, <1>7, <1>8

\* A write moved m bytes, under the limit of the file system.
Written(t, m) ==
  LET l == th[t]
      f == l.call.f
  IN  /\ m \in Nat /\ l.from \in Nat /\ l.from + m <= sys.maxbytes[f] /\ l.from + m < Half
      /\ sys.kind[f] = "regular" /\ f \in Files
      /\ th'[t].pos = IF m > 0 THEN l.from + m ELSE l.pos
      /\ touched' = [touched EXCEPT ![f] = @ \cup Offsets(f, l.from, m)]
      /\ i_size' = [i_size EXCEPT ![f] = IF m > 0 THEN Greatest(@, l.from + m) ELSE @]

LEMMA Writes ==
  ASSUME Globals, LocalsInv, NEW t \in Threads, generic_file_buffered_write(t)
  PROVE  \E m : Written(t, m)
<1> DEFINE l == th[t]
           f == l.call.f
<1>1. /\ l \in Locals /\ CallPlace(sys, l, kiocb[t], i_size) /\ Room(sys, l, kiocb[t])
      /\ DOMAIN th = Threads /\ SystemOK(sys)
  BY Known
<1>2. l.pc = "copy" /\ l.pc \in RwLabels
  BY DEF generic_file_buffered_write, At, RwLabels
<1>3. /\ l.n \in Nat /\ l.from + l.n <= sys.maxbytes[f] /\ sys.kind[f] = "regular" /\ l.from >= 0
      /\ f \in Files /\ l.from \in Int
  BY <1>1, <1>2, CallFiles DEF CallPlace, Room
<1>4. PICK m \in 0 .. l.n :
        /\ \E n : th' = [th EXCEPT ![t] = Returned(@, n, l.from, m)]
        /\ i_size' = [i_size EXCEPT ![f] = IF m > 0 THEN Greatest(@, l.from + m) ELSE @]
        /\ Record(f, l.from, m)
  BY DEF generic_file_buffered_write, File
<1>5. sys.maxbytes[f] \in Int /\ sys.maxbytes[f] < Half
  BY <1>1, <1>3, Words DEF SystemOK
<1>6. m \in Nat /\ l.from \in Nat /\ l.from + m <= sys.maxbytes[f] /\ l.from + m < Half
  <2> HIDE DEF l, f
  <2> QED
    BY <1>3, <1>4, <1>5, Words
<1>7. th'[t].pos = IF m > 0 THEN Signed(l.from + m) ELSE l.pos
  BY <1>1, <1>4 DEF Returned, Locals
<1>8. Signed(l.from + m) = l.from + m
  <2> DEFINE x == l.from + m
  <2>1. x \in Int /\ -Half <= x /\ x < Half
    <3> HIDE DEF l
    <3> QED
      BY <1>6, Words
  <2>2. x \in loff_t
    <3> HIDE DEF x
    <3> QED
      BY <2>1, Words
  <2> QED
    BY <2>2, SignedSame
<1>9. Written(t, m)
  BY <1>3, <1>4, <1>6, <1>7, <1>8 DEF Written, Record
<1> QED
  BY <1>9

\* A file that no sendfile writes to is not the output of one.
LEMMA OutOfReach ==
  ASSUME Globals, LocalsInv, PositionInv, NEW t \in Threads, th[t].pc \in SendLabels
  PROVE  ~ NotOut(sys, th[t].call.out)
<1>1. th[t].call \in SendCalls
  BY Known DEF CallPlace
<1>2. th[t].pc # "idle"
  BY DEF SendLabels, OutLabels
<1>3. th[t].call \in sys.calls[t] /\ th[t].call.op = "send"
  BY <1>1, <1>2 DEF PositionInv, SendCalls
<1> QED
  BY <1>3 DEF NotOut

LEMMA ValidSizes ==
  ASSUME Globals, LocalsInv, PositionInv, NEW t \in Threads, Footprint(t), NEW f \in Files, NotOut(sys, f)
  PROVE  i_size'[f] <= sys.maxbytes[f]
<1>1. i_size \in [Files -> 0 .. Half - 1] /\ i_size[f] <= sys.maxbytes[f]
  BY DEF Globals, PositionInv
<1>2. CASE i_size' = i_size
  BY <1>1, <1>2
<1>3. CASE generic_file_buffered_write(t)
  <2>1. PICK m : Written(t, m)
    BY <1>3, Writes
  <2> DEFINE g == th[t].call.f
             e == th[t].from + m
  <2>2. i_size' = [i_size EXCEPT ![g] = IF m > 0 THEN Greatest(@, e) ELSE @] /\ e <= sys.maxbytes[g]
    BY <2>1 DEF Written
  <2> HIDE DEF g, e
  <2> QED
    BY <1>1, <2>2 DEF Greatest
<1>4. CASE splice_write(t)
  <2> DEFINE out == th[t].call.out
  <2>1. \E new : i_size' = [i_size EXCEPT ![out] = new]
    BY <1>4 DEF splice_write
  <2>2. out # f
    BY <1>4, OutOfReach DEF splice_write, At, SendLabels, OutLabels
  <2> QED
    BY <1>1, <2>1, <2>2
<1> QED
  BY <1>2, <1>3, <1>4 DEF Footprint

LEMMA ValidPositions ==
  ASSUME Globals, LocalsInv, PositionInv, NEW t \in Threads, Footprint(t), NEW f \in Files, NotOut(sys, f)
  PROVE  Valid(sys, f, f_pos'[f])
<1> DEFINE l == th[t]
<1>1. f_pos \in [Files -> loff_t] /\ Valid(sys, f, f_pos[f]) /\ HeldValid(sys, l)
  <2>1. f_pos \in [Files -> loff_t]
    BY DEF Globals
  <2>2. Valid(sys, f, f_pos[f])
    BY DEF PositionInv
  <2>3. HeldValid(sys, l)
    BY DEF PositionInv
  <2> QED
    BY <2>1, <2>2, <2>3
<1>2. ASSUME NEW p, f_pos' = [f_pos EXCEPT ![l.call.f] = p], l.call.f = f => Valid(sys, f, p)
      PROVE  Valid(sys, f, f_pos'[f])
  BY <1>1, <1>2
<1>3. CASE f_pos' = f_pos
  BY <1>1, <1>3
<1>4. CASE Return(t)
  <2>1. l.pc = "done" /\ f_pos' = IF l.call.op = "rw" /\ ~ l.call.positioned
                                    THEN [f_pos EXCEPT ![l.call.f] = l.pos] ELSE f_pos
    BY <1>4 DEF Return, At
  <2>2. CASE l.call.op = "rw" /\ ~ l.call.positioned
    <3>1. Unpositioned(l)
      BY <2>1, <2>2 DEF Unpositioned
    <3>2. l.call.f = f => Valid(sys, f, l.pos)
      BY <1>1, <3>1 DEF HeldValid
    <3> QED
      BY <1>2, <2>1, <2>2, <3>2
  <2> QED
    BY <1>3, <2>1, <2>2
<1>5. CASE seek_store(t)
  <2>1. l.pc = "seek_store" /\ f_pos' = [f_pos EXCEPT ![l.call.f] = l.val]
    BY <1>5 DEF seek_store, At, File
  <2>2. l.call.f = f => Valid(sys, f, l.val)
    BY <1>1, <2>1 DEF HeldValid
  <2> QED
    BY <1>2, <2>1, <2>2
<1>6. CASE store_out(t)
  <2>1. l.pc = "add_store" /\ \E p : f_pos' = [f_pos EXCEPT ![l.call.out] = p]
    BY <1>6 DEF store_out, SendStep, At
  <2>2. l.call.out # f
    BY <2>1, OutOfReach DEF SendLabels, OutLabels
  <2> QED
    BY <1>1, <2>1, <2>2
<1>7. CASE store_in(t)
  <2>1. l.pc = "store_in"
    BY <1>7 DEF store_in, SendStep, At
  <2>2. CASE ~ l.call.positioned /\ f_pos' = [f_pos EXCEPT ![l.call.f] = l.sd]
    <3>1. l.call.f = f => Valid(sys, f, l.sd)
      BY <1>1, <2>1, <2>2 DEF HeldValid
    <3> QED
      BY <1>2, <2>2, <3>1
  <2> QED
    BY <1>3, <1>7, <2>2 DEF store_in
<1> QED
  BY <1>3, <1>4, <1>5, <1>6, <1>7 DEF Footprint

\* What is behind a transfer of an ordinary file is an offset of it.
LEMMA ValidTransfer ==
  ASSUME Globals, LocalsInv, PositionInv, NEW t \in Threads, NEW m, Transfer(t, m),
         th[t].call.f \in Files, NotOut(sys, th[t].call.f), Valid(sys, th[t].call.f, th[t].pos)
  PROVE  Valid(sys, th[t].call.f, th'[t].pos)
<1> DEFINE l == th[t]
           f == l.call.f
           u == f \in sys.unsigned
           p == l.pos
<1>1. ~ u /\ u \in BOOLEAN /\ p \in loff_t /\ p >= 0 /\ m \in Nat /\ 0 \in Nat /\ m + 0 = m
  BY CallFiles DEF NotOut, Valid, Transfer
<1>2. Addressable(u, p, m) /\ m <= MAX_RW_COUNT /\ th'[t].pos = Signed(p + m)
      /\ (sys.kind[f] = "regular" => p + m <= i_size[f])
  BY DEF Transfer
<1>3. i_size[f] <= sys.maxbytes[f] /\ i_size[f] \in Int /\ sys.maxbytes[f] \in Int
  BY Known, Words DEF PositionInv, SystemOK
<1> HIDE DEF u, p, f, l
<1>4. Signed(p + m) = p + m
  BY <1>1, <1>2, Onward
<1>5. p + m \in Int /\ p + m >= 0
  BY <1>1, Words
<1>6. sys.kind[f] = "regular" => p + m <= sys.maxbytes[f]
  BY <1>2, <1>3, <1>5
<1>7. Valid(sys, f, th'[t].pos)
  BY <1>2, <1>4, <1>5, <1>6 DEF Valid
<1> QED
  BY <1>7 DEF f, l

LEMMA ValidHeld ==
  ASSUME Globals, LocalsInv, PositionInv, NEW t \in Threads, Call(t) \/ Step(t) \/ Promise(t)
  PROVE  /\ th'[t].pc # "idle" => th'[t].call \in sys.calls[t]
         /\ HeldValid(sys, th'[t])
<1> DEFINE l == th[t]
           l2 == th'[t]
           f == l2.call.f
<1>1. Footprint(t) /\ Arrives(t)
  BY FootprintOK, ArrivesOK
<1>2. l \in Locals /\ CallPlace(sys, l, kiocb[t], i_size) /\ DOMAIN th = Threads /\ SystemOK(sys)
  BY Known
<1>3. HeldValid(sys, l) /\ (l.pc # "idle" => l.call \in sys.calls[t])
  BY DEF PositionInv
<1>4. l2 \in Locals /\ CallPlace(sys, l2, kiocb'[t], i_size')
  <2>1. LocalsInv' /\ sys' = sys
    BY <1>1, LocalsStep DEF Footprint, Next
  <2> QED
    BY <2>1 DEF LocalsInv, LocalOK
<1>5. CASE l2 = l
  BY <1>3, <1>5
<1>6. CASE l2 = Idle
  <2>1. l2.pc = "idle"
    BY <1>6, IdleLocals
  <2> QED
    BY <2>1 DEF HeldValid, Unpositioned, RwLabels, RetryLabels, WaitLabels, OutLabels
<1>7. CASE Call(t)
  <2>1. PICK c \in sys.calls[t] :
          /\ l2.call = c /\ l2.pc \in {"done", "call", "target", "lock", "verify_out"}
          /\ c.op = "rw" => l2.pos = IF c.positioned THEN c.at ELSE f_pos[c.f]
    BY <1>7, BeginsOK DEF Begins
  <2>2. ASSUME Unpositioned(l2), NotOut(sys, f) PROVE Valid(sys, f, l2.pos)
    <3>1. l2.pos = f_pos[f] /\ c.op = "rw"
      BY <2>1, <2>2 DEF Unpositioned
    <3>2. f \in Files
      <4>1. c \in RwCalls
        BY <3>1, CallKinds DEF Globals
      <4> QED
        BY <2>1, <4>1 DEF RwCalls
    <3>3. Valid(sys, f, f_pos[f])
      BY <2>2, <3>2 DEF PositionInv
    <3> QED
      BY <3>1, <3>3
  <2> QED
    BY <2>1, <2>2 DEF HeldValid, OutLabels
<1>8. CASE /\ l.pc # "idle" /\ l2.call = l.call
           /\ l2.pc = "seek_store" => lseek_execute(t)
           /\ l2.pc \in {"splice", "store_in"} \cup OutLabels =>
                l.pc \in {"splice"} \cup OutLabels \/ do_splice_direct(t)
           /\ l2.pos # l.pos => \/ generic_file_aio_read(t) \/ plain_method(t) \/ async_method(t)
                                \/ generic_file_buffered_write(t) \/ aio_complete(t) \/ store_in(t)
           /\ l2.sd # l.sd => do_splice_direct(t) \/ store_out(t)
  <2>1. ASSUME Unpositioned(l2), NotOut(sys, f) PROVE Valid(sys, f, l2.pos)
    <3>1. l.pc \in RwLabels \cup {"done"} /\ l.call.op = "rw" /\ f = l.call.f
      <4>1. l.pc \notin SeekLabels /\ l.pc \notin SendLabels
        BY <1>2, <1>8, <2>1 DEF Unpositioned, CallPlace, SeekCalls, SendCalls
      <4>2. l.pc \in {"idle", "done"} \cup RwLabels \cup SeekLabels \cup SendLabels
        BY <1>2 DEF Locals
      <4> QED
        BY <1>8, <2>1, <4>1, <4>2 DEF Unpositioned
    <3>2. Unpositioned(l)
      BY <1>8, <2>1, <3>1 DEF Unpositioned
    <3>3. Valid(sys, f, l.pos)
      BY <1>3, <2>1, <3>1, <3>2 DEF HeldValid
    <3>4. f \in Files
      BY <3>1, CallFiles
    <3>5. CASE l2.pos = l.pos
      BY <3>3, <3>5
    <3>6. CASE \E m : Transfer(t, m)
      BY <2>1, <3>1, <3>3, <3>4, <3>6, ValidTransfer
    <3>7. CASE generic_file_buffered_write(t)
      <4>1. PICK m : Written(t, m)
        BY <3>7, Writes
      <4>2. /\ l2.pos = (IF m > 0 THEN l.from + m ELSE l.pos)
            /\ m \in Nat /\ l.from \in Nat /\ l.from + m <= sys.maxbytes[f]
        BY <3>1, <4>1 DEF Written
      <4>3. CASE m > 0
        <5>1. l2.pos = l.from + m /\ l.from + m >= 0
          BY <4>2, <4>3
        <5> QED
          BY <4>2, <5>1 DEF Valid
      <4>4. CASE ~ (m > 0)
        BY <3>5, <4>2, <4>4
      <4> QED
        BY <4>3, <4>4
    <3>8. ~ store_in(t)
      BY <3>1 DEF store_in, SendStep, At, RwLabels, RetryLabels, WaitLabels
    <3> QED
      BY <1>8, <3>5, <3>6, <3>7, <3>8, Transfers
  <2>2. ASSUME l2.pc \in {"splice", "store_in"} \cup OutLabels, ~ l2.call.positioned, NotOut(sys, f)
        PROVE  Valid(sys, f, l2.sd)
    <3>1. CASE do_splice_direct(t)
      <4>1. l.call.f \in Files
        BY <3>1, CallFiles DEF do_splice_direct, SendStep, At, SendLabels
      <4>2. l2.sd = f_pos[f]
        <5> DEFINE p == InPos(th[t])
                   d == [th[t] EXCEPT !.pc = "splice", !.sd = p, !.ret = 0]
        <5>1. l2 = d \/ \E code : l2 = SpliceEnds(d, code)
          BY <1>2, <3>1 DEF do_splice_direct
        <5>2. p = f_pos[f]
          BY <1>8, <2>2 DEF InPos
        <5> HIDE DEF p
        <5>3. d.sd = p /\ DOMAIN d = DOMAIN l
          BY <1>2 DEF Locals
        <5> HIDE DEF d
        <5>4. \A code : SpliceEnds(d, code).sd = d.sd
          BY <1>2, <5>3 DEF SpliceEnds, Locals
        <5> QED
          BY <5>1, <5>2, <5>3, <5>4
      <4>3. Valid(sys, f, f_pos[f])
        BY <1>8, <2>2, <4>1 DEF PositionInv
      <4> QED
        BY <4>2, <4>3
    <3>2. CASE l.pc \in {"splice"} \cup OutLabels
      <4>1. Valid(sys, f, l.sd)
        BY <1>3, <1>8, <2>2, <3>2 DEF HeldValid
      <4>2. CASE l2.sd = l.sd
        BY <4>1, <4>2
      <4>3. CASE store_out(t)
        <5>1. l.pc \in OutLabels /\ l.pc = "add_store"
          BY <4>3 DEF store_out, SendStep, At, OutLabels
        <5>2. /\ l.n \in Nat /\ l.sd + l.n <= i_size[f] /\ l.val \in 1 .. l.n /\ l.sd \in Int /\ f \in Files
              /\ i_size[f] \in Int /\ sys.maxbytes[f] \in Int
          <6>1. /\ l.n \in Nat /\ l.sd + l.n <= i_size[f] /\ l.val \in 1 .. l.n
            BY <1>2, <1>8, <5>1 DEF CallPlace
          <6>2. l.sd \in Int /\ f \in Files
            BY <1>8, <5>1, CallFiles DEF SendLabels, OutLabels
          <6>3. i_size[f] \in Int /\ sys.maxbytes[f] \in Int
            BY <1>2, <6>2, Words DEF Globals, SystemOK
          <6> QED
            BY <6>1, <6>2, <6>3
        <5>3. l2.sd = l.sd + l.val
          <6> DEFINE sd == l.sd + l.val
                     d == [l EXCEPT !.got = @ + l.val, !.len = @ - l.val, !.sd = sd, !.pc = "splice"]
          <6>1. l2 = d \/ l2 = SpliceEnds(d, 0)
            BY <1>2, <4>3 DEF store_out, AfterActor
          <6> HIDE DEF sd
          <6>2. d.sd = sd /\ DOMAIN d = DOMAIN l
            BY <1>2 DEF Locals
          <6> HIDE DEF d
          <6>3. SpliceEnds(d, 0).sd = d.sd
            BY <1>2, <6>2 DEF SpliceEnds, Locals
          <6> QED
            BY <6>1, <6>2, <6>3 DEF sd
        <5>4. i_size[f] <= sys.maxbytes[f] /\ l.sd >= 0
          BY <2>2, <4>1, <5>2 DEF PositionInv, Valid
        <5> HIDE DEF l, f, l2
        <5>5. l2.sd >= 0 /\ l2.sd <= sys.maxbytes[f]
          BY <5>2, <5>3, <5>4
        <5> QED
          BY <5>5 DEF Valid
      <4>4. CASE do_splice_direct(t)
        BY <3>1, <4>4
      <4> QED
        BY <1>8, <4>2, <4>3, <4>4
    <3> QED
      BY <1>8, <2>2, <3>1, <3>2
  <2>3. ASSUME l2.pc = "seek_store", NotOut(sys, f) PROVE Valid(sys, f, l2.val)
    <3>1. lseek_execute(t) /\ ~ SeekEnds(t)
      <4>1. SeekEnds(t) => l2 = Idle
        BY <1>2 DEF SeekEnds
      <4> QED
        BY <1>8, <2>3, <4>1, IdleLocals
    <3>2. ~ SeekRefused(l.call.f, l.val) /\ Go(t, "seek_store") /\ l.pc = "execute"
      BY <3>1 DEF lseek_execute, At
    <3>3. l2.val = l.val
      BY <1>2, <3>2 DEF Go, Locals
    <3>4. l.val \in Int /\ f \in Files /\ sys.maxbytes[f] \in Int
      <4>1. l.val \in Int /\ f \in Files
        BY <1>8, <3>2, CallFiles DEF SeekLabels
      <4> QED
        BY <1>2, <4>1, Words DEF SystemOK
    <3> QED
      BY <1>8, <2>3, <3>2, <3>3, <3>4 DEF SeekRefused, Valid, NotOut, Kind
  <2> QED
    BY <1>3, <1>8, <2>1, <2>2, <2>3 DEF HeldValid
<1> QED
  BY <1>1, <1>5, <1>6, <1>7, <1>8 DEF Arrives

LEMMA PositionStart ==
  ASSUME Init
  PROVE  PositionInv
<1>1. SystemOK(sys) /\ f_pos = sys.start /\ i_size = sys.size /\ \A t \in Threads : th[t] = Idle
  BY Constants DEF Init
<1>2. ASSUME NEW f \in Files, NotOut(sys, f)
      PROVE  i_size[f] <= sys.maxbytes[f] /\ Valid(sys, f, f_pos[f])
  <2>1. sys.size[f] <= sys.maxbytes[f] /\ sys.start[f] \in 0 .. sys.maxbytes[f] /\ sys.maxbytes[f] \in Int
    BY <1>1, <1>2, Words DEF SystemOK, NotOut
  <2> QED
    BY <1>1, <2>1 DEF Valid
<1>3. HeldValid(sys, Idle)
  BY IdleLocals DEF HeldValid, Unpositioned, RwLabels, RetryLabels, WaitLabels, OutLabels
<1> QED
  BY <1>1, <1>2, <1>3, IdleLocals DEF PositionInv

LEMMA PositionStep ==
  ASSUME Globals, LocalsInv, PositionInv, [Next]_vars
  PROVE  PositionInv'
<1>1. CASE UNCHANGED vars
  <2>1. sys' = sys /\ f_pos' = f_pos /\ i_size' = i_size /\ th' = th
    BY <1>1 DEF vars
  <2> QED
    BY <2>1 DEF PositionInv
<1>2. CASE Next
  <2>1. PICK t \in Threads : Call(t) \/ Step(t) \/ Promise(t)
    BY <1>2 DEF Next
  <2>2. Footprint(t) /\ sys' = sys
    BY <2>1, FootprintOK DEF Footprint
  <2>3. ASSUME NEW f \in Files, NotOut(sys, f)
        PROVE  i_size'[f] <= sys.maxbytes[f] /\ Valid(sys, f, f_pos'[f])
    BY <2>2, <2>3, ValidSizes, ValidPositions
  <2>4. ASSUME NEW u \in Threads
        PROVE  (th'[u].pc # "idle" => th'[u].call \in sys.calls[u]) /\ HeldValid(sys, th'[u])
    <3>1. CASE u = t
      BY <2>1, <3>1, ValidHeld
    <3>2. CASE u # t
      <4>1. th'[u] = th[u]
        BY <2>2, <3>2 DEF Footprint
      <4> QED
        BY <4>1 DEF PositionInv
    <3> QED
      BY <3>1, <3>2
  <2> QED
    BY <2>2, <2>3, <2>4 DEF PositionInv
<1> QED
  BY <1>1, <1>2

\* However reads, writes, seeks and sendfiles interleave, the position of a
\* file with signed offsets that no sendfile writes to is not negative, and
\* for a generic file it is one the file system has: no store of a stale
\* position and no sum leaves the range that lseek_execute, rw_verify_area and
\* generic_write_checks keep a single call in.
THEOREM PositionsStayValid == Spec => []PositionValid
<1>1. Init => Globals /\ LocalsInv /\ PositionInv
  BY Start, PositionStart
<1>2. (Globals /\ LocalsInv /\ PositionInv) /\ [Next]_vars => (Globals /\ LocalsInv /\ PositionInv)'
  BY GlobalsStep, LocalsStep, PositionStep
<1>3. Globals /\ LocalsInv /\ PositionInv => PositionValid
  BY DEF PositionInv, PositionValid, NotOut, Valid, Kind
<1> QED
  BY <1>1, <1>2, <1>3, PTL DEF Spec

-----------------------------------------------------------------------------
\* The position does not skip: how far a file was reached from a base.
LEMMA OffsetInInt ==
  ASSUME NEW s, NEW f, NEW p \in Int
  PROVE  OffsetIn(s, f, p) \in Int
<1>1. Unsigned(p) \in Int
  BY Words DEF Unsigned
<1> QED
  BY <1>1 DEF OffsetIn

LEMMA ReachedKept ==
  ASSUME Globals, LocalsInv, NEW t \in Threads, Footprint(t), NEW f \in Files, NEW p,
         Reached(sys, bases, touched, f, p)
  PROVE  Reached(sys, bases', touched', f, p)
<1>1. touched[f] \subseteq touched'[f] /\ bases[f] \subseteq bases'[f]
  BY TouchedGrows, BasesGrow
<1>2. PICK b \in bases[f] : b <= OffsetIn(sys, f, p) /\ (b .. OffsetIn(sys, f, p) - 1) \subseteq touched[f]
  BY DEF Reached
<1>3. b \in bases'[f] /\ (b .. OffsetIn(sys, f, p) - 1) \subseteq touched'[f]
  BY <1>1, <1>2
<1> QED
  BY <1>2, <1>3 DEF Reached

LEMMA BaseReached ==
  ASSUME NEW s, NEW B, NEW T, NEW f, NEW p, OffsetIn(s, f, p) \in Int, OffsetIn(s, f, p) \in B[f]
  PROVE  Reached(s, B, T, f, p)
<1> DEFINE b == OffsetIn(s, f, p)
<1>1. b <= b /\ (b .. b - 1) = {}
  BY DEF b
<1> QED
  BY <1>1 DEF Reached

LEMMA ReachedFurther ==
  ASSUME NEW s, NEW B, NEW T, NEW f, NEW p, NEW q, NEW m \in Nat, B[f] \subseteq Int,
         OffsetIn(s, f, p) \in Int, OffsetIn(s, f, q) = OffsetIn(s, f, p) + m,
         (OffsetIn(s, f, p) .. OffsetIn(s, f, p) + m - 1) \subseteq T[f],
         Reached(s, B, T, f, p)
  PROVE  Reached(s, B, T, f, q)
<1> DEFINE x == OffsetIn(s, f, p)
           y == OffsetIn(s, f, q)
<1>1. PICK b \in B[f] : b <= x /\ (b .. x - 1) \subseteq T[f]
  BY DEF Reached
<1>2. b \in Int /\ x \in Int /\ y = x + m /\ (x .. x + m - 1) \subseteq T[f]
  BY <1>1
<1> HIDE DEF x, y
<1>3. b <= y /\ \A i \in b .. y - 1 : i \in b .. x - 1 \/ i \in x .. x + m - 1
  BY <1>1, <1>2
<1>4. (b .. y - 1) \subseteq T[f]
  BY <1>1, <1>2, <1>3
<1> QED
  BY <1>1, <1>3, <1>4 DEF Reached, y

\* What a transfer of an addressable range moves, and where it ends.
LEMMA RangeMoved ==
  ASSUME NEW f, NEW p \in loff_t, NEW m \in Nat, m <= MAX_RW_COUNT,
         Addressable(f \in sys.unsigned, p, m)
  PROVE  /\ OffsetIn(sys, f, Signed(p + m)) = OffsetIn(sys, f, p) + m
         /\ (OffsetIn(sys, f, p) .. OffsetIn(sys, f, p) + m - 1) \subseteq Offsets(f, p, m)
<1> DEFINE x == OffsetIn(sys, f, p)
           u == f \in sys.unsigned
<1>1. p \in Int /\ x \in Int /\ u \in BOOLEAN
  BY Words, OffsetInInt
<1>2. ASSUME NEW i \in Nat, i <= m PROVE OffsetIn(sys, f, Signed(p + i)) = x + i
  <2> DEFINE r == m - i
  <2>1. r \in Nat /\ i + r = m
    BY <1>2
  <2>2. Addressable(u, p, i + r) /\ i + r <= MAX_RW_COUNT
    BY <2>1
  <2> HIDE DEF r, u
  <2>3. IF u THEN Unsigned(Signed(p + i)) = Unsigned(p) + i ELSE Signed(p + i) = p + i
    BY <1>1, <2>1, <2>2, Onward
  <2> QED
    BY <2>3 DEF OffsetIn, u
<1>3. ASSUME NEW y \in x .. x + m - 1 PROVE y \in Offsets(f, p, m)
  <2> DEFINE i == y - x
  <2>1. i \in Nat /\ i <= m /\ i \in 0 .. m - 1 /\ x + i = y
    <3> HIDE DEF x
    <3> QED
      BY <1>1
  <2> HIDE DEF i, x
  <2>2. y = OffsetIn(sys, f, Signed(p + i))
    BY <1>2, <2>1
  <2> QED
    BY <2>1, <2>2 DEF Offsets, Offset, OffsetIn
<1>4. OffsetIn(sys, f, Signed(p + m)) = x + m
  <2>1. m <= m
    OBVIOUS
  <2> HIDE DEF x
  <2> QED
    BY <1>2, <2>1
<1> QED
  BY <1>3, <1>4

\* The same for a file with signed offsets, within the word.
LEMMA RangeSigned ==
  ASSUME NEW f, f \notin sys.unsigned, NEW p \in loff_t, NEW m \in Nat, p + m <= Half
  PROVE  (p .. p + m - 1) \subseteq Offsets(f, p, m)
<1>1. p \in Int /\ -Half <= p /\ Half \in Nat
  BY Words
<1>2. ASSUME NEW y \in p .. p + m - 1 PROVE y \in Offsets(f, p, m)
  <2> DEFINE i == y - p
  <2>1. i \in 0 .. m - 1 /\ p + i = y /\ y \in Int /\ -Half <= y /\ y < Half
    BY <1>1
  <2>2. Signed(y) = y
    <3> HIDE DEF i
    <3>1. y \in loff_t
      BY <2>1, Words
    <3> QED
      BY <3>1, SignedSame
  <2> HIDE DEF i
  <2>3. y = Offset(f, Signed(p + i))
    BY <2>1, <2>2 DEF Offset
  <2> QED
    BY <2>1, <2>3 DEF Offsets
<1> QED
  BY <1>2

\* A call keeps what it had reached while others, or it, go on.
LEMMA HeldKept ==
  ASSUME Globals, LocalsInv, GapInv, NEW t \in Threads, Footprint(t), NEW u \in Threads
  PROVE  HeldReached(sys, bases', touched', th[u])
<1> DEFINE l == th[u]
<1>1. HeldReached(sys, bases, touched, l)
  BY DEF GapInv
<1>2. /\ l.pc \in RwLabels \cup SeekLabels \cup SendLabels \cup {"done"} => l.call.f \in Files
      /\ l.pc \in SendLabels => l.call.out \in Files
  BY CallFiles
<1>3. \A g \in Files : touched[g] \subseteq touched'[g]
  BY TouchedGrows
<1> HIDE DEF l
<1>4. Unpositioned(l) => Reached(sys, bases', touched', l.call.f, l.pos)
  BY <1>1, <1>2, ReachedKept DEF HeldReached, Unpositioned
<1>5. l.pc \in {"splice", "store_in"} \cup OutLabels /\ ~ l.call.positioned =>
        Reached(sys, bases', touched', l.call.f, l.sd)
  BY <1>1, <1>2, ReachedKept DEF HeldReached, SendLabels
<1>6. l.pc \in {"add", "add_store"} =>
        /\ Reached(sys, bases', touched', l.call.out, l.from)
        /\ (l.from .. l.from + l.val - 1) \subseteq touched'[l.call.out] \/ Signed(l.from + l.val) # l.from + l.val
        /\ (l.sd .. l.sd + l.val - 1) \subseteq touched'[l.call.f]
  <2> SUFFICES ASSUME l.pc \in {"add", "add_store"}
               PROVE  /\ Reached(sys, bases', touched', l.call.out, l.from)
                      /\ \/ (l.from .. l.from + l.val - 1) \subseteq touched'[l.call.out]
                         \/ Signed(l.from + l.val) # l.from + l.val
                      /\ (l.sd .. l.sd + l.val - 1) \subseteq touched'[l.call.f]
    OBVIOUS
  <2>1. l.call.out \in Files /\ l.call.f \in Files
    BY <1>2 DEF SendLabels, OutLabels
  <2>2. /\ Reached(sys, bases, touched, l.call.out, l.from)
        /\ \/ (l.from .. l.from + l.val - 1) \subseteq touched[l.call.out]
           \/ Signed(l.from + l.val) # l.from + l.val
        /\ (l.sd .. l.sd + l.val - 1) \subseteq touched[l.call.f]
    BY <1>1 DEF HeldReached
  <2>3. Reached(sys, bases', touched', l.call.out, l.from)
    BY <2>1, <2>2, ReachedKept
  <2> QED
    BY <1>3, <2>1, <2>2, <2>3
<1>7. l.pc = "copy" /\ l.call.f \notin sys.append => l.from = l.pos
  BY <1>1 DEF HeldReached
<1> QED
  BY <1>4, <1>5, <1>6, <1>7 DEF HeldReached, l

\* What a read, a write or a sendfile moved lies between the position it began
\* at and the one it ends with.
LEMMA TransferReaches ==
  ASSUME Globals, LocalsInv, NEW t \in Threads, Footprint(t), NEW m, Transfer(t, m),
         th[t].call.f \in Files, Reached(sys, bases, touched, th[t].call.f, th[t].pos)
  PROVE  Reached(sys, bases', touched', th[t].call.f, th'[t].pos)
<1> DEFINE l == th[t]
           f == l.call.f
           p == l.pos
           q == Signed(p + m)
<1>1. p \in loff_t /\ p \in Int /\ m \in Nat /\ m <= MAX_RW_COUNT /\ Addressable(f \in sys.unsigned, p, m)
  BY CallFiles DEF Transfer
<1>2. touched \in [Files -> SUBSET Int] /\ touched' = [touched EXCEPT ![f] = @ \cup Offsets(f, p, m)] /\ l.pos = p
      /\ th'[t].pos = q
  BY DEF Transfer, Globals
<1>3. bases' \in [Files -> SUBSET Int]
  BY BasesGrow
<1>4. f \in Files /\ Reached(sys, bases', touched', f, p)
  BY ReachedKept
<1> HIDE DEF p, q, f, l
<1>5. /\ OffsetIn(sys, f, q) = OffsetIn(sys, f, p) + m
      /\ (OffsetIn(sys, f, p) .. OffsetIn(sys, f, p) + m - 1) \subseteq Offsets(f, p, m)
  BY <1>1, RangeMoved DEF q
<1>6. (OffsetIn(sys, f, p) .. OffsetIn(sys, f, p) + m - 1) \subseteq touched'[f]
  BY <1>2, <1>4, <1>5
<1>7. OffsetIn(sys, f, p) \in Int /\ bases'[f] \subseteq Int
  BY <1>1, <1>3, <1>4, OffsetInInt
<1>8. Reached(sys, bases', touched', f, q)
  BY <1>1, <1>4, <1>5, <1>6, <1>7, ReachedFurther
<1> QED
  BY <1>2, <1>8 DEF f, l

LEMMA WriteReaches ==
  ASSUME Globals, LocalsInv, NEW t \in Threads, Footprint(t), generic_file_buffered_write(t),
         Reached(sys, bases, touched, th[t].call.f, th[t].pos),
         th[t].call.f \notin sys.append => th[t].from = th[t].pos
  PROVE  Reached(sys, bases', touched', th[t].call.f, th'[t].pos)
<1> DEFINE l == th[t]
           f == l.call.f
           a == l.from
<1>1. PICK m : Written(t, m)
  BY Writes
<1>2. /\ m \in Nat /\ a \in Nat /\ a + m < Half /\ f \in Files /\ sys.kind[f] = "regular"
      /\ th'[t].pos = IF m > 0 THEN a + m ELSE l.pos
      /\ touched' = [touched EXCEPT ![f] = @ \cup Offsets(f, a, m)]
  BY <1>1 DEF Written
<1>3. f \notin sys.unsigned
  BY <1>2, Known DEF SystemOK
<1>4. touched \in [Files -> SUBSET Int] /\ bases \in [Files -> SUBSET Int] /\ bases' \in [Files -> SUBSET Int]
  BY BasesGrow DEF Globals
<1>5. Reached(sys, bases', touched', f, l.pos)
  BY <1>2, ReachedKept
<1>6. f \in sys.append => a \in bases'[f]
  <2>1. bases' = [bases EXCEPT ![f] = IF f \in sys.append THEN @ \cup {a} ELSE @]
    BY DEF generic_file_buffered_write, File
  <2> HIDE DEF f, a
  <2> QED
    BY <1>2, <1>4, <2>1
<1>7. f \notin sys.append => a = l.pos
  OBVIOUS
<1> HIDE DEF l, f, a
<1>8. \A x : OffsetIn(sys, f, x) = x
  BY <1>3 DEF OffsetIn
<1>9. Reached(sys, bases', touched', f, a)
  <2>1. CASE f \in sys.append
    BY <1>2, <1>6, <1>8, <2>1, BaseReached
  <2>2. CASE f \notin sys.append
    BY <1>5, <1>7, <2>2
  <2> QED
    BY <2>1, <2>2
<1>10. CASE m > 0
  <2>1. a \in loff_t /\ a + m <= Half /\ a \in Int
    BY <1>2, Words
  <2>2. (a .. a + m - 1) \subseteq Offsets(f, a, m)
    BY <1>2, <1>3, <2>1, RangeSigned
  <2>3. (a .. a + m - 1) \subseteq touched'[f] /\ bases'[f] \subseteq Int
    BY <1>2, <1>4, <2>2
  <2>4. OffsetIn(sys, f, a) = a /\ OffsetIn(sys, f, a + m) = a + m
    BY <1>8
  <2>5. Reached(sys, bases', touched', f, a + m)
    BY <1>2, <1>9, <2>1, <2>3, <2>4, ReachedFurther
  <2> QED
    BY <1>2, <1>10, <2>5 DEF f, l
<1>11. CASE ~ (m > 0)
  BY <1>2, <1>5, <1>11 DEF f, l
<1> QED
  BY <1>10, <1>11

\* The output of a splice, and the part of the input that it took.
LEMMA SpliceReaches ==
  ASSUME Globals, LocalsInv, GapInv, NEW t \in Threads, Footprint(t), splice_write(t), th'[t].pc = "add"
  PROVE  LET l  == th[t]
             l2 == th'[t]
         IN  /\ Reached(sys, bases', touched', l.call.out, l2.from)
             /\ \/ (l2.from .. l2.from + l2.val - 1) \subseteq touched'[l.call.out]
                \/ Signed(l2.from + l2.val) # l2.from + l2.val
             /\ (l.sd .. l.sd + l2.val - 1) \subseteq touched'[l.call.f]
             /\ l2.sd = l.sd
<1> DEFINE l == th[t]
           l2 == th'[t]
           out == l.call.out
           in == l.call.f
           a == f_pos[out]
<1>1. l \in Locals /\ CallPlace(sys, l, kiocb[t], i_size) /\ DOMAIN th = Threads /\ SystemOK(sys)
  BY Known
<1>2. l.pc = "splice_write" /\ l.pc \in OutLabels /\ l.pc \in SendLabels
  BY DEF splice_write, At, OutLabels, SendLabels
<1>3. out \in Files /\ in \in Files /\ l.sd \in loff_t /\ l.sd \in Int
  BY <1>2, CallFiles
<1>4. /\ sys.kind[in] = "regular" /\ sys.kind[out] = "regular" /\ l.n \in Nat /\ l.sd + l.n <= i_size[in]
  BY <1>1, <1>2 DEF CallPlace
<1>5. in \notin sys.unsigned /\ out \notin sys.unsigned
  BY <1>1, <1>4 DEF SystemOK
<1>6. /\ touched \in [Files -> SUBSET Int] /\ f_pos \in [Files -> loff_t] /\ i_size \in [Files -> 0 .. Half - 1]
      /\ i_size[in] \in Int /\ i_size[in] < Half /\ a \in loff_t /\ a \in Int
  <2>1. /\ touched \in [Files -> SUBSET Int] /\ f_pos \in [Files -> loff_t] /\ i_size \in [Files -> 0 .. Half - 1]
    BY DEF Globals
  <2>2. i_size[in] \in 0 .. Half - 1
    BY <1>3, <2>1
  <2>3. a \in loff_t
    BY <1>3, <2>1
  <2> QED
    BY <2>1, <2>2, <2>3, Words
<1>7. PICK m \in 0 .. l.n, synced \in BOOLEAN :
        /\ touched' = [touched EXCEPT ![out] = @ \cup Offsets(out, a, m),
                                      ![in] = @ \cup Offsets(in, l.sd, IF synced THEN m ELSE 0)]
        /\ th' = [th EXCEPT ![t] = IF m = 0 \/ ~ synced THEN SpliceEnds(l, EIO)
                                   ELSE [l EXCEPT !.pc = "add", !.from = a, !.val = m]]
  BY DEF splice_write
<1>8. SpliceEnds(l, EIO).pc = "store_in"
  BY <1>1 DEF SpliceEnds, Locals
<1>9. synced /\ l2 = [l EXCEPT !.pc = "add", !.from = a, !.val = m]
  BY <1>1, <1>7, <1>8
<1>10. l2.from = a /\ l2.val = m /\ l2.sd = l.sd
  <2> HIDE DEF l, a
  <2> QED
    BY <1>1, <1>9 DEF Locals
<1> DEFINE A == Offsets(out, a, m)
           B == Offsets(in, l.sd, m)
<1>11. touched' = [touched EXCEPT ![out] = @ \cup A, ![in] = @ \cup B]
  BY <1>7, <1>9
<1>12. A \subseteq touched'[out] /\ B \subseteq touched'[in]
  <2> HIDE DEF A, B, in, out
  <2> QED
    BY <1>3, <1>6, <1>11
<1>13. Reached(sys, bases', touched', out, a)
  <2>1. Reached(sys, bases, touched, out, a)
    BY <1>3 DEF GapInv
  <2> QED
    BY <1>3, <2>1, ReachedKept
<1> HIDE DEF l, l2, out, in, a
<1>14. m \in Nat /\ m <= l.n
  BY <1>4, <1>7
<1>15. (l.sd .. l.sd + m - 1) \subseteq B
  <2>1. l.sd + m <= Half
    BY <1>3, <1>4, <1>6, <1>14, Words
  <2> QED
    BY <1>3, <1>5, <1>14, <2>1, RangeSigned
<1>16. (a .. a + m - 1) \subseteq A \/ Signed(a + m) # a + m
  <2>1. CASE a + m <= Half
    BY <1>5, <1>6, <1>14, <2>1, RangeSigned
  <2>2. CASE ~ (a + m <= Half)
    <3>1. Signed(a + m) \in loff_t /\ a + m \in Int
      BY <1>6, <1>14, SignedWord
    <3>2. Signed(a + m) < Half /\ a + m > Half
      BY <2>2, <3>1, Words
    <3> QED
      BY <3>1, <3>2, Words
  <2> QED
    BY <2>1, <2>2
<1> HIDE DEF A, B
<1>17. (l.sd .. l.sd + l2.val - 1) \subseteq touched'[in]
  BY <1>10, <1>12, <1>15
<1>18. \/ (l2.from .. l2.from + l2.val - 1) \subseteq touched'[out]
       \/ Signed(l2.from + l2.val) # l2.from + l2.val
  BY <1>10, <1>12, <1>16
<1> QED
  BY <1>10, <1>13, <1>17, <1>18 DEF l, l2, out, in

\* The thread that stepped holds only positions that were reached.
LEMMA GapHeld ==
  ASSUME Globals, LocalsInv, GapInv, NEW t \in Threads, Call(t) \/ Step(t) \/ Promise(t)
  PROVE  HeldReached(sys, bases', touched', th'[t])
<1> DEFINE l == th[t]
           l2 == th'[t]
           f == l2.call.f
<1>1. Footprint(t) /\ Arrives(t)
  BY FootprintOK, ArrivesOK
<1>2. l \in Locals /\ CallPlace(sys, l, kiocb[t], i_size) /\ DOMAIN th = Threads /\ SystemOK(sys)
  BY Known
<1>3. HeldReached(sys, bases', touched', l) /\ HeldReached(sys, bases, touched, l)
  BY <1>1, HeldKept DEF GapInv
<1>4. ASSUME NEW g \in Files PROVE Reached(sys, bases', touched', g, f_pos[g])
  <2>1. Reached(sys, bases, touched, g, f_pos[g])
    BY DEF GapInv
  <2> QED
    BY <1>1, <2>1, ReachedKept
<1>5. CASE l2 = l
  BY <1>3, <1>5
<1>6. CASE l2 = Idle
  <2>1. l2.pc = "idle"
    BY <1>6, IdleLocals
  <2> QED
    BY <2>1 DEF HeldReached, Unpositioned, RwLabels, RetryLabels, WaitLabels, OutLabels
<1>7. CASE Call(t)
  <2>1. PICK c \in sys.calls[t] :
          /\ l2.call = c /\ l2.pc \in {"done", "call", "target", "lock", "verify_out"}
          /\ c.op = "rw" => l2.pos = IF c.positioned THEN c.at ELSE f_pos[c.f]
    BY <1>7, BeginsOK DEF Begins
  <2>2. ASSUME Unpositioned(l2) PROVE Reached(sys, bases', touched', f, l2.pos)
    <3>1. l2.pos = f_pos[f] /\ c.op = "rw"
      BY <2>1, <2>2 DEF Unpositioned
    <3>2. f \in Files
      <4>1. c \in RwCalls
        BY <3>1, CallKinds DEF Globals
      <4> QED
        BY <2>1, <4>1 DEF RwCalls
    <3> QED
      BY <1>4, <3>1, <3>2
  <2> QED
    BY <2>1, <2>2 DEF HeldReached, OutLabels
<1>8. CASE /\ l.pc # "idle" /\ l2.call = l.call
           /\ l2.pc = "copy" => generic_write_checks(t)
           /\ l2.pc = "add" => splice_write(t)
           /\ l2.pc = "add_store" => load_out(t)
           /\ l2.pc \in {"splice", "store_in"} \cup OutLabels =>
                l.pc \in {"splice"} \cup OutLabels \/ do_splice_direct(t)
           /\ l2.pos # l.pos => \/ generic_file_aio_read(t) \/ plain_method(t) \/ async_method(t)
                                \/ generic_file_buffered_write(t) \/ aio_complete(t) \/ store_in(t)
           /\ l2.sd # l.sd => do_splice_direct(t) \/ store_out(t)
  <2>1. ASSUME Unpositioned(l2) PROVE Reached(sys, bases', touched', f, l2.pos)
    <3>1. l.pc \in RwLabels \cup {"done"} /\ l.call.op = "rw" /\ f = l.call.f
      <4>1. l.pc \notin SeekLabels /\ l.pc \notin SendLabels
        BY <1>2, <1>8, <2>1 DEF Unpositioned, CallPlace, SeekCalls, SendCalls
      <4>2. l.pc \in {"idle", "done"} \cup RwLabels \cup SeekLabels \cup SendLabels
        BY <1>2 DEF Locals
      <4> QED
        BY <1>8, <2>1, <4>1, <4>2 DEF Unpositioned
    <3>2. Unpositioned(l)
      BY <1>8, <2>1, <3>1 DEF Unpositioned
    <3>3. Reached(sys, bases, touched, f, l.pos) /\ Reached(sys, bases', touched', f, l.pos)
      BY <1>3, <3>1, <3>2 DEF HeldReached
    <3>4. f \in Files
      BY <3>1, CallFiles
    <3>5. CASE l2.pos = l.pos
      BY <3>3, <3>5
    <3>6. CASE \E m : Transfer(t, m)
      BY <1>1, <3>1, <3>3, <3>4, <3>6, TransferReaches
    <3>7. CASE generic_file_buffered_write(t)
      <4>1. l.pc = "copy"
        BY <3>7 DEF generic_file_buffered_write, At
      <4>2. l.call.f \notin sys.append => l.from = l.pos
        BY <1>3, <4>1 DEF HeldReached
      <4> QED
        BY <1>1, <3>1, <3>3, <3>7, <4>2, WriteReaches
    <3>8. ~ store_in(t)
      BY <3>1 DEF store_in, SendStep, At, RwLabels, RetryLabels, WaitLabels
    <3> QED
      BY <1>8, <3>5, <3>6, <3>7, <3>8, Transfers
  <2>2. ASSUME l2.pc = "copy", f \notin sys.append PROVE l2.from = l2.pos
    <3>1. generic_write_checks(t)
      BY <1>8, <2>2
    <3>2. l.call.f \notin sys.append
      BY <1>8, <2>2
    <3> DEFINE count == Head(l.segs)
               n == Least(count, sys.maxbytes[l.call.f] - l.pos)
    <3>3. \/ \E r : th' = [th EXCEPT ![t] = Returned(@, r, l.pos, 0)]
          \/ th' = [th EXCEPT ![t].pc = "copy", ![t].from = l.pos, ![t].n = n]
      BY <3>1, <3>2 DEF generic_write_checks, File
    <3>4. CASE \E r : th' = [th EXCEPT ![t] = Returned(@, r, l.pos, 0)]
      <4>1. PICK r : l2 = Returned(l, r, l.pos, 0)
        BY <1>2, <3>4
      <4> QED
        BY <1>2, <2>2, <4>1, ReturnedPlace
    <3>5. CASE th' = [th EXCEPT ![t].pc = "copy", ![t].from = l.pos, ![t].n = n]
      <4> HIDE DEF n
      <4> QED
        BY <1>2, <3>5 DEF Locals
    <3> QED
      BY <3>3, <3>4, <3>5
  <2>3. ASSUME l2.pc \in {"splice", "store_in"} \cup OutLabels, ~ l2.call.positioned
        PROVE  Reached(sys, bases', touched', f, l2.sd)
    <3>1. CASE do_splice_direct(t)
      <4>1. l.call.f \in Files
        BY <3>1, CallFiles DEF do_splice_direct, SendStep, At, SendLabels
      <4>2. l2.sd = f_pos[f]
        <5> DEFINE p == InPos(th[t])
                   d == [th[t] EXCEPT !.pc = "splice", !.sd = p, !.ret = 0]
        <5>1. l2 = d \/ \E code : l2 = SpliceEnds(d, code)
          BY <1>2, <3>1 DEF do_splice_direct
        <5>2. p = f_pos[f]
          BY <1>8, <2>3 DEF InPos
        <5> HIDE DEF p
        <5>3. d.sd = p /\ DOMAIN d = DOMAIN l
          BY <1>2 DEF Locals
        <5> HIDE DEF d
        <5>4. \A code : SpliceEnds(d, code).sd = d.sd
          BY <1>2, <5>3 DEF SpliceEnds, Locals
        <5> QED
          BY <5>1, <5>2, <5>3, <5>4
      <4> QED
        BY <1>4, <1>8, <4>1, <4>2
    <3>2. CASE l.pc \in {"splice"} \cup OutLabels
      <4>1. Reached(sys, bases', touched', f, l.sd)
        BY <1>3, <1>8, <2>3, <3>2 DEF HeldReached
      <4>2. CASE l2.sd = l.sd
        BY <4>1, <4>2
      <4>3. CASE store_out(t)
        <5>1. l.pc \in OutLabels /\ l.pc = "add_store"
          BY <4>3 DEF store_out, SendStep, At, OutLabels
        <5>2. /\ l.n \in Nat /\ l.val \in 1 .. l.n /\ l.sd \in Int /\ f \in Files
              /\ f \notin sys.unsigned
          <6>1. /\ l.n \in Nat /\ l.val \in 1 .. l.n /\ sys.kind[f] = "regular"
            BY <1>2, <1>8, <5>1 DEF CallPlace
          <6>2. l.sd \in Int /\ f \in Files
            BY <1>8, <5>1, CallFiles DEF SendLabels, OutLabels
          <6> QED
            BY <1>2, <6>1, <6>2 DEF SystemOK
        <5>3. l2.sd = l.sd + l.val
          <6> DEFINE sd == l.sd + l.val
                     d == [l EXCEPT !.got = @ + l.val, !.len = @ - l.val, !.sd = sd, !.pc = "splice"]
          <6>1. l2 = d \/ l2 = SpliceEnds(d, 0)
            BY <1>2, <4>3 DEF store_out, AfterActor
          <6> HIDE DEF sd
          <6>2. d.sd = sd /\ DOMAIN d = DOMAIN l
            BY <1>2 DEF Locals
          <6> HIDE DEF d
          <6>3. SpliceEnds(d, 0).sd = d.sd
            BY <1>2, <6>2 DEF SpliceEnds, Locals
          <6> QED
            BY <6>1, <6>2, <6>3 DEF sd
        <5>4. (l.sd .. l.sd + l.val - 1) \subseteq touched'[f]
          BY <1>3, <1>8, <5>1 DEF HeldReached
        <5>5. bases'[f] \subseteq Int
          BY <1>1, <5>2, BasesGrow
        <5> HIDE DEF l, f, l2
        <5>6. OffsetIn(sys, f, l.sd) = l.sd /\ OffsetIn(sys, f, l2.sd) = l.sd + l.val /\ l.val \in Nat
          BY <5>2, <5>3 DEF OffsetIn
        <5> QED
          BY <4>1, <5>2, <5>4, <5>5, <5>6, ReachedFurther
      <4>4. CASE do_splice_direct(t)
        BY <3>1, <4>4
      <4> QED
        BY <1>8, <4>2, <4>3, <4>4
    <3> QED
      BY <1>8, <2>3, <3>1, <3>2
  <2>4. ASSUME l2.pc \in {"add", "add_store"}
        PROVE  /\ Reached(sys, bases', touched', l2.call.out, l2.from)
               /\ \/ (l2.from .. l2.from + l2.val - 1) \subseteq touched'[l2.call.out]
                  \/ Signed(l2.from + l2.val) # l2.from + l2.val
               /\ (l2.sd .. l2.sd + l2.val - 1) \subseteq touched'[f]
    <3>1. CASE l2.pc = "add"
      <4>1. splice_write(t)
        BY <1>8, <3>1
      <4> QED
        BY <1>1, <1>8, <3>1, <4>1, SpliceReaches
    <3>2. CASE l2.pc = "add_store"
      <4>1. load_out(t)
        BY <1>8, <3>2
      <4>2. l.pc = "add" /\ th' = [th EXCEPT ![t].pc = "add_store", ![t].old = f_pos[th[t].call.out]]
        BY <4>1 DEF load_out, SendStep, At
      <4>3. l2.from = l.from /\ l2.val = l.val /\ l2.sd = l.sd
        BY <1>2, <4>2 DEF Locals
      <4>4. /\ Reached(sys, bases', touched', l.call.out, l.from)
            /\ \/ (l.from .. l.from + l.val - 1) \subseteq touched'[l.call.out]
               \/ Signed(l.from + l.val) # l.from + l.val
            /\ (l.sd .. l.sd + l.val - 1) \subseteq touched'[l.call.f]
        BY <1>3, <4>2 DEF HeldReached
      <4> QED
        BY <1>8, <4>3, <4>4
    <3> QED
      BY <2>4, <3>1, <3>2
  <2> QED
    BY <2>1, <2>2, <2>3, <2>4 DEF HeldReached
<1> QED
  BY <1>1, <1>5, <1>6, <1>7, <1>8 DEF Arrives

\* What is stored into the position was reached.
LEMMA GapStored ==
  ASSUME Globals, LocalsInv, GapInv, NEW t \in Threads, Footprint(t), NEW f \in Files
  PROVE  Reached(sys, bases', touched', f, f_pos'[f])
<1> DEFINE l == th[t]
<1>1. f_pos \in [Files -> loff_t] /\ bases \in [Files -> SUBSET Int]
  BY DEF Globals
<1>2. Reached(sys, bases', touched', f, f_pos[f])
  <2>1. Reached(sys, bases, touched, f, f_pos[f])
    BY DEF GapInv
  <2> QED
    BY <2>1, ReachedKept
<1>3. HeldReached(sys, bases', touched', l)
  BY HeldKept
<1>4. ASSUME NEW g, NEW p, f_pos' = [f_pos EXCEPT ![g] = p],
             g = f => Reached(sys, bases', touched', f, p)
      PROVE  Reached(sys, bases', touched', f, f_pos'[f])
  BY <1>1, <1>2, <1>4
<1>5. CASE f_pos' = f_pos
  BY <1>2, <1>5
<1>6. CASE Return(t)
  <2>1. l.pc = "done" /\ f_pos' = IF l.call.op = "rw" /\ ~ l.call.positioned
                                    THEN [f_pos EXCEPT ![l.call.f] = l.pos] ELSE f_pos
    BY <1>6 DEF Return, At
  <2>2. CASE l.call.op = "rw" /\ ~ l.call.positioned
    <3>1. Reached(sys, bases', touched', l.call.f, l.pos)
      BY <1>3, <2>1, <2>2 DEF HeldReached, Unpositioned
    <3> QED
      BY <1>4, <2>1, <2>2, <3>1
  <2> QED
    BY <1>5, <2>1, <2>2
<1>7. CASE seek_store(t)
  <2>1. f_pos' = [f_pos EXCEPT ![l.call.f] = l.val]
        /\ bases' = [bases EXCEPT ![l.call.f] = @ \cup {Offset(l.call.f, l.val)}]
    BY <1>7 DEF seek_store, File, SeekSucceeds
  <2>2. l.val \in Int
    BY CallFiles
  <2>3. ASSUME l.call.f = f PROVE Reached(sys, bases', touched', f, l.val)
    <3>1. OffsetIn(sys, f, l.val) \in bases'[f]
      BY <1>1, <2>1, <2>3 DEF Offset, OffsetIn
    <3> QED
      BY <2>2, <3>1, OffsetInInt, BaseReached
  <2> QED
    BY <1>4, <2>1, <2>3
<1>8. CASE store_out(t)
  <2> DEFINE out == l.call.out
             new == Signed(l.old + l.val)
  <2>1. /\ l.pc = "add_store" /\ f_pos' = [f_pos EXCEPT ![out] = new]
        /\ bases' = [bases EXCEPT ![out] = IF l.old # l.from \/ new # l.from + l.val
                                             THEN @ \cup {Offset(out, new)} ELSE @]
    BY <1>8 DEF store_out, SendStep, At
  <2>2. /\ l.old \in Int /\ l.val \in Int /\ l.from \in Int
    BY CallFiles
  <2>3. new \in Int
    BY <2>2, SignedWord, Words
  <2>4. CallPlace(sys, l, kiocb[t], i_size) /\ SystemOK(sys)
    BY Known
  <2>5. sys.kind[out] = "regular" /\ l.val \in 1 .. l.n /\ l.n \in Nat
    BY <2>1, <2>4 DEF CallPlace, SendLabels, OutLabels
  <2>6. ASSUME out = f PROVE Reached(sys, bases', touched', f, new)
    <3>1. f \notin sys.unsigned
      BY <2>4, <2>5, <2>6 DEF SystemOK
    <3>2. CASE l.old # l.from \/ new # l.from + l.val
      <4> HIDE DEF l, out, new
      <4>1. OffsetIn(sys, f, new) \in bases'[f]
        BY <1>1, <2>1, <2>6, <3>2 DEF Offset, OffsetIn
      <4> QED
        BY <2>3, <4>1, OffsetInInt, BaseReached
    <3>3. CASE l.old = l.from /\ new = l.from + l.val
      <4>1. Signed(l.from + l.val) = l.from + l.val
        BY <3>3
      <4>2. Reached(sys, bases', touched', f, l.from) /\ (l.from .. l.from + l.val - 1) \subseteq touched'[f]
        BY <1>3, <2>1, <2>6, <4>1 DEF HeldReached
      <4>3. bases'[f] \subseteq Int
        BY BasesGrow
      <4> HIDE DEF l, out, new
      <4>4. OffsetIn(sys, f, l.from) = l.from /\ OffsetIn(sys, f, new) = l.from + l.val /\ l.val \in Nat
        BY <2>5, <3>1, <3>3 DEF OffsetIn
      <4> QED
        BY <2>2, <4>2, <4>3, <4>4, ReachedFurther
    <3> QED
      BY <3>2, <3>3
  <2> QED
    BY <1>4, <2>1, <2>6
<1>9. CASE store_in(t)
  <2>1. l.pc = "store_in"
    BY <1>9 DEF store_in, SendStep, At
  <2>2. CASE ~ l.call.positioned /\ f_pos' = [f_pos EXCEPT ![l.call.f] = l.sd]
    <3>1. Reached(sys, bases', touched', l.call.f, l.sd)
      BY <1>3, <2>1, <2>2 DEF HeldReached
    <3> QED
      BY <1>4, <2>2, <3>1
  <2> QED
    BY <1>5, <1>9, <2>2 DEF store_in
<1> QED
  BY <1>5, <1>6, <1>7, <1>8, <1>9 DEF Footprint

LEMMA GapStart ==
  ASSUME Init
  PROVE  GapInv
<1>1. SystemOK(sys) /\ f_pos = sys.start /\ \A t \in Threads : th[t] = Idle
  BY Constants DEF Init
<1>2. ASSUME NEW f \in Files PROVE Reached(sys, bases, touched, f, f_pos[f])
  <2>1. f_pos[f] \in Int
    BY <1>1, Words DEF SystemOK
  <2>2. OffsetIn(sys, f, f_pos[f]) \in bases[f]
    BY <1>1 DEF Init, Offset, OffsetIn
  <2> QED
    BY <2>1, <2>2, OffsetInInt, BaseReached
<1>3. HeldReached(sys, bases, touched, Idle)
  BY IdleLocals DEF HeldReached, Unpositioned, RwLabels, RetryLabels, WaitLabels, OutLabels
<1> QED
  BY <1>1, <1>2, <1>3 DEF GapInv

LEMMA GapStep ==
  ASSUME Globals, LocalsInv, GapInv, [Next]_vars
  PROVE  GapInv'
<1>1. CASE UNCHANGED vars
  <2>1. sys' = sys /\ f_pos' = f_pos /\ bases' = bases /\ touched' = touched /\ th' = th
    BY <1>1 DEF vars, history
  <2> QED
    BY <2>1 DEF GapInv
<1>2. CASE Next
  <2>1. PICK t \in Threads : Call(t) \/ Step(t) \/ Promise(t)
    BY <1>2 DEF Next
  <2>2. Footprint(t) /\ sys' = sys
    BY <2>1, FootprintOK DEF Footprint
  <2>3. \A f \in Files : Reached(sys, bases', touched', f, f_pos'[f])
    BY <2>2, GapStored
  <2>4. ASSUME NEW u \in Threads PROVE HeldReached(sys, bases', touched', th'[u])
    <3>1. CASE u = t
      BY <2>1, <3>1, GapHeld
    <3>2. CASE u # t
      <4>1. th'[u] = th[u]
        BY <2>2, <3>2 DEF Footprint
      <4> QED
        BY <2>2, <4>1, HeldKept
    <3> QED
      BY <3>1, <3>2
  <2> QED
    BY <2>2, <2>3, <2>4 DEF GapInv
<1> QED
  BY <1>1, <1>2

\* Threads that share a position without a lock repeat data but never skip
\* any: however their loads and stores of f_pos interleave, every byte from
\* some position that was asked for up to the current one was transferred.  A
\* stale position that sys_read, sys_write or do_splice_direct stores was
\* itself reached, and what was reached stays so.
THEOREM NothingSkipped == Spec => []NoGap
<1>1. Init => Globals /\ LocalsInv /\ GapInv
  BY Start, GapStart
<1>2. (Globals /\ LocalsInv /\ GapInv) /\ [Next]_vars => (Globals /\ LocalsInv /\ GapInv)'
  BY GlobalsStep, LocalsStep, GapStep
<1>3. Globals /\ LocalsInv /\ GapInv => NoGap
  BY DEF GapInv, NoGap, Reached, OffsetIn, Offset
<1> QED
  BY <1>1, <1>2, <1>3, PTL DEF Spec

=============================================================================
