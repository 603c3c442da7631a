-------------------------- MODULE DirStreamProofs --------------------------
(***************************************************************************)
(* The guarantee of one directory scan, for every directory, every name    *)
(* and every interleaving with other processes.                            *)
(*                                                                         *)
(* StableVisitedOnce speaks of the end of the scan only.  What makes it    *)
(* inductive is the queue of everything fetched so far, seen \o pending:   *)
(* a name that stayed is in it once if its slot is behind f_pos, and not   *)
(* at all otherwise.                                                       *)
(***************************************************************************)
EXTENDS DirStream, TLAPS, SequenceTheorems

EntrySet == [type : {"d", "o"}, name : Names]

Typed ==
  /\ slots \in [Slots -> Names \cup {Hole}]
  /\ pos \in 1 .. NSlots + 1
  /\ pending \in Seq(EntrySet)
  /\ seen \in Seq(EntrySet)
  /\ ever \subseteq Names
  /\ touched \subseteq Names

\* A name is in at most one slot, and a name that stayed is in one.
SlotsDistinct == \A i, j \in Slots : slots[i] = slots[j] /\ slots[i] # Hole => i = j
StablePresent == \A name \in Stable : \E i \in Slots : slots[i] = name

Fetched == seen \o pending

\* The slots behind f_pos are exactly what was fetched, for stable names.
FetchedOnce ==
  status = "reading" =>
    \A i \in Slots : slots[i] \in Stable =>
      IF i < pos THEN OccursOnce(Fetched, Entry(slots[i]))
                 ELSE \A k \in DOMAIN Fetched : Fetched[k] # Entry(slots[i])

IInv == Typed /\ SlotsDistinct /\ StablePresent /\ FetchedOnce /\ StableVisitedOnce

-----------------------------------------------------------------------------
\* An entry determines its name, so two names never share an entry.
LEMMA EntryOfName ==
  /\ \A name \in Names : Entry(name) \in EntrySet
  /\ \A a, b : Entry(a) = Entry(b) => a = b
  BY DEF Entry, TypeChar, EntrySet

\* Moving the head of the second sequence to the end of the first one leaves
\* their concatenation as it is.
LEMMA VisitKeepsFetched ==
  ASSUME NEW S, NEW s \in Seq(S), NEW p \in Seq(S), p # <<>>
  PROVE  Append(s, Head(p)) \o Tail(p) = s \o p
  OBVIOUS

\* Appending e to s adds one occurrence of e and none of anything else.
LEMMA AppendOccurs ==
  ASSUME NEW S, NEW s \in Seq(S), NEW e \in S
  PROVE  /\ (\A k \in DOMAIN s : s[k] # e) => OccursOnce(Append(s, e), e)
         /\ \A f : f # e /\ OccursOnce(s, f) => OccursOnce(Append(s, e), f)
         /\ \A f : f # e /\ (\A k \in DOMAIN s : s[k] # f)
                 => \A k \in DOMAIN Append(s, e) : Append(s, e)[k] # f
<1> DEFINE t == Append(s, e)
<1>1. /\ DOMAIN s = 1 .. Len(s)
      /\ DOMAIN t = 1 .. Len(s) + 1
      /\ Len(s) \in Nat
      /\ t[Len(s) + 1] = e
      /\ \A k \in 1 .. Len(s) : t[k] = s[k]
  OBVIOUS
<1> HIDE DEF t
<1>2. (\A k \in DOMAIN s : s[k] # e) => OccursOnce(t, e)
  <2> SUFFICES ASSUME \A k \in DOMAIN s : s[k] # e PROVE OccursOnce(t, e)
    OBVIOUS
  <2>1. Len(s) + 1 \in DOMAIN t
    BY <1>1
  <2>2. \A j \in DOMAIN t : t[j] = e <=> j = Len(s) + 1
    BY <1>1
  <2> QED
    BY <2>1, <2>2 DEF OccursOnce
<1>3. ASSUME NEW f, f # e, OccursOnce(s, f) PROVE OccursOnce(t, f)
  <2>1. PICK k \in DOMAIN s : \A j \in DOMAIN s : s[j] = f <=> j = k
    BY <1>3 DEF OccursOnce
  <2>2. k \in DOMAIN t /\ \A j \in DOMAIN t : t[j] = f <=> j = k
    BY <2>1, <1>1, <1>3
  <2> QED
    BY <2>2 DEF OccursOnce
<1>4. ASSUME NEW f, f # e, \A k \in DOMAIN s : s[k] # f
      PROVE  \A k \in DOMAIN t : t[k] # f
  BY <1>1, <1>4
<1> QED
  BY <1>2, <1>3, <1>4 DEF t

-----------------------------------------------------------------------------
LEMMA InitIInv == ASSUME NSlots \in Nat, Init PROVE IInv
<1> USE DEF Init, InitDir
<1>1. Typed
  BY DEF Typed, Present, Slots
<1>2. SlotsDistinct
  BY DEF SlotsDistinct
<1>3. StablePresent
  BY DEF StablePresent, Stable, Present
<1>4. FetchedOnce
  BY DEF FetchedOnce, Fetched, Slots
<1>5. StableVisitedOnce
  BY DEF StableVisitedOnce
<1> QED
  BY <1>1, <1>2, <1>3, <1>4, <1>5 DEF IInv

\* Other processes only take names out of Stable: what is left of it is
\* where it was.
LEMMA OthersIInv ==
  ASSUME NSlots \in Nat, Hole \notin Names, IInv, Others PROVE IInv'
<1> USE DEF IInv, Others
<1>1. /\ Stable' \subseteq Stable
      /\ \A i \in Slots : slots[i] \in Stable' => slots'[i] = slots[i]
      /\ \A i \in Slots : slots'[i] \in Stable' => slots'[i] = slots[i]
      /\ SlotsDistinct'
      /\ Typed'
  <2>1. CASE \E i \in Slots : Unlink(i)
    BY <2>1 DEF Unlink, Stable, SlotsDistinct, Typed, Hole
  <2>2. CASE \E i \in Slots, name \in Names : Create(i, name)
    BY <2>2 DEF Create, Stable, SlotsDistinct, Typed, Hole, Present
  <2>3. CASE Rmdir
    BY <2>3 DEF Rmdir, Stable, SlotsDistinct, Typed
  <2> QED
    BY <2>1, <2>2, <2>3 DEF Change
<1>2. StablePresent'
  BY <1>1 DEF StablePresent
<1>3. FetchedOnce'
  BY <1>1 DEF FetchedOnce, Fetched, Entry
<1>4. StableVisitedOnce'
  BY <1>1 DEF StableVisitedOnce, Entry
<1> QED
  BY <1>1, <1>2, <1>3, <1>4

LEMMA FetchIInv ==
  ASSUME NSlots \in Nat, Hole \notin Names, IInv, Fetch PROVE IInv'
<1> USE DEF IInv, Fetch
<1>0. /\ pos \in Slots
      /\ slots[pos] \in Names \cup {Hole}
      /\ Fetched \in Seq(EntrySet)
  BY DEF Typed, Slots, Fetched
<1>1. Typed'
  <2>1. pending' \in Seq(EntrySet)
    BY <1>0, EntryOfName DEF Typed
  <2> QED
    BY <2>1, <1>0 DEF Typed, Slots
<1>2. SlotsDistinct' /\ StablePresent' /\ StableVisitedOnce'
  BY DEF SlotsDistinct, StablePresent, StableVisitedOnce, Stable
<1>3. FetchedOnce'
  <2>0. /\ slots' = slots
        /\ Stable' = Stable
        /\ pos' = pos + 1
        /\ status = "reading"
    BY DEF Stable
  <2>1. CASE slots[pos] = Hole
    <3>1. Fetched' = Fetched
      BY <2>1 DEF Fetched
    <3>2. Hole \notin Stable
      BY DEF Stable, Typed
    <3> QED
      BY <2>0, <2>1, <3>1, <3>2, <1>0 DEF FetchedOnce, Entry, Slots, Typed
  <2>2. CASE slots[pos] # Hole
    <3> DEFINE e == Entry(slots[pos])
    <3>1. Fetched' = Append(Fetched, e)
      BY <2>2, <1>0, EntryOfName DEF Fetched, Typed
    <3>2. e \in EntrySet
      BY <2>2, <1>0, EntryOfName
    <3>3. /\ (\A k \in DOMAIN Fetched : Fetched[k] # e) => OccursOnce(Fetched', e)
          /\ \A f : f # e /\ OccursOnce(Fetched, f) => OccursOnce(Fetched', f)
          /\ \A f : f # e /\ (\A k \in DOMAIN Fetched : Fetched[k] # f)
                 => \A k \in DOMAIN Fetched' : Fetched'[k] # f
      BY <1>0, <3>1, <3>2, AppendOccurs
    <3>4. SUFFICES ASSUME NEW i \in Slots, slots[i] \in Stable
                   PROVE  IF i < pos + 1 THEN OccursOnce(Fetched', Entry(slots[i]))
                          ELSE \A k \in DOMAIN Fetched' : Fetched'[k] # Entry(slots[i])
      BY <2>0 DEF FetchedOnce, Entry, TypeChar
    <3>5. /\ IF i < pos THEN OccursOnce(Fetched, Entry(slots[i]))
             ELSE \A k \in DOMAIN Fetched : Fetched[k] # Entry(slots[i])
          /\ i \in Nat /\ pos \in Nat
      BY <2>0, <3>4 DEF FetchedOnce, Slots, Typed
    <3>6. CASE i = pos
      BY <3>5, <3>6, <3>3
    <3>7. CASE i # pos
      <4>1. Entry(slots[i]) # e
        BY <3>4, <3>7, <2>2, <1>0, EntryOfName DEF SlotsDistinct
      <4>2. CASE i < pos
        <5>1. OccursOnce(Fetched', Entry(slots[i]))
          BY <4>1, <4>2, <3>5, <3>3
        <5> QED
          BY <5>1, <4>2, <3>5
      <4>3. CASE ~ (i < pos)
        <5>1. \A k \in DOMAIN Fetched' : Fetched'[k] # Entry(slots[i])
          BY <4>1, <4>3, <3>5, <3>3
        <5> QED
          BY <5>1, <4>3, <3>5, <3>7
      <4> QED
        BY <4>2, <4>3
    <3> QED
      BY <3>6, <3>7
  <2> QED
    BY <2>1, <2>2
<1> QED
  BY <1>1, <1>2, <1>3

LEMMA VisitIInv == ASSUME IInv, Visit PROVE IInv'
<1> USE DEF IInv, Visit
<1>1. Fetched' = Fetched
  BY VisitKeepsFetched DEF Fetched, Typed
<1>2. Typed'
  <2>1. Head(pending) \in EntrySet /\ Tail(pending) \in Seq(EntrySet)
    BY DEF Typed
  <2> QED
    BY <2>1 DEF Typed
<1>3. SlotsDistinct' /\ StablePresent' /\ StableVisitedOnce'
  BY DEF SlotsDistinct, StablePresent, StableVisitedOnce, Stable
<1>4. FetchedOnce'
  BY <1>1 DEF FetchedOnce, Stable, Entry
<1> QED
  BY <1>2, <1>3, <1>4

LEMMA EndIInv == ASSUME NSlots \in Nat, IInv, End PROVE IInv'
<1> USE DEF IInv, End
<1>1. Typed' /\ SlotsDistinct' /\ StablePresent' /\ FetchedOnce'
  BY DEF Typed, SlotsDistinct, StablePresent, Stable, FetchedOnce
<1>2. StableVisitedOnce'
  <2>1. Fetched = seen
    BY DEF Fetched, Typed
  <2>2. ASSUME NEW name \in Stable PROVE OccursOnce(seen, Entry(name))
    <3>1. PICK i \in Slots : slots[i] = name
      BY <2>2 DEF StablePresent
    <3>2. i < pos
      BY DEF Slots
    <3> QED
      BY <2>1, <2>2, <3>1, <3>2 DEF FetchedOnce
  <2> QED
    BY <2>2 DEF StableVisitedOnce, Stable, Entry
<1> QED
  BY <1>1, <1>2

LEMMA FailIInv == ASSUME IInv, Fail PROVE IInv'
  BY DEF IInv, Fail, Typed, SlotsDistinct, StablePresent, Stable, FetchedOnce, StableVisitedOnce

LEMMA NextIInv ==
  ASSUME NSlots \in Nat, Hole \notin Names, IInv, [Next]_vars PROVE IInv'
<1>1. CASE UNCHANGED vars
  BY <1>1 DEF vars, IInv, Typed, SlotsDistinct, StablePresent, Stable, FetchedOnce,
              Fetched, StableVisitedOnce
<1> QED
  BY <1>1, OthersIInv, FetchIInv, VisitIInv, EndIInv, FailIInv DEF Next

\* Every scan, whatever the directory and whatever other processes do
\* between two calls of vfs_readdir, visits each name that stayed exactly
\* once when it ends without an error.
THEOREM StreamVisitsOnce ==
  ASSUME NSlots \in Nat, Hole \notin Names
  PROVE  Spec => []StableVisitedOnce
<1>1. Init => IInv
  BY InitIInv
<1>2. IInv /\ [Next]_vars => IInv'
  BY NextIInv
<1>3. IInv => StableVisitedOnce
  BY DEF IInv
<1> QED
  BY <1>1, <1>2, <1>3, PTL DEF Spec

-----------------------------------------------------------------------------
(***************************************************************************)
(* Nothing is invented: what is in a slot, was fetched or was visited is a *)
(* name that the directory had at some time.                               *)
(***************************************************************************)
FromEver(s) == \A k \in DOMAIN s : \E name \in ever : s[k] = Entry(name)

Origin ==
  /\ \A i \in Slots : slots[i] = Hole \/ slots[i] \in ever
  /\ FromEver(pending)
  /\ FromEver(seen)

LEMMA OriginStep ==
  ASSUME NSlots \in Nat, Typed, Origin, [Next]_vars PROVE Origin'
<1>1. CASE Others
  <2>1. ever \subseteq ever' /\ pending' = pending /\ seen' = seen
    BY <1>1 DEF Others, Change, Unlink, Create, Rmdir
  <2>2. \A i \in Slots : slots'[i] = Hole \/ slots'[i] \in ever'
    BY <1>1 DEF Others, Change, Unlink, Create, Rmdir, Origin, Typed
  <2>3. FromEver(pending)' /\ FromEver(seen)'
    BY <2>1 DEF Origin, FromEver, Entry, TypeChar
  <2> QED
    BY <2>2, <2>3 DEF Origin
<1>2. CASE Fetch
  <2>1. UNCHANGED <<slots, seen, ever>> /\ pos \in Slots
    BY <1>2 DEF Fetch
  <2>2. FromEver(pending)'
    <3>1. CASE slots[pos] = Hole
      BY <1>2, <2>1, <3>1 DEF Fetch, Origin, FromEver, Entry
    <3>2. CASE slots[pos] # Hole
      <4> DEFINE e == Entry(slots[pos])
      <4>1. pending' = Append(pending, e) /\ slots[pos] \in ever /\ slots[pos] \in Names
        BY <1>2, <2>1, <3>2 DEF Fetch, Origin, Typed
      <4>2. e \in EntrySet
        BY <4>1, EntryOfName
      <4>3. e = Entry(slots[pos])
        OBVIOUS
      <4> HIDE DEF e
      <4>4. ASSUME NEW k \in DOMAIN pending' PROVE pending'[k] = e \/ (k \in DOMAIN pending /\ pending'[k] = pending[k])
        BY <4>1, <4>2 DEF Typed
      <4> QED
        BY <2>1, <4>1, <4>3, <4>4 DEF Origin, FromEver, Entry
    <3> QED
      BY <3>1, <3>2
  <2> QED
    BY <2>1, <2>2 DEF Origin, FromEver, Entry
<1>3. CASE Visit
  <2>1. UNCHANGED <<slots, ever>> /\ pending # <<>> /\ seen' = Append(seen, Head(pending)) /\ pending' = Tail(pending)
    BY <1>3 DEF Visit
  <2>2. pending \in Seq(EntrySet) /\ seen \in Seq(EntrySet)
    BY DEF Typed
  <2>3. \A k \in DOMAIN pending' : k + 1 \in DOMAIN pending /\ pending'[k] = pending[k + 1]
    BY <2>1, <2>2
  <2>4. 1 \in DOMAIN pending /\ Head(pending) = pending[1] /\ Head(pending) \in EntrySet
    BY <2>1, <2>2
  <2>5. ASSUME NEW k \in DOMAIN seen' PROVE seen'[k] = pending[1] \/ (k \in DOMAIN seen /\ seen'[k] = seen[k])
    BY <2>1, <2>2, <2>4
  <2>6. FromEver(pending)'
    BY <2>1, <2>3 DEF Origin, FromEver, Entry
  <2>7. FromEver(seen)'
    BY <2>1, <2>4, <2>5 DEF Origin, FromEver, Entry
  <2> QED
    BY <2>1, <2>6, <2>7 DEF Origin
<1>4. CASE End \/ Fail
  BY <1>4 DEF End, Fail, Origin, FromEver, Entry
<1>5. CASE UNCHANGED vars
  BY <1>5 DEF vars, Origin, FromEver, Entry
<1> QED
  BY <1>1, <1>2, <1>3, <1>4, <1>5 DEF Next

\* Every visited entry is, with its type, one that the directory had while
\* it was being read, whatever other processes did in between.
THEOREM StreamInventsNothing ==
  ASSUME NSlots \in Nat, Hole \notin Names
  PROVE  Spec => []NothingInvented
<1>1. Init => IInv /\ Origin
  <2> SUFFICES ASSUME Init PROVE Origin
    BY InitIInv
  <2>1. pending = <<>> /\ seen = <<>>
    BY DEF Init
  <2> QED
    BY <2>1 DEF Init, InitDir, Origin, FromEver, Present
<1>2. (IInv /\ Origin) /\ [Next]_vars => (IInv /\ Origin)'
  BY NextIInv, OriginStep DEF IInv
<1>3. Origin => NothingInvented
  BY DEF Origin, FromEver, NothingInvented
<1> QED
  BY <1>1, <1>2, <1>3, PTL DEF Spec

=============================================================================
