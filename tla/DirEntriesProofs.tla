-------------------------- MODULE DirEntriesProofs --------------------------
(***************************************************************************)
(* For every size of the array, every set of names and every behaviour of  *)
(* the other processes: search_filldir keeps to its array, and packing and *)
(* walking the bytes implement the stream of DirStream, whose guarantees   *)
(* therefore hold of the loop in search_directory.                         *)
(*                                                                         *)
(* FillInBounds needs what the size test relies on: ds->dirs[n].next       *)
(* always points at a byte of entries[] and the slots hold names that fit  *)
(* an empty array (IInv).  The refinement needs that the bytes below       *)
(* ds->dirs[n].next are whole entries (ScanInv).                           *)
(***************************************************************************)
EXTENDS DirEntries, SequenceTheorems, WellFoundedInduction, TLAPS

-----------------------------------------------------------------------------
(***************************************************************************)
(* Induction over numbers.  The library's rules take an operator, which    *)
(* the provers cannot instantiate; here a set of numbers that has 0 and    *)
(* with every number the next one has all of them, since otherwise there   *)
(* is a least number that it lacks.                                        *)
(***************************************************************************)
\* Every set of natural numbers that is not empty has a least element.
LEMMA LeastNat ==
  ASSUME NEW T \in SUBSET Nat, T # {}
  PROVE  \E x \in T : \A y \in T : x <= y
<1>1. PICK x \in T : \A y \in T : ~ (<<y, x>> \in OpToRel(<, Nat))
  BY NatLessThanWellFounded, WFMin
<1>2. \A y \in T : ~ (y < x)
  BY <1>1 DEF OpToRel
<1> QED
  BY <1>2

\* Induction: what holds of 0 and goes from n to n + 1 holds of all numbers.
LEMMA NatUp ==
  ASSUME NEW S, 0 \in S, \A n \in Nat : n \in S => n + 1 \in S
  PROVE  Nat \subseteq S
<1> SUFFICES ASSUME Nat \ S # {} PROVE FALSE
  OBVIOUS
<1>1. PICK x \in Nat \ S : \A y \in Nat \ S : x <= y
  BY LeastNat
<1>2. x # 0 /\ x - 1 \in Nat /\ x - 1 \in S
  BY <1>1
<1> QED
  BY <1>1, <1>2

Char == STRING \cup {"d", "o", NUL, Stale}

IInv ==
  /\ slots \in [1 .. NSlots -> Names \cup {<<>>}]
  /\ next \in 0 .. SEARCH_BUF - 1
  /\ buf \in [Bytes -> Char]
  /\ FillInBounds

\* What search_filldir stores for a terminated name that has room: bytes of
\* the array only, and ds->dirs[n].next stays on the array's NUL.
LEMMA FilldirInBounds ==
  ASSUME Tails = {<<>>}, IInv, NEW name \in Names, NEW tail \in Tails,
         search_filldir(name, tail)
  PROVE  /\ next' \in 0 .. SEARCH_BUF - 1
         /\ buf' \in [Bytes -> Char]
         /\ FillInBounds'
<1> DEFINE text == <<Dir!TypeChar(name)>> \o name \o tail \o <<NUL>>
<1>1. name \in Seq(Char) /\ SEARCH_BUF \in Nat \ {0} /\ Len(name) \in Nat
  <2>1. name \in Seq(STRING)
    BY PackAssumption
  <2> QED
    BY <2>1, PackAssumption DEF Char
<1>2. <<Dir!TypeChar(name)>> \in Seq(Char) /\ <<NUL>> \in Seq(Char)
  BY DEF Dir!TypeChar, Char
<1>3. text \in Seq(Char) /\ Len(text) = Len(name) + 2
  <2>1. tail \in Seq(Char) /\ Len(tail) = 0
    OBVIOUS
  <2>2. /\ <<Dir!TypeChar(name)>> \o name \in Seq(Char)
        /\ Len(<<Dir!TypeChar(name)>> \o name) = 1 + Len(name)
    BY <1>1, <1>2
  <2> QED
    BY <1>1, <1>2, <2>1, <2>2
<1>4. /\ DOMAIN text = 1 .. Len(name) + 2
      /\ \A k \in 1 .. Len(name) + 2 : text[k] \in Char
  BY <1>1, <1>3
<1> HIDE DEF text
<1>5. /\ SEARCH_BUF - next >= Len(name) + 3
      /\ next' = next + Len(name) + 2
      /\ buf' = [i \in Bytes |->
                   IF i = next + Len(name) + 2 THEN NUL
                   ELSE IF i - next + 1 \in DOMAIN text THEN text[i - next + 1]
                   ELSE buf[i]]
  BY DEF search_filldir, Room, Packed, text
<1>6. next \in Nat /\ next' \in 0 .. SEARCH_BUF - 1
  BY <1>1, <1>5 DEF IInv
<1>7. ASSUME NEW i \in Bytes
      PROVE  buf'[i] \in Char /\ (i >= SEARCH_BUF => buf'[i] = Stale)
  <2>1. buf'[i] = IF i = next + Len(name) + 2 THEN NUL
                  ELSE IF i - next + 1 \in DOMAIN text THEN text[i - next + 1]
                  ELSE buf[i]
    BY <1>5, <1>7
  <2>2. buf[i] \in Char /\ (i >= SEARCH_BUF => buf[i] = Stale) /\ i \in Int
    BY <1>7 DEF IInv, FillInBounds, Bytes
  <2>3. i - next + 1 \in DOMAIN text => text[i - next + 1] \in Char
    BY <1>4
  <2>4. i >= SEARCH_BUF => i # next + Len(name) + 2 /\ i - next + 1 \notin DOMAIN text
    BY <1>1, <1>4, <1>5, <1>6, <2>2
  <2>5. buf'[i] \in Char
    <3>1. NUL \in Char
      BY DEF Char
    <3> QED
      BY <2>1, <2>2, <2>3, <3>1
  <2>6. i >= SEARCH_BUF => buf'[i] = Stale
    BY <2>1, <2>2, <2>4
  <2> QED
    BY <2>5, <2>6
<1>8. buf' \in [Bytes -> Char]
  BY <1>5, <1>7
<1> QED
  BY <1>6, <1>7, <1>8 DEF FillInBounds

LEMMA IInvInit == ASSUME Init PROVE IInv
<1>1. slots \in [1 .. NSlots -> Names \cup {<<>>}]
  BY DEF Init, Dir!InitDir, Dir!Slots, Dir!Hole
<1>2. next \in 0 .. SEARCH_BUF - 1
  BY PackAssumption DEF Init
<1>3. buf \in [Bytes -> Char] /\ FillInBounds
  BY DEF Init, FillInBounds, Char
<1> QED
  BY <1>1, <1>2, <1>3 DEF IInv

LEMMA IInvStep == ASSUME Tails = {<<>>}, IInv, [Next]_vars PROVE IInv'
<1> USE DEF IInv
<1>1. CASE Fill
  <2>1. slots' = slots
    BY <1>1 DEF Fill, dirVars
  <2>2. CASE slots[pos] = Dir!Hole
    BY <1>1, <2>1, <2>2 DEF Fill, FillInBounds
  <2>3. CASE slots[pos] # Dir!Hole
    <3>1. slots[pos] \in Names
      BY <1>1, <2>3 DEF Fill, Dir!Hole, Dir!Slots
    <3>2. PICK tail \in Tails : search_filldir(slots[pos], tail)
      BY <1>1, <2>3 DEF Fill
    <3> QED
      BY <2>1, <3>1, <3>2, FilldirInBounds
  <2> QED
    BY <2>2, <2>3
<1>2. CASE Others
  <2>1. slots' \in [1 .. NSlots -> Names \cup {<<>>}]
    BY <1>2 DEF Others, Dir!Change, Dir!Unlink, Dir!Create, Dir!Rmdir, Dir!Slots, Dir!Hole
  <2> QED
    BY <1>2, <2>1 DEF Others, FillInBounds
<1>3. CASE StartRound
  BY <1>3, PackAssumption DEF StartRound, dirVars, FillInBounds
<1>4. CASE EndReaddir \/ ReaddirFails \/ StartWalk \/ TakeEntry \/ EndWalk
  BY <1>4 DEF EndReaddir, ReaddirFails, StartWalk, TakeEntry, EndWalk, dirVars, FillInBounds
<1>5. CASE UNCHANGED vars
  BY <1>5 DEF vars, FillInBounds
<1> QED
  BY <1>1, <1>2, <1>3, <1>4, <1>5 DEF Next, Scan

\* search_filldir stores only inside entries[], as long as the file system
\* hands it NUL-terminated names: for every SEARCH_BUF, every set of names
\* and every behaviour of the other processes.
THEOREM FillStaysInBounds ==
  ASSUME Tails = {<<>>}
  PROVE  Spec => []FillInBounds
<1>1. Init => IInv
  BY IInvInit
<1>2. IInv /\ [Next]_vars => IInv'
  BY IInvStep
<1>3. IInv => FillInBounds
  BY DEF IInv
<1> QED
  BY <1>1, <1>2, <1>3, PTL DEF Spec

-----------------------------------------------------------------------------
(***************************************************************************)
(* Packing and walking implement the stream of DirStream.  The operators   *)
(* of the refinement mapping are restated for any contents b of the array, *)
(* so that one lemma serves the state before and the state after a step.   *)
(***************************************************************************)
Last == SEARCH_BUF + Guard - 1

LenAt(b, i) == Min({j \in Bytes : j >= i /\ (b[j] = NUL \/ j = SEARCH_BUF + Guard - 1)}) - i

NameAt(b, i) == [k \in 1 .. LenAt(b, i) |-> b[i + k - 1]]

ParsedIn(b) ==
  LET P[i \in 0 .. SEARCH_BUF + Guard] ==
        IF i >= SEARCH_BUF + Guard - 1 \/ b[i] = NUL THEN <<>>
        ELSE <<[type |-> b[i], name |-> NameAt(b, i + 1)]>> \o P[i + 2 + LenAt(b, i + 1)]
  IN  P

LEMMA SameOperators ==
  /\ \A i : strlen(i) = LenAt(buf, i)
  /\ \A i : StringAt(i) = NameAt(buf, i)
  /\ Parsed = ParsedIn(buf)
<1>1. \A i : strlen(i) = LenAt(buf, i)
  BY DEF strlen, LenAt
<1>2. \A i : StringAt(i) = NameAt(buf, i)
  BY DEF StringAt, NameAt, strlen, LenAt
<1>3. Parsed = ParsedIn(buf)
  BY DEF Parsed, ParsedIn, StringAt, NameAt, strlen, LenAt
<1> QED
  BY <1>1, <1>2, <1>3

\* The string at byte i ends at the first NUL, at the latest at the last byte.
LEMMA StringEnds ==
  ASSUME NEW b, NEW i \in Bytes
  PROVE  /\ LenAt(b, i) \in Nat /\ i + LenAt(b, i) \in Bytes
         /\ b[i + LenAt(b, i)] = NUL \/ i + LenAt(b, i) = Last
         /\ \A k \in i .. i + LenAt(b, i) - 1 : b[k] # NUL
<1> DEFINE T == {j \in Bytes : j >= i /\ (b[j] = NUL \/ j = Last)}
<1>1. SEARCH_BUF \in Nat \ {0} /\ Bytes = 0 .. Last /\ Last \in Nat /\ Guard = 8
  BY PackAssumption DEF Bytes, Last, Guard
<1>2. T \in SUBSET Nat /\ T # {}
  BY <1>1
<1>3. PICK x \in T : \A y \in T : x <= y
  BY <1>2, LeastNat
<1>4. Min(T) \in T /\ \A y \in T : Min(T) <= y
  BY <1>3 DEF Min
<1>5. LenAt(b, i) = Min(T) - i
  BY DEF LenAt, Last
<1>6. i + LenAt(b, i) = Min(T) /\ LenAt(b, i) \in Nat
  BY <1>1, <1>4, <1>5
<1> QED
  BY <1>1, <1>4, <1>6

\* The first NUL at or after byte i determines the string's length.
LEMMA StringLength ==
  ASSUME NEW b, NEW i \in Bytes, NEW j \in Bytes, i <= j, b[j] = NUL,
         \A k \in i .. j - 1 : b[k] # NUL
  PROVE  LenAt(b, i) = j - i
<1> DEFINE l == LenAt(b, i)
<1>1. /\ l \in Nat /\ i + l \in Bytes
      /\ b[i + l] = NUL \/ i + l = Last
      /\ \A k \in i .. i + l - 1 : b[k] # NUL
  BY StringEnds
<1> HIDE DEF l
<1>2. i \in Nat /\ j \in Nat /\ j <= Last /\ Last \in Nat
  BY PackAssumption DEF Bytes, Last, Guard
<1>3. ~ (i + l > j)
  BY <1>1, <1>2
<1>4. ~ (i + l < j)
  BY <1>1, <1>2
<1> QED
  BY <1>1, <1>2, <1>3, <1>4 DEF l

\* The recursion of ParsedIn, for a function g on the last bytes only.
ParseStep(b, i, rest) ==
  IF i >= SEARCH_BUF + Guard - 1 \/ b[i] = NUL THEN <<>>
  ELSE <<[type |-> b[i], name |-> NameAt(b, i + 1)]>> \o rest

ParsesFrom(g, b, first) ==
  g = [i \in first .. SEARCH_BUF + Guard |-> ParseStep(b, i, g[i + 2 + LenAt(b, i + 1)])]

\* The recursion is well-founded: the next entry starts at a higher byte.
LEMMA ParseExists ==
  ASSUME NEW b
  PROVE  \E g : ParsesFrom(g, b, 0)
<1> DEFINE top == SEARCH_BUF + Guard
           S == {n \in Nat : n <= top => \E g : ParsesFrom(g, b, top - n)}
<1>0. SEARCH_BUF \in Nat /\ Guard \in Nat
  BY PackAssumption DEF Guard
<1>1. top \in Nat /\ Bytes = 0 .. top - 1 /\ top >= 9 /\ Last = top - 1
  BY PackAssumption DEF Guard, Bytes, Last
<1>2. \A i, r : i \in Int /\ i >= top - 1 => ParseStep(b, i, r) = <<>>
  BY <1>0 DEF ParseStep
<1>3. \A g, f : ParsesFrom(g, b, f) <=>
                g = [i \in f .. top |-> ParseStep(b, i, g[i + 2 + LenAt(b, i + 1)])]
  BY DEF ParsesFrom
<1> HIDE DEF top
<1>4. 0 \in S
  <2> DEFINE h == [i \in top .. top |-> <<>>]
             F == [i \in top .. top |-> ParseStep(b, i, h[i + 2 + LenAt(b, i + 1)])]
  <2>1. \A i \in top .. top : F[i] = <<>>
    BY <1>1, <1>2
  <2>2. h = F
    <3> HIDE DEF F
    <3>1. F = [i \in top .. top |-> F[i]]
      BY DEF F
    <3> QED
      BY <2>1, <3>1
  <2>3. ParsesFrom(h, b, top)
    BY <1>3, <2>2
  <2>4. top - 0 = top
    BY <1>1
  <2> QED
    BY <2>3, <2>4
<1>5. ASSUME NEW n \in Nat, n \in S PROVE n + 1 \in S
  <2> SUFFICES ASSUME n + 1 <= top PROVE \E h : ParsesFrom(h, b, top - (n + 1))
    OBVIOUS
  <2> DEFINE f == top - (n + 1)
  <2>1. f \in Nat /\ f + 1 = top - n /\ f <= top - 1 /\ f \in Bytes
    BY <1>1
  <2>2. PICK g : ParsesFrom(g, b, f + 1)
    BY <1>1, <1>5, <2>1
  <2> HIDE DEF f
  <2> DEFINE v == ParseStep(b, f, g[f + 2 + LenAt(b, f + 1)])
             h == [i \in f .. top |-> IF i = f THEN v ELSE g[i]]
  <2>3. ASSUME NEW i \in f .. top
        PROVE  h[i] = ParseStep(b, i, h[i + 2 + LenAt(b, i + 1)])
    <3>1. h[i] = ParseStep(b, i, g[i + 2 + LenAt(b, i + 1)])
      <4>1. CASE i = f
        BY <4>1
      <4>2. CASE i # f
        <5>1. i \in f + 1 .. top /\ h[i] = g[i]
          BY <1>1, <2>1, <4>2
        <5>2. g[i] = ParseStep(b, i, g[i + 2 + LenAt(b, i + 1)])
          BY <1>3, <2>2, <5>1
        <5> QED
          BY <5>1, <5>2
      <4> QED
        BY <4>1, <4>2
    <3>2. CASE i >= top - 1
      BY <1>1, <1>2, <2>1, <3>1, <3>2
    <3>3. CASE ~ (i >= top - 1)
      <4>1. i + 1 \in Bytes
        BY <1>1, <2>1, <3>3
      <4>2. i + 2 + LenAt(b, i + 1) \in f + 1 .. top
        BY <1>1, <2>1, <4>1, StringEnds
      <4>3. h[i + 2 + LenAt(b, i + 1)] = g[i + 2 + LenAt(b, i + 1)]
        BY <1>1, <2>1, <4>2
      <4> QED
        BY <3>1, <4>3
    <3> QED
      BY <3>2, <3>3
  <2>4. h = [i \in f .. top |-> h[i]]
    OBVIOUS
  <2> HIDE DEF h
  <2> DEFINE F == [i \in f .. top |-> ParseStep(b, i, h[i + 2 + LenAt(b, i + 1)])]
  <2>5. ParsesFrom(h, b, f)
    <3>1. \A i \in f .. top : F[i] = h[i]
      BY <2>3
    <3>2. F = [i \in f .. top |-> F[i]]
      OBVIOUS
    <3>3. h = F
      <4> HIDE DEF F
      <4> QED
        BY <2>4, <3>1, <3>2
    <3> QED
      BY <1>3, <3>3
  <2> QED
    BY <2>5 DEF f
<1>6. Nat \subseteq S
  <2> HIDE DEF S
  <2> QED
    BY <1>4, <1>5, NatUp
<1>7. \E g : ParsesFrom(g, b, top - top)
  BY <1>1, <1>6
<1>8. top - top = 0
  BY <1>1
<1> QED
  BY <1>7, <1>8

LEMMA ParsedUnfold ==
  ASSUME NEW b, NEW i \in 0 .. SEARCH_BUF + Guard
  PROVE  ParsedIn(b)[i] = ParseStep(b, i, ParsedIn(b)[i + 2 + LenAt(b, i + 1)])
<1>1. ParsesFrom(ParsedIn(b), b, 0)
  BY ParseExists DEF ParsesFrom, ParsedIn, ParseStep
<1> QED
  BY <1>1 DEF ParsesFrom

\* The first n bytes of b are whole entries: B holds the bytes where one
\* starts, and n, where the next one goes.
Chain(b, n, B) ==
  /\ B \subseteq 0 .. n /\ 0 \in B /\ n \in B
  /\ \A i \in B \ {n} : b[i] # NUL /\ i + 2 + LenAt(b, i + 1) \in B

AnyEntry == [type : Char, name : Seq(Char)]

\* The string of an entry ends below n.
LEMMA ChainString ==
  ASSUME NEW b \in [Bytes -> Char], NEW n \in 0 .. SEARCH_BUF - 1, NEW B, Chain(b, n, B),
         NEW i \in B \ {n}, NEW l, l = LenAt(b, i + 1)
  PROVE  /\ i \in Nat /\ i < n /\ l \in Nat
         /\ b[i] # NUL
         /\ i + 2 + l \in B /\ i + 2 + l <= n
         /\ b[i + 1 + l] = NUL
         /\ \A k \in i + 1 .. i + l : b[k] # NUL
<1>1. SEARCH_BUF \in Nat /\ Guard = 8 /\ Last = SEARCH_BUF + 7 /\ Bytes = 0 .. SEARCH_BUF + 7
  BY PackAssumption DEF Guard, Last, Bytes
<1>2. i \in 0 .. n /\ i # n /\ i < n /\ b[i] # NUL /\ i + 2 + l \in B /\ i + 2 + l \in 0 .. n
  <2>1. i \in 0 .. n /\ i # n /\ b[i] # NUL /\ i + 2 + l \in B /\ i + 2 + l \in 0 .. n
    BY DEF Chain
  <2> QED
    BY <1>1, <2>1
<1> DEFINE x == i + 1
<1>3. x \in Bytes
  BY <1>1, <1>2
<1>4. /\ l \in Nat /\ x + l \in Bytes
      /\ b[x + l] = NUL \/ x + l = Last
      /\ \A k \in x .. x + l - 1 : b[k] # NUL
  <2>1. l = LenAt(b, x)
    OBVIOUS
  <2> HIDE DEF x
  <2> QED
    BY <1>3, <2>1, StringEnds
<1>5. b[i + 1 + l] = NUL /\ x + l - 1 = i + l
  BY <1>1, <1>2, <1>4, SMTT(30)
<1> QED
  BY <1>2, <1>4, <1>5

\* What the walk finds at a byte where an entry starts.
LEMMA ChainEntry ==
  ASSUME NEW b \in [Bytes -> Char], NEW n \in 0 .. SEARCH_BUF - 1, NEW B, Chain(b, n, B),
         NEW i \in B \ {n}, NEW l, l = LenAt(b, i + 1),
         NEW e, e = [type |-> b[i], name |-> NameAt(b, i + 1)]
  PROVE  /\ e \in AnyEntry
         /\ ParsedIn(b)[i] = <<e>> \o ParsedIn(b)[i + 2 + l]
<1>1. SEARCH_BUF \in Nat /\ Guard = 8 /\ Bytes = 0 .. SEARCH_BUF + 7
  BY PackAssumption DEF Guard, Bytes
<1>2. i \in Nat /\ i < n /\ l \in Nat /\ b[i] # NUL /\ i + 2 + l <= n
  BY ChainString
<1>3. i \in Bytes /\ i \in 0 .. SEARCH_BUF + Guard
  BY <1>1, <1>2
<1>4. NameAt(b, i + 1) \in Seq(Char)
  <2>1. NameAt(b, i + 1) = [k \in 1 .. l |-> b[i + 1 + k - 1]]
    BY DEF NameAt
  <2>2. \A k \in 1 .. l : i + 1 + k - 1 \in Bytes
    BY <1>1, <1>2
  <2>3. \A k \in 1 .. l : b[i + 1 + k - 1] \in Char
    BY <2>2
  <2> HIDE DEF Char
  <2> QED
    BY <1>2, <2>1, <2>3
<1>5. b[i] \in Char
  BY <1>3
<1>6. ParsedIn(b)[i] = ParseStep(b, i, ParsedIn(b)[i + 2 + l])
  BY <1>3, ParsedUnfold
<1>7. ParseStep(b, i, ParsedIn(b)[i + 2 + l]) = <<e>> \o ParsedIn(b)[i + 2 + l]
  BY <1>1, <1>2 DEF ParseStep
<1> QED
  BY <1>4, <1>5, <1>6, <1>7 DEF AnyEntry

\* Below n the strings of b and c are the same when their bytes are.
LEMMA SameString ==
  ASSUME NEW b \in [Bytes -> Char], NEW c \in [Bytes -> Char], NEW n \in 0 .. SEARCH_BUF - 1,
         \A k \in 0 .. n - 1 : c[k] = b[k],
         NEW B, Chain(b, n, B), NEW i \in B \ {n}
  PROVE  LenAt(c, i + 1) = LenAt(b, i + 1) /\ NameAt(c, i + 1) = NameAt(b, i + 1) /\ c[i] = b[i]
<1> DEFINE l == LenAt(b, i + 1)
<1>1. SEARCH_BUF \in Nat /\ Bytes = 0 .. SEARCH_BUF + 7
  BY PackAssumption DEF Guard, Bytes
<1>2. /\ i \in Nat /\ i < n /\ l \in Nat
      /\ i + 2 + l <= n
      /\ b[i + 1 + l] = NUL
      /\ \A k \in i + 1 .. i + l : b[k] # NUL
  BY ChainString
<1> HIDE DEF l
<1>3. /\ i + 1 \in Bytes /\ i + 1 + l \in Bytes /\ i + 1 <= i + 1 + l
      /\ c[i + 1 + l] = NUL
      /\ \A k \in i + 1 .. i + 1 + l - 1 : c[k] # NUL
  <2>1. i + 1 \in Bytes /\ i + 1 + l \in Bytes /\ i + 1 <= i + 1 + l
    BY <1>1, <1>2
  <2>2. c[i + 1 + l] = NUL
    BY <1>2
  <2>3. ASSUME NEW k \in i + 1 .. i + 1 + l - 1 PROVE c[k] # NUL
    <3>1. k \in i + 1 .. i + l /\ k \in 0 .. n - 1
      BY <1>2
    <3> QED
      BY <1>2, <3>1
  <2> QED
    BY <2>1, <2>2, <2>3
<1>5. LenAt(c, i + 1) = l
  <2> DEFINE x == i + 1
             y == i + 1 + l
  <2>1. x \in Bytes /\ y \in Bytes /\ x <= y /\ c[y] = NUL /\ \A k \in x .. y - 1 : c[k] # NUL
    BY <1>2, <1>3
  <2> HIDE DEF x, y
  <2>2. LenAt(c, x) = y - x
    BY <2>1, StringLength
  <2> QED
    BY <1>2, <2>2 DEF x, y
<1>6. \A k \in 1 .. l : c[i + 1 + k - 1] = b[i + 1 + k - 1]
  BY <1>1, <1>2
<1>7. NameAt(c, i + 1) = NameAt(b, i + 1)
  BY <1>5, <1>6 DEF NameAt, l
<1>8. c[i] = b[i]
  BY <1>1, <1>2
<1> QED
  BY <1>5, <1>7, <1>8 DEF l

\* The first n bytes always parse to a sequence of entries.
LEMMA ChainTyped ==
  ASSUME NEW b \in [Bytes -> Char], NEW n \in 0 .. SEARCH_BUF - 1, NEW B, Chain(b, n, B),
         b[n] = NUL
  PROVE  \A i \in B : ParsedIn(b)[i] \in Seq(AnyEntry)
<1> DEFINE S == {k \in Nat : \A i \in B : n - i <= k => ParsedIn(b)[i] \in Seq(AnyEntry)}
<1>1. SEARCH_BUF \in Nat /\ Guard = 8 /\ n \in Nat /\ B \subseteq 0 .. n /\ n \in B
  BY PackAssumption DEF Guard, Chain
<1>2. ParsedIn(b)[n] = <<>> /\ ParsedIn(b)[n] \in Seq(AnyEntry)
  <2>1. n \in 0 .. SEARCH_BUF + Guard
    BY <1>1
  <2>2. ParsedIn(b)[n] = ParseStep(b, n, ParsedIn(b)[n + 2 + LenAt(b, n + 1)])
    BY <2>1, ParsedUnfold, Zenon
  <2>3. ParsedIn(b)[n] = <<>>
    BY <2>2 DEF ParseStep
  <2> QED
    BY <2>3
<1>3. 0 \in S
  <2>1. \A i \in B : n - i <= 0 => i = n
    BY <1>1
  <2> QED
    BY <1>2, <2>1
<1>4. ASSUME NEW k \in Nat, k \in S PROVE k + 1 \in S
  <2> SUFFICES ASSUME NEW i \in B, n - i <= k + 1 PROVE ParsedIn(b)[i] \in Seq(AnyEntry)
    OBVIOUS
  <2>1. CASE i = n
    BY <1>2, <2>1
  <2>2. CASE i # n
    <3> DEFINE t == i + 2 + LenAt(b, i + 1)
               e == [type |-> b[i], name |-> NameAt(b, i + 1)]
    <3>1. /\ i \in Nat /\ t \in B /\ t <= n /\ e \in AnyEntry
          /\ LenAt(b, i + 1) \in Nat
          /\ ParsedIn(b)[i] = <<e>> \o ParsedIn(b)[t]
      <4>1. i \in Nat /\ t \in B /\ t <= n /\ LenAt(b, i + 1) \in Nat
        BY <2>2, ChainString
      <4>2. e \in AnyEntry /\ ParsedIn(b)[i] = <<e>> \o ParsedIn(b)[t]
        <5> HIDE DEF e
        <5>1. e = [type |-> b[i], name |-> NameAt(b, i + 1)]
          BY DEF e
        <5> QED
          BY <2>2, <5>1, ChainEntry
      <4> QED
        BY <4>1, <4>2
    <3>2. n - t <= k
      BY <1>1, <3>1
    <3> HIDE DEF t, e
    <3>3. ParsedIn(b)[t] \in Seq(AnyEntry)
      BY <1>4, <3>1, <3>2
    <3> QED
      BY <3>1, <3>3
  <2> QED
    BY <2>1, <2>2
<1>5. Nat \subseteq S
  <2> HIDE DEF S
  <2> QED
    BY <1>3, <1>4, NatUp
<1>6. ASSUME NEW i \in B PROVE ParsedIn(b)[i] \in Seq(AnyEntry)
  <2>1. n - i \in Nat /\ n - i <= n - i
    BY <1>1
  <2> QED
    BY <1>5, <2>1
<1> QED
  BY <1>6

EntryOf(ty, nm) == [type |-> ty, name |-> nm]

\* The walk from byte i on yields e and no more.
LastEntry(b, i, e) == ParsedIn(b)[i] = <<e>>

\* c is b with an entry of this type and name packed behind the first n
\* bytes; the list ends at byte m.
PackedBehind(c, b, n, m, ty, nm) ==
  /\ ty \in Char \ {NUL} /\ nm \in Seq(Char) /\ \A k \in DOMAIN nm : nm[k] # NUL
  /\ m = n + Len(nm) + 2 /\ m <= SEARCH_BUF - 1
  /\ \A k \in 0 .. n - 1 : c[k] = b[k]
  /\ c[n] = ty
  /\ \A k \in 1 .. Len(nm) : c[n + k] = nm[k]
  /\ c[n + Len(nm) + 1] = NUL
  /\ c[m] = NUL

\* The new entry is read back as it was packed, and the chain goes on.
LEMMA NewEntry ==
  ASSUME NEW b \in [Bytes -> Char], NEW c \in [Bytes -> Char], NEW n \in 0 .. SEARCH_BUF - 1,
         NEW B, Chain(b, n, B), NEW m, NEW ty, NEW nm,
         PackedBehind(c, b, n, m, ty, nm)
  PROVE  /\ m \in 0 .. SEARCH_BUF - 1
         /\ Chain(c, m, B \cup {m})
         /\ LastEntry(c, n, EntryOf(ty, nm))
<1>0. ty # NUL /\ nm \in Seq(Char) /\ \A k \in DOMAIN nm : nm[k] # NUL
  BY DEF PackedBehind
<1>1. SEARCH_BUF \in Nat /\ Guard = 8 /\ Bytes = 0 .. SEARCH_BUF + 7 /\ n \in Nat /\ Len(nm) \in Nat
  BY <1>0, PackAssumption DEF Guard, Bytes
<1>2. /\ m = n + Len(nm) + 2 /\ m <= SEARCH_BUF - 1 /\ m \in Nat
      /\ \A k \in 0 .. n - 1 : c[k] = b[k]
      /\ c[n] = ty
      /\ \A k \in 1 .. Len(nm) : c[n + k] = nm[k]
      /\ c[n + Len(nm) + 1] = NUL
      /\ c[m] = NUL
  BY <1>1 DEF PackedBehind
<1>3. LenAt(c, n + 1) = Len(nm)
  <2> DEFINE x == n + 1
             y == n + Len(nm) + 1
  <2>1. x \in Bytes /\ y \in Bytes /\ x <= y /\ c[y] = NUL
    BY <1>1, <1>2
  <2>2. ASSUME NEW k \in x .. y - 1 PROVE c[k] # NUL
    <3>1. k - n \in 1 .. Len(nm) /\ n + (k - n) = k
      BY <1>1
    <3>2. c[k] = nm[k - n]
      BY <1>2, <3>1
    <3> QED
      BY <1>0, <3>1, <3>2
  <2> HIDE DEF x, y
  <2>3. LenAt(c, x) = y - x
    BY <2>1, <2>2, StringLength
  <2> QED
    BY <1>1, <2>3 DEF x, y
<1>4. NameAt(c, n + 1) = nm
  <2>1. NameAt(c, n + 1) = [k \in 1 .. Len(nm) |-> c[n + 1 + k - 1]]
    BY <1>3 DEF NameAt
  <2>2. \A k \in 1 .. Len(nm) : c[n + 1 + k - 1] = nm[k]
    <3> TAKE k \in 1 .. Len(nm)
    <3>1. n + 1 + k - 1 = n + k
      BY <1>1
    <3> QED
      BY <1>2, <3>1
  <2>3. nm = [k \in 1 .. Len(nm) |-> nm[k]]
    BY <1>0
  <2> QED
    BY <2>1, <2>2, <2>3
<1>8. n + 2 + LenAt(c, n + 1) = m
  <2> DEFINE l == Len(nm)
  <2>1. m = n + l + 2 /\ n \in Nat /\ l \in Nat /\ LenAt(c, n + 1) = l
    BY <1>1, <1>2, <1>3
  <2> HIDE DEF l
  <2>2. n + 2 + l = n + l + 2
    BY <2>1
  <2> QED
    BY <2>1, <2>2
<1>5. ParsedIn(c)[m] = <<>>
  <2>1. m \in 0 .. SEARCH_BUF + Guard
    BY <1>1, <1>2
  <2>2. ParsedIn(c)[m] = ParseStep(c, m, ParsedIn(c)[m + 2 + LenAt(c, m + 1)])
    BY <2>1, ParsedUnfold
  <2> QED
    BY <1>2, <2>2 DEF ParseStep
<1> DEFINE e == EntryOf(ty, nm)
<1>6. ParsedIn(c)[n] = <<e>>
  <2>1. n \in 0 .. SEARCH_BUF + Guard /\ ~ (n >= SEARCH_BUF + Guard - 1)
    BY <1>1
  <2>2. ParsedIn(c)[n] = ParseStep(c, n, ParsedIn(c)[n + 2 + LenAt(c, n + 1)])
    BY <2>1, ParsedUnfold
  <2>3. n + 2 + LenAt(c, n + 1) = m
    BY <1>8
  <2>4. ParsedIn(c)[n] = ParseStep(c, n, <<>>)
    BY <1>5, <2>2, <2>3
  <2>5. ParseStep(c, n, <<>>) = <<e>> \o <<>>
    BY <1>0, <1>2, <1>4, <2>1 DEF ParseStep, EntryOf
  <2> QED
    BY <2>4, <2>5
<1>7. Chain(c, m, B \cup {m})
  <2>1. B \subseteq 0 .. n /\ 0 \in B /\ n \in B
    BY DEF Chain
  <2>2. B \cup {m} \subseteq 0 .. m
    <3>1. m \in Nat /\ n <= m
      BY <1>1, <1>2
    <3> QED
      BY <1>1, <2>1, <3>1
  <2>3. ASSUME NEW i \in B PROVE c[i] # NUL /\ i + 2 + LenAt(c, i + 1) \in B \cup {m}
    <3>1. CASE i = n
      BY <1>0, <1>2, <1>8, <3>1
    <3>2. CASE i # n
      <4>1. LenAt(c, i + 1) = LenAt(b, i + 1) /\ c[i] = b[i]
        BY <1>2, <3>2, SameString
      <4>2. b[i] # NUL /\ i + 2 + LenAt(b, i + 1) \in B
        BY <3>2 DEF Chain
      <4> QED
        BY <4>1, <4>2
    <3> QED
      BY <3>1, <3>2
  <2> QED
    BY <2>1, <2>2, <2>3 DEF Chain
<1> QED
  BY <1>1, <1>2, <1>6, <1>7 DEF LastEntry

\* Every walk over the packed entries gets the new one as its last.
LEMMA EntryAppended ==
  ASSUME NEW b \in [Bytes -> Char], NEW c \in [Bytes -> Char], NEW n \in 0 .. SEARCH_BUF - 1,
         NEW B, Chain(b, n, B), b[n] = NUL, NEW m, NEW ty, NEW nm,
         PackedBehind(c, b, n, m, ty, nm)
  PROVE  \A i \in B : ParsedIn(c)[i] = Append(ParsedIn(b)[i], EntryOf(ty, nm))
<1> DEFINE e == EntryOf(ty, nm)
           S == {k \in Nat : \A i \in B : n - i <= k => ParsedIn(c)[i] = Append(ParsedIn(b)[i], e)}
<1>1. SEARCH_BUF \in Nat /\ Guard = 8 /\ n \in Nat /\ B \subseteq 0 .. n /\ n \in B
  BY PackAssumption DEF Guard, Chain
<1>2. ParsedIn(b)[n] = <<>>
  <2>1. n \in 0 .. SEARCH_BUF + Guard
    BY <1>1
  <2>2. ParsedIn(b)[n] = ParseStep(b, n, ParsedIn(b)[n + 2 + LenAt(b, n + 1)])
    BY <2>1, ParsedUnfold
  <2> QED
    BY <2>2 DEF ParseStep
<1>3. /\ m \in 0 .. SEARCH_BUF - 1 /\ Chain(c, m, B \cup {m})
      /\ ParsedIn(c)[n] = <<e>>
  <2> HIDE DEF e
  <2>1. e = EntryOf(ty, nm)
    BY DEF e
  <2>2. m \in 0 .. SEARCH_BUF - 1
    BY NewEntry
  <2>3. Chain(c, m, B \cup {m})
    BY NewEntry
  <2>4. LastEntry(c, n, EntryOf(ty, nm))
    BY NewEntry
  <2> QED
    BY <2>1, <2>2, <2>3, <2>4 DEF LastEntry
<1>4. e \in AnyEntry
  BY DEF AnyEntry, EntryOf, PackedBehind
<1>5. m \in Nat /\ n < m
  <2>1. m = n + Len(nm) + 2 /\ Len(nm) \in Nat
    BY DEF PackedBehind
  <2> QED
    BY <1>1, <2>1
<1> HIDE DEF e
<1>10. ParsedIn(c)[n] = Append(ParsedIn(b)[n], e)
  BY <1>2, <1>3
<1>6. 0 \in S
  <2>1. \A i \in B : n - i <= 0 => i = n
    BY <1>1
  <2> QED
    BY <1>10, <2>1
<1>7. ASSUME NEW k \in Nat, k \in S PROVE k + 1 \in S
  <2> SUFFICES ASSUME NEW i \in B, n - i <= k + 1
               PROVE  ParsedIn(c)[i] = Append(ParsedIn(b)[i], e)
    OBVIOUS
  <2>1. CASE i = n
    BY <1>10, <2>1
  <2>2. CASE i # n
    <3> DEFINE l == LenAt(b, i + 1)
               t == i + 2 + l
               x == [type |-> b[i], name |-> NameAt(b, i + 1)]
    <3>1. i \in Nat /\ l \in Nat /\ t \in B
      BY <2>2, ChainString
    <3>2. x \in AnyEntry /\ ParsedIn(b)[i] = <<x>> \o ParsedIn(b)[t]
      <4> HIDE DEF x
      <4>1. x = [type |-> b[i], name |-> NameAt(b, i + 1)]
        BY DEF x
      <4> QED
        BY <2>2, <4>1, ChainEntry
    <3>3. LenAt(c, i + 1) = l /\ NameAt(c, i + 1) = NameAt(b, i + 1) /\ c[i] = b[i]
      <4>1. \A j \in 0 .. n - 1 : c[j] = b[j]
        BY DEF PackedBehind
      <4> QED
        BY <2>2, <4>1, SameString
    <3>4. ParsedIn(c)[i] = <<x>> \o ParsedIn(c)[t]
      <4>1. i \in (B \cup {m}) \ {m} /\ x = [type |-> c[i], name |-> NameAt(c, i + 1)]
        BY <1>1, <1>5, <3>3
      <4> HIDE DEF x
      <4> QED
        BY <1>3, <3>3, <4>1, ChainEntry
    <3>5. n - t <= k
      BY <1>1, <3>1
    <3> HIDE DEF l, t, x
    <3>6. ParsedIn(c)[t] = Append(ParsedIn(b)[t], e)
      BY <1>7, <3>1, <3>5
    <3>7. ParsedIn(b)[t] \in Seq(AnyEntry)
      BY <3>1, ChainTyped
    <3>8. ASSUME NEW s \in Seq(AnyEntry) PROVE <<x>> \o Append(s, e) = Append(<<x>> \o s, e)
      BY <1>4, <3>2
    <3> QED
      BY <3>2, <3>4, <3>6, <3>7, <3>8
  <2> QED
    BY <2>1, <2>2
<1>8. Nat \subseteq S
  <2> HIDE DEF S
  <2> QED
    BY <1>6, <1>7, NatUp
<1>9. ASSUME NEW i \in B PROVE ParsedIn(c)[i] = Append(ParsedIn(b)[i], e)
  <2>1. n - i \in Nat /\ n - i <= n - i
    BY <1>1
  <2> QED
    BY <1>8, <2>1
<1> QED
  BY <1>9 DEF e

-----------------------------------------------------------------------------
(***************************************************************************)
(* The inductive invariant of the refinement: whatever part of the loop    *)
(* the scan is in, the bytes below ds->dirs[n].next are whole entries and  *)
(* the walk stands at the start of one, or at the NUL that ends the list.  *)
(***************************************************************************)
WholeEntries ==
  \E B \in SUBSET (0 .. next) :
    /\ Chain(buf, next, B)
    /\ next > 0 => buf[next] = NUL
    /\ pc = "walk" => next > 0 /\ entry \in B

ScanInv ==
  /\ IInv
  /\ pc \in {"readdir", "fill", "batch", "walk", "done"}
  /\ pos \in 1 .. NSlots + 1
  /\ entry \in Bytes
  /\ status \in {"reading", "ok", "ENOENT", "EIO"}
  /\ status = "reading" <=> pc # "done"
  /\ pc = "batch" /\ next = 0 => pos = NSlots + 1
  /\ pc \in {"fill", "batch", "walk"} => WholeEntries

\* What the walk would still yield, for any values of the variables.
PendingAt(p, b, n, i) ==
  CASE p \in {"fill", "batch"} /\ n > 0 -> ParsedIn(b)[0]
    [] p = "walk" -> ParsedIn(b)[i]
    [] OTHER -> <<>>

LEMMA PendingValue ==
  /\ Pending = PendingAt(pc, buf, next, entry)
  /\ Pending' = PendingAt(pc', buf', next', entry')
<1>1. Parsed = ParsedIn(buf) /\ Parsed' = ParsedIn(buf')
  BY DEF Parsed, ParsedIn, StringAt, NameAt, strlen, LenAt
<1> QED
  BY <1>1 DEF Pending, PendingAt

\* search_filldir packs the entry behind the others.
LEMMA FilldirPacks ==
  ASSUME IInv, NEW name \in Names, search_filldir(name, <<>>)
  PROVE  /\ PackedBehind(buf', buf, next, next', Dir!TypeChar(name), name)
         /\ EntryOf(Dir!TypeChar(name), name) = Dir!Entry(name)
<1> DEFINE ty == Dir!TypeChar(name)
           text == <<ty>> \o name \o <<>> \o <<NUL>>
           l == Len(name)
<1>1. /\ name \in Seq(Char) /\ l \in Nat /\ SEARCH_BUF \in Nat /\ next \in Nat
      /\ next <= SEARCH_BUF - 1 /\ Bytes = 0 .. SEARCH_BUF + 7
      /\ \A k \in DOMAIN name : name[k] # NUL
  <2>1. name \in Seq(STRING)
    BY PackAssumption
  <2>2. name \in Seq(Char)
    BY <2>1 DEF Char
  <2> QED
    BY <2>2, PackAssumption DEF IInv, Bytes, Guard
<1>2. ty \in Char /\ ty # NUL
  BY DEF Dir!TypeChar, Char, NUL
<1> HIDE DEF ty
<1>3. /\ DOMAIN text = 1 .. l + 2
      /\ text[1] = ty /\ text[l + 2] = NUL
      /\ \A k \in 1 .. l : text[k + 1] = name[k]
  <2> DEFINE u == <<ty>> \o name
  <2>1. u \in Seq(Char) /\ Len(u) = l + 1 /\ u[1] = ty /\ \A k \in 1 .. l : u[k + 1] = name[k]
    BY <1>1, <1>2
  <2> HIDE DEF u
  <2>2. u \o <<>> = u /\ NUL \in Char
    BY <2>1 DEF Char
  <2>3. text = u \o <<NUL>>
    BY <2>2 DEF u
  <2> HIDE DEF text
  <2> QED
    BY <1>1, <2>1, <2>2, <2>3
<1>4. /\ SEARCH_BUF - next >= l + 3
      /\ next' = next + l + 2
      /\ buf' = [i \in Bytes |->
                   IF i = next + l + 2 THEN NUL
                   ELSE IF i - next + 1 \in DOMAIN text THEN text[i - next + 1]
                   ELSE buf[i]]
  BY DEF search_filldir, Room, Packed, text, ty
<1> HIDE DEF text
<1>5. ASSUME NEW i \in Bytes
      PROVE  buf'[i] = IF i = next + l + 2 THEN NUL
                       ELSE IF i - next + 1 \in 1 .. l + 2 THEN text[i - next + 1]
                       ELSE buf[i]
  BY <1>3, <1>4
<1> HIDE DEF l
<1>6. next' \in Bytes /\ next' <= SEARCH_BUF - 1
  BY <1>1, <1>4
<1>7. \A k \in 0 .. next - 1 : buf'[k] = buf[k]
  <2> TAKE k \in 0 .. next - 1
  <2>1. k \in Bytes /\ k # next + l + 2 /\ k - next + 1 \notin 1 .. l + 2
    BY <1>1
  <2> QED
    BY <1>5, <2>1
<1>8. buf'[next] = ty
  <2>1. next \in Bytes /\ next # next + l + 2 /\ next - next + 1 = 1 /\ 1 \in 1 .. l + 2
    BY <1>1
  <2> QED
    BY <1>3, <1>5, <2>1
<1>9. \A k \in 1 .. l : buf'[next + k] = name[k]
  <2> TAKE k \in 1 .. l
  <2> DEFINE i == next + k
  <2>1. i \in Bytes /\ i # next + l + 2 /\ i - next + 1 = k + 1 /\ k + 1 \in 1 .. l + 2
    BY <1>1, <1>4
  <2> HIDE DEF i
  <2>2. buf'[i] = name[k]
    BY <1>3, <1>5, <2>1
  <2> QED
    BY <2>2 DEF i
<1>10. buf'[next + l + 1] = NUL
  <2> DEFINE i == next + l + 1
  <2>1. i \in Bytes /\ i # next + l + 2 /\ i - next + 1 = l + 2 /\ l + 2 \in 1 .. l + 2
    BY <1>1, <1>4
  <2> HIDE DEF i
  <2>2. buf'[i] = NUL
    BY <1>3, <1>5, <2>1
  <2> QED
    BY <2>2 DEF i
<1>11. buf'[next'] = NUL
  BY <1>4, <1>5, <1>6
<1>12. PackedBehind(buf', buf, next, next', ty, name)
  BY <1>1, <1>2, <1>4, <1>6, <1>7, <1>8, <1>9, <1>10, <1>11 DEF PackedBehind, l
<1> QED
  BY <1>12 DEF ty, EntryOf, Dir!Entry

\* Other processes change the directory and nothing the scan holds.
LEMMA OthersStep ==
  ASSUME ScanInv, Others PROVE Dir!Others /\ Pending' = Pending
<1>1. Pending' = Pending
  BY PendingValue DEF Others
<1> QED
  BY <1>1 DEF Others, Dir!Others

\* Offering one entry is a fetch: the packed list grows by that entry, and a
\* list of one entry starts when the array was empty.
LEMMA FillStep ==
  ASSUME Tails = {<<>>}, ScanInv, IInv', Fill
  PROVE  Dir!Fetch /\ WholeEntries'
<1>1. /\ pc = "fill" /\ pc' = "fill" /\ pos \in Dir!Slots /\ pos' = pos + 1
      /\ UNCHANGED <<slots, dead, ever, touched, seen, status, entry>>
      /\ status = "reading"
  BY DEF Fill, dirVars, ScanInv
<1>2. PICK B \in SUBSET (0 .. next) : Chain(buf, next, B) /\ (next > 0 => buf[next] = NUL)
  BY <1>1 DEF ScanInv, WholeEntries
<1>3. /\ buf \in [Bytes -> Char] /\ buf' \in [Bytes -> Char]
      /\ next \in 0 .. SEARCH_BUF - 1 /\ SEARCH_BUF \in Nat
  BY PackAssumption DEF ScanInv, IInv
<1>4. CASE slots[pos] = Dir!Hole
  <2>1. buf' = buf /\ next' = next
    BY <1>4 DEF Fill
  <2>2. Pending' = Pending
    BY <1>1, <2>1, PendingValue
  <2>3. WholeEntries'
    BY <1>1, <1>2, <2>1 DEF WholeEntries
  <2> QED
    BY <1>1, <1>4, <2>2, <2>3 DEF Dir!Fetch
<1>5. CASE slots[pos] # Dir!Hole
  <2> DEFINE name == slots[pos]
             ty == Dir!TypeChar(name)
  <2>1. name \in Names /\ search_filldir(name, <<>>)
    BY <1>1, <1>5 DEF Fill, ScanInv, IInv, Dir!Slots, Dir!Hole
  <2>2. PackedBehind(buf', buf, next, next', ty, name) /\ EntryOf(ty, name) = Dir!Entry(name)
    BY <2>1, FilldirPacks DEF ScanInv
  <2> HIDE DEF name, ty
  <2>3. next' \in 0 .. SEARCH_BUF - 1
    BY <1>2, <1>3, <2>2, NewEntry
  <2>4. Chain(buf', next', B \cup {next'})
    BY <1>2, <1>3, <2>2, NewEntry
  <2>5. LastEntry(buf', next, EntryOf(ty, name))
    BY <1>2, <1>3, <2>2, NewEntry
  <2>6. next < next' /\ buf'[next'] = NUL /\ next \in Nat
    <3>1. next' = next + Len(name) + 2 /\ Len(name) \in Nat /\ buf'[next'] = NUL
      BY <2>2 DEF PackedBehind
    <3> QED
      BY <1>3, <3>1
  <2>7. WholeEntries'
    <3>1. B \cup {next'} \in SUBSET (0 .. next')
      BY <1>3, <2>3, <2>6
    <3>2. pc' # "walk"
      BY <1>1
    <3> QED
      BY <2>4, <2>6, <3>1, <3>2 DEF WholeEntries
  <2>8. Pending' = Append(Pending, EntryOf(ty, name))
    <3>1. Pending' = ParsedIn(buf')[0]
      BY <1>1, <1>3, <2>3, <2>6, PendingValue DEF PendingAt
    <3>2. CASE next = 0
      <4>1. Pending = <<>>
        BY <1>1, <3>2, PendingValue DEF PendingAt
      <4> DEFINE e == EntryOf(ty, name)
      <4>2. ParsedIn(buf')[0] = <<e>>
        BY <2>5, <3>2 DEF LastEntry
      <4> HIDE DEF e
      <4>3. Append(<<>>, e) = <<e>>
        OBVIOUS
      <4> QED
        BY <3>1, <4>1, <4>2, <4>3 DEF e
    <3>3. CASE next # 0
      <4>1. Pending = ParsedIn(buf)[0] /\ buf[next] = NUL /\ 0 \in B
        BY <1>1, <1>2, <2>6, <3>3, PendingValue DEF PendingAt, Chain
      <4>2. \A i \in B : ParsedIn(buf')[i] = Append(ParsedIn(buf)[i], EntryOf(ty, name))
        BY <1>2, <1>3, <2>2, <4>1, EntryAppended
      <4> QED
        BY <3>1, <4>1, <4>2
    <3> QED
      BY <3>2, <3>3
  <2>9. Dir!Fetch
    BY <1>1, <1>5, <2>2, <2>8 DEF Dir!Fetch, name
  <2> QED
    BY <2>7, <2>9
<1> QED
  BY <1>4, <1>5

\* Taking an entry is a visit: the first of the entries that are left.
LEMMA TakeStep ==
  ASSUME ScanInv, TakeEntry
  PROVE  Dir!Visit /\ WholeEntries' /\ entry' \in Bytes
<1> DEFINE l == LenAt(buf, entry + 1)
           e == [type |-> buf[entry], name |-> NameAt(buf, entry + 1)]
           rest == ParsedIn(buf)[entry + 2 + l]
<1>1. /\ pc = "walk" /\ pc' = "walk" /\ buf' = buf /\ next' = next /\ buf[entry] # NUL
      /\ UNCHANGED <<slots, dead, ever, touched, pos, status>>
      /\ status = "reading"
  BY DEF TakeEntry, dirVars, ScanInv
<1>2. seen' = Append(seen, e) /\ entry' = entry + 2 + l
  BY SameOperators DEF TakeEntry
<1>3. PICK B \in SUBSET (0 .. next) :
        Chain(buf, next, B) /\ buf[next] = NUL /\ next > 0 /\ entry \in B
  BY <1>1 DEF ScanInv, WholeEntries
<1>4. /\ buf \in [Bytes -> Char] /\ next \in 0 .. SEARCH_BUF - 1 /\ SEARCH_BUF \in Nat
      /\ Guard = 8 /\ Bytes = 0 .. SEARCH_BUF + 7
  BY PackAssumption DEF ScanInv, IInv, Guard, Bytes
<1>5. entry \in B \ {next}
  BY <1>1, <1>3
<1>6. l = LenAt(buf, entry + 1) /\ e = [type |-> buf[entry], name |-> NameAt(buf, entry + 1)]
  OBVIOUS
<1>7. rest = ParsedIn(buf)[entry + 2 + l]
  OBVIOUS
<1> HIDE DEF l, e, rest
<1>8. e \in AnyEntry /\ ParsedIn(buf)[entry] = <<e>> \o rest
  BY <1>3, <1>4, <1>5, <1>6, <1>7, ChainEntry, SMTT(30)
<1>9. entry' \in B
  BY <1>2, <1>3, <1>4, <1>5, <1>6, ChainString
<1>10. rest \in Seq(AnyEntry)
  BY <1>2, <1>3, <1>4, <1>7, <1>9, ChainTyped
<1>11. Pending = <<e>> \o rest /\ Pending' = rest
  BY <1>1, <1>2, <1>7, <1>8, PendingValue DEF PendingAt
<1>12. Head(<<e>> \o rest) = e /\ Tail(<<e>> \o rest) = rest /\ <<e>> \o rest # <<>>
  BY <1>8, <1>10
<1>13. Dir!Visit
  BY <1>1, <1>2, <1>11, <1>12 DEF Dir!Visit
<1>14. WholeEntries'
  BY <1>1, <1>3, <1>9 DEF WholeEntries
<1>15. entry' \in Bytes
  BY <1>3, <1>4, <1>9
<1> QED
  BY <1>13, <1>14, <1>15

\* The walk ends where nothing is left to visit.
LEMMA EndWalkStep ==
  ASSUME ScanInv, EndWalk
  PROVE  Pending = <<>> /\ Pending' = <<>>
<1>1. pc = "walk" /\ pc' = "readdir" /\ (buf[entry] = NUL \/ entry = SEARCH_BUF + Guard - 1)
  BY DEF EndWalk
<1>2. entry \in 0 .. SEARCH_BUF + Guard /\ entry \in Nat /\ SEARCH_BUF + Guard \in Nat
  BY PackAssumption DEF ScanInv, Bytes, Guard
<1>3. ParsedIn(buf)[entry] = <<>>
  <2>1. ParsedIn(buf)[entry] = ParseStep(buf, entry, ParsedIn(buf)[entry + 2 + LenAt(buf, entry + 1)])
    BY <1>2, ParsedUnfold
  <2>2. entry >= SEARCH_BUF + Guard - 1 \/ buf[entry] = NUL
    BY <1>1, <1>2
  <2> QED
    BY <2>1, <2>2 DEF ParseStep
<1> QED
  BY <1>1, <1>3, PendingValue DEF PendingAt

LEMMA StartRoundStep ==
  ASSUME ScanInv, StartRound
  PROVE  (UNCHANGED Dir!vars \/ Dir!Fail) /\ (pc' = "fill" => WholeEntries')
<1>1. /\ pc = "readdir" /\ next' = 0 /\ pc' \in {"done", "fill"} /\ status = "reading"
      /\ dead \in BOOLEAN => (IF dead THEN pc' = "done" /\ status' = "ENOENT"
                                      ELSE pc' = "fill" /\ status' = status)
      /\ UNCHANGED <<slots, dead, ever, touched, pos, seen, buf, entry>>
  BY DEF StartRound, dirVars, ScanInv
<1>2. Pending = <<>> /\ Pending' = <<>>
  BY <1>1, PendingValue DEF PendingAt
<1>3. UNCHANGED Dir!vars \/ Dir!Fail
  BY <1>1, <1>2 DEF Dir!vars, Dir!Fail, StartRound, dirVars
<1>4. Chain(buf', next', {0})
  BY <1>1 DEF Chain
<1>5. pc' = "fill" => WholeEntries'
  BY <1>1, <1>4 DEF WholeEntries
<1> QED
  BY <1>3, <1>5

\* An empty round happens only behind the last entry: every name fits an
\* empty array, so readdir stops there for no other reason.
LEMMA EndReaddirStep ==
  ASSUME ScanInv, EndReaddir
  PROVE  /\ Pending' = Pending
         /\ next' = 0 => pos' = NSlots + 1
         /\ WholeEntries'
<1>1. pc = "fill" /\ pc' = "batch" /\ UNCHANGED <<slots, pos, buf, next, entry>>
  BY DEF EndReaddir, dirVars
<1>2. Pending' = Pending
  BY <1>1, PendingValue DEF PendingAt
<1>3. WholeEntries'
  BY <1>1 DEF ScanInv, WholeEntries
<1>4. ASSUME next = 0 PROVE pos = NSlots + 1
  <2>1. ASSUME pos \in Dir!Slots, slots[pos] # Dir!Hole PROVE Room(slots[pos])
    <3>1. slots[pos] \in Names
      BY <2>1 DEF ScanInv, IInv, Dir!Slots, Dir!Hole
    <3>2. Len(slots[pos]) + 3 <= SEARCH_BUF /\ SEARCH_BUF \in Nat
      BY <3>1, PackAssumption
    <3> QED
      BY <1>4, <3>2 DEF Room
  <2> QED
    BY <1>4, <2>1 DEF EndReaddir
<1> QED
  BY <1>1, <1>2, <1>3, <1>4

LEMMA StartWalkStep ==
  ASSUME ScanInv, StartWalk
  PROVE  (UNCHANGED Dir!vars \/ Dir!End) /\ (pc' = "walk" => WholeEntries')
<1>1. /\ pc = "batch" /\ status = "reading" /\ next \in Nat
      /\ UNCHANGED <<slots, dead, ever, touched, pos, seen, buf, next>>
  BY PackAssumption DEF StartWalk, dirVars, ScanInv, IInv
<1>2. CASE next > 0
  <2>1. pc' = "walk" /\ entry' = 0 /\ status' = status
    BY <1>2 DEF StartWalk
  <2>2. Pending' = Pending
    BY <1>1, <1>2, <2>1, PendingValue DEF PendingAt
  <2>3. PICK B \in SUBSET (0 .. next) : Chain(buf, next, B) /\ buf[next] = NUL
    BY <1>1, <1>2 DEF ScanInv, WholeEntries
  <2>4. 0 \in B
    BY <2>3 DEF Chain
  <2>5. WholeEntries'
    BY <1>1, <1>2, <2>1, <2>3, <2>4 DEF WholeEntries
  <2> QED
    BY <1>1, <2>1, <2>2, <2>5 DEF Dir!vars
<1>3. CASE next = 0
  <2>1. pc' = "done" /\ status' = "ok" /\ pos = NSlots + 1
    BY <1>1, <1>3 DEF StartWalk, ScanInv
  <2>2. Pending = <<>> /\ Pending' = <<>>
    BY <1>1, <1>3, <2>1, PendingValue DEF PendingAt
  <2> QED
    BY <1>1, <2>1, <2>2 DEF Dir!End
<1> QED
  BY <1>1, <1>2, <1>3

LEMMA ReaddirFailsStep ==
  ASSUME ScanInv, ReaddirFails PROVE Dir!Fail
<1>1. Pending' = <<>>
  BY PendingValue DEF PendingAt, ReaddirFails
<1> QED
  BY <1>1 DEF ReaddirFails, dirVars, ScanInv, Dir!Fail

LEMMA ScanInvInit == ASSUME Init PROVE ScanInv /\ Dir!Init
<1>1. Pending = <<>>
  BY DEF Init, Pending
<1>2. pos \in 1 .. NSlots + 1 /\ entry \in Bytes
  BY PackAssumption DEF Init, Bytes, Guard
<1> QED
  BY <1>1, <1>2, IInvInit DEF Init, Dir!Init, ScanInv

LEMMA ScanInvStep ==
  ASSUME Tails = {<<>>}, ScanInv, [Next]_vars
  PROVE  ScanInv' /\ [Dir!Next]_(Dir!vars)
<1>0. IInv'
  BY IInvStep DEF ScanInv
<1>1. CASE Others
  <2>1. Dir!Others
    BY <1>1, OthersStep
  <2>2. ScanInv'
    BY <1>0, <1>1 DEF Others, ScanInv, WholeEntries
  <2> QED
    BY <2>1, <2>2 DEF Dir!Next
<1>2. CASE StartRound
  <2>1. (UNCHANGED Dir!vars \/ Dir!Fail) /\ (pc' = "fill" => WholeEntries')
    BY <1>2, StartRoundStep
  <2>2. /\ pc' \in {"done", "fill"} /\ UNCHANGED <<pos, entry>>
        /\ pc' = "done" => status' = "ENOENT"
        /\ pc' = "fill" => status' = "reading"
    BY <1>2 DEF StartRound, ScanInv
  <2>3. ScanInv'
    BY <1>0, <2>1, <2>2 DEF ScanInv
  <2> QED
    BY <2>1, <2>3 DEF Dir!Next
<1>3. CASE Fill
  <2>1. Dir!Fetch /\ WholeEntries'
    BY <1>0, <1>3, FillStep
  <2>2. ScanInv'
    <3>1. pos' \in 1 .. NSlots + 1
      BY <1>3, PackAssumption DEF Fill, Dir!Slots
    <3> QED
      BY <1>0, <1>3, <2>1, <3>1 DEF Fill, ScanInv
  <2> QED
    BY <2>1, <2>2 DEF Dir!Next
<1>4. CASE EndReaddir
  <2>1. Pending' = Pending /\ (next' = 0 => pos' = NSlots + 1) /\ WholeEntries'
    BY <1>4, EndReaddirStep
  <2>2. ScanInv'
    BY <1>0, <1>4, <2>1 DEF EndReaddir, ScanInv
  <2>3. UNCHANGED Dir!vars
    BY <1>4, <2>1 DEF EndReaddir, dirVars, Dir!vars
  <2> QED
    BY <2>2, <2>3
<1>5. CASE ReaddirFails
  <2>1. Dir!Fail
    BY <1>5, ReaddirFailsStep
  <2>2. ScanInv'
    BY <1>0, <1>5 DEF ReaddirFails, ScanInv
  <2> QED
    BY <2>1, <2>2 DEF Dir!Next
<1>6. CASE StartWalk
  <2>1. (UNCHANGED Dir!vars \/ Dir!End) /\ (pc' = "walk" => WholeEntries')
    BY <1>6, StartWalkStep
  <2>2. /\ pc' \in {"walk", "done"} /\ pos' = pos /\ entry' \in Bytes
        /\ pc' = "walk" => status' = "reading"
        /\ pc' = "done" => status' = "ok"
    BY <1>6, PackAssumption DEF StartWalk, ScanInv, Bytes, Guard
  <2>3. ScanInv'
    BY <1>0, <2>1, <2>2 DEF ScanInv
  <2> QED
    BY <2>1, <2>3 DEF Dir!Next
<1>7. CASE TakeEntry
  <2>1. Dir!Visit /\ WholeEntries' /\ entry' \in Bytes
    BY <1>7, TakeStep
  <2>2. ScanInv'
    BY <1>0, <1>7, <2>1 DEF TakeEntry, ScanInv
  <2> QED
    BY <2>1, <2>2 DEF Dir!Next
<1>8. CASE EndWalk
  <2>1. Pending' = Pending
    BY <1>8, EndWalkStep
  <2>2. ScanInv'
    BY <1>0, <1>8 DEF EndWalk, ScanInv
  <2>3. UNCHANGED Dir!vars
    BY <1>8, <2>1 DEF EndWalk, dirVars, Dir!vars
  <2> QED
    BY <2>2, <2>3
<1>9. CASE UNCHANGED vars
  <2>1. UNCHANGED Dir!vars
    BY <1>9, PendingValue DEF vars, Dir!vars
  <2>2. ScanInv'
    BY <1>0, <1>9 DEF vars, ScanInv, WholeEntries
  <2> QED
    BY <2>1, <2>2
<1> QED
  BY <1>1, <1>2, <1>3, <1>4, <1>5, <1>6, <1>7, <1>8, <1>9 DEF Next, Scan

\* The loop of search_directory with search_filldir's packed bytes is the
\* stream of entries: for every size of the array, every directory of names
\* that fit it, and every interleaving with other processes.  Each call of
\* the callback fetches the entry of one slot and each step of the walk
\* visits the next entry, letter by letter as it was packed.
THEOREM PackingImplementsStream ==
  ASSUME Tails = {<<>>}
  PROVE  Spec => ImplementsStream
<1>1. Init => ScanInv /\ Dir!Init
  BY ScanInvInit
<1>2. ScanInv /\ [Next]_vars => ScanInv' /\ [Dir!Next]_(Dir!vars)
  BY ScanInvStep
<1> QED
  BY <1>1, <1>2, PTL DEF Spec, ImplementsStream, Dir!Spec

\* Offsets into the array, f_pos and the state of the loop keep their types.
THEOREM ScanTyped ==
  ASSUME Tails = {<<>>}
  PROVE  Spec => []TypeOK
<1>1. Init => ScanInv
  BY ScanInvInit
<1>2. ScanInv /\ [Next]_vars => ScanInv'
  BY ScanInvStep
<1>3. ScanInv => TypeOK
  BY PackAssumption DEF ScanInv, IInv, TypeOK
<1> QED
  BY <1>1, <1>2, <1>3, PTL DEF Spec

-----------------------------------------------------------------------------
(***************************************************************************)
(* What the stream promises, the packed bytes therefore promise too: the   *)
(* theorems about DirStream, with the entries left in the array for the    *)
(* entries fetched and not yet visited.                                    *)
(***************************************************************************)
Stream == INSTANCE DirStreamProofs WITH pending <- Pending

LEMMA SameStream ==
  /\ Stream!Init <=> Dir!Init
  /\ [Stream!Next]_(Stream!vars) <=> [Dir!Next]_(Dir!vars)
  /\ Stream!StableVisitedOnce <=> StableVisitedOnce
  /\ Stream!NothingInvented <=> NothingInvented
<1>1. Stream!Init <=> Dir!Init
  BY DEF Stream!Init, Stream!InitDir, Stream!Slots, Stream!Hole, Stream!Present,
         Dir!Init, Dir!InitDir, Dir!Slots, Dir!Hole, Dir!Present
<1>2. Stream!Change <=> Dir!Change
  <2>1. Stream!Slots = Dir!Slots /\ (Stream!MayChange <=> Dir!MayChange)
    BY DEF Stream!Slots, Dir!Slots, Stream!MayChange, Dir!MayChange, Stream!Cardinality, Dir!Cardinality
  <2>2. \A i : Stream!Unlink(i) <=> Dir!Unlink(i)
    BY <2>1 DEF Stream!Unlink, Dir!Unlink, Stream!Hole, Dir!Hole
  <2>3. Stream!Present = Dir!Present
    BY DEF Stream!Present, Stream!Slots, Stream!Hole, Dir!Present, Dir!Slots, Dir!Hole
  <2>4. \A i, name : Stream!Create(i, name) <=> Dir!Create(i, name)
    BY <2>1, <2>3 DEF Stream!Create, Dir!Create, Stream!Hole, Dir!Hole
  <2>5. Stream!Rmdir <=> Dir!Rmdir
    BY <2>3 DEF Stream!Rmdir, Dir!Rmdir
  <2> QED
    BY <2>1, <2>2, <2>4, <2>5 DEF Stream!Change, Dir!Change
<1>3. \A name : Stream!Entry(name) = Dir!Entry(name)
  BY DEF Stream!Entry, Stream!TypeChar, Dir!Entry, Dir!TypeChar
<1>4. Stream!Fetch <=> Dir!Fetch
  BY <1>3 DEF Stream!Fetch, Stream!Slots, Stream!Hole, Dir!Fetch, Dir!Slots, Dir!Hole
<1>5. /\ Stream!Others <=> Dir!Others
      /\ Stream!Visit <=> Dir!Visit
      /\ Stream!End <=> Dir!End
      /\ Stream!Fail <=> Dir!Fail
  BY <1>2 DEF Stream!Others, Stream!Visit, Stream!End, Stream!Fail,
              Dir!Others, Dir!Visit, Dir!End, Dir!Fail
<1>6. [Stream!Next]_(Stream!vars) <=> [Dir!Next]_(Dir!vars)
  BY <1>4, <1>5 DEF Stream!Next, Stream!vars, Dir!Next, Dir!vars
<1>7. Stream!StableVisitedOnce <=> StableVisitedOnce
  BY <1>3 DEF StableVisitedOnce, Stream!StableVisitedOnce, Dir!StableVisitedOnce,
              Stream!Stable, Dir!Stable, Stream!OccursOnce, Dir!OccursOnce
<1>8. Stream!NothingInvented <=> NothingInvented
  BY <1>3 DEF NothingInvented, Stream!NothingInvented, Dir!NothingInvented
<1> QED
  BY <1>1, <1>6, <1>7, <1>8

LEMMA ScanIsStream ==
  ASSUME Tails = {<<>>}
  PROVE  Spec => Stream!Spec
<1>1. Spec => Dir!Spec
  BY PackingImplementsStream DEF ImplementsStream
<1>2. (Dir!Init => Stream!Init) /\ ([Dir!Next]_(Dir!vars) => [Stream!Next]_(Stream!vars))
  BY SameStream
<1> QED
  BY <1>1, <1>2, PTL DEF Dir!Spec, Stream!Spec

\* A scan that ends with status 0 visited every name that stayed in the
\* directory exactly once and with its type, across all rounds of
\* vfs_readdir and whatever other processes changed between them.
THEOREM ScanVisitsOnce ==
  ASSUME Tails = {<<>>}
  PROVE  Spec => []StableVisitedOnce
<1>1. NSlots \in Nat /\ Stream!Hole \notin Names
  BY PackAssumption DEF Stream!Hole
<1>2. Stream!Spec => []Stream!StableVisitedOnce
  BY <1>1, Stream!StreamVisitsOnce
<1>3. Stream!StableVisitedOnce => StableVisitedOnce
  BY SameStream
<1> QED
  BY <1>2, <1>3, ScanIsStream, PTL

\* The walk over entries[] yields, letter by letter and with its type, only
\* what the directory had while it was being read: no stale byte, no rest of
\* an earlier round, no two entries run together.
THEOREM ScanInventsNothing ==
  ASSUME Tails = {<<>>}
  PROVE  Spec => []NothingInvented
<1>1. NSlots \in Nat /\ Stream!Hole \notin Names
  BY PackAssumption DEF Stream!Hole
<1>2. Stream!Spec => []Stream!NothingInvented
  BY <1>1, Stream!StreamInventsNothing
<1>3. Stream!NothingInvented => NothingInvented
  BY SameStream
<1> QED
  BY <1>2, <1>3, ScanIsStream, PTL

=============================================================================
