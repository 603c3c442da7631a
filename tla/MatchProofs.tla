---------------------------- MODULE MatchProofs ----------------------------
(***************************************************************************)
(* Proofs about the pattern matcher: for every pathname, every pattern and *)
(* every nesting limit the verdict of match_pathname is that of the        *)
(* reference.                                                              *)
(*                                                                         *)
(* Both sides are brought to trails, the positions a part of the pattern   *)
(* leads through the pathname: the reference's sets hold the ends of       *)
(* trails, and by induction from the end of an alternative an answer of    *)
(* __match_pathname says which trails there are (Right).  That the first   *)
(* answer found may stand for the whole call is because a trail crosses as *)
(* many slashes of the pathname as of the pattern: where all of an         *)
(* alternative fits is before where the pathname ends inside it.           *)
(***************************************************************************)
EXTENDS MatchCall, FiniteSetTheorems, WellFoundedInduction, TLAPS

-----------------------------------------------------------------------------
(***************************************************************************)
(* Induction over numbers.  The library's rules take an operator, which    *)
(* the provers cannot instantiate; here a set of numbers that has 0 and    *)
(* with every number the next one has all of them, since otherwise there   *)
(* is a least number that it lacks.                                        *)
(***************************************************************************)
\* Every set of natural numbers that is not empty has a least element.
LEMMA LeastNat ==
  ASSUME NEW T \in SUBSET Nat, T # {}
  PROVE  \E x \in T : \A y \in T : x <= y
<1>1. PICK x \in T : \A y \in T : ~ (<<y, x>> \in OpToRel(<, Nat))
  BY NatLessThanWellFounded, WFMin
<1>2. \A y \in T : ~ (y < x)
  BY <1>1 DEF OpToRel
<1> QED
  BY <1>2

LEMMA MinIsLeast ==
  ASSUME NEW T \in SUBSET Nat, T # {}
  PROVE  Min(T) \in T /\ \A y \in T : Min(T) <= y
  BY LeastNat DEF Min

\* What holds of 0 and goes from n to n + 1 holds of all numbers.
LEMMA NatUp ==
  ASSUME NEW S, 0 \in S, \A n \in Nat : n \in S => n + 1 \in S
  PROVE  Nat \subseteq S
<1> SUFFICES ASSUME Nat \ S # {} PROVE FALSE
  OBVIOUS
<1>1. PICK x \in Nat \ S : \A y \in Nat \ S : x <= y
  BY LeastNat
<1>2. x # 0 /\ x - 1 \in Nat /\ x - 1 \in S
  BY <1>1
<1> QED
  BY <1>1, <1>2

\* What holds of e and goes down from j + 1 to j holds from a on.
LEMMA Downward ==
  ASSUME NEW a \in Nat, NEW e \in Nat, a <= e, NEW S, e \in S,
         \A j \in a .. e - 1 : j + 1 \in S => j \in S
  PROVE  a .. e \subseteq S
<1> DEFINE T == {m \in Nat : e - m >= a => e - m \in S}
<1>1. 0 \in T
  <2>1. e - 0 = e
    OBVIOUS
  <2> QED
    BY <2>1
<1>2. ASSUME NEW m \in Nat, m \in T PROVE m + 1 \in T
  <2> DEFINE x == e - (m + 1)
  <2>1. x >= a => x \in a .. e - 1 /\ x + 1 = e - m /\ e - m >= a
    OBVIOUS
  <2>2. x >= a => x \in S
    BY <1>2, <2>1
  <2> QED
    BY <2>2
<1>3. Nat \subseteq T
  <2> HIDE DEF T
  <2> QED
    BY <1>1, <1>2, NatUp
<1>4. ASSUME NEW j \in a .. e PROVE j \in S
  <2>1. e - j \in Nat /\ e - (e - j) = j /\ j >= a
    OBVIOUS
  <2>2. e - j \in T
    BY <1>3, <2>1
  <2> QED
    BY <2>1, <2>2
<1> QED
  BY <1>4

-----------------------------------------------------------------------------
(***************************************************************************)
(* The characters, and the end of a component.                             *)
(***************************************************************************)
\* A character.  That "/" and "." are in STRING is not known to the provers.
Char == STRING \cup {"/", "."}

NoNul(s) == s \in Seq(Char) /\ \A k \in DOMAIN s : s[k] # NUL
Ends(s)  == Len(s) + 1

LEMMA Chars ==
  ASSUME NEW s, NoNul(s)
  PROVE  /\ Len(s) \in Nat /\ Ends(s) \in Nat \ {0} /\ DOMAIN s = 1 .. Len(s)
         /\ \A i \in 1 .. Len(s) : At(s, i) = s[i] /\ At(s, i) # NUL
         /\ At(s, Ends(s)) = NUL
         /\ \A i \in 1 .. Ends(s) : At(s, i) = NUL <=> i = Ends(s)
<1>1. Len(s) \in Nat /\ DOMAIN s = 1 .. Len(s)
  BY DEF NoNul
<1>2. \A i \in 1 .. Len(s) : At(s, i) = s[i] /\ At(s, i) # NUL
  BY <1>1 DEF NoNul, At
<1>3. ~ (Len(s) + 1 \in 1 .. Len(s)) /\ \A i \in 1 .. Len(s) + 1 : i \in 1 .. Len(s) \/ i = Len(s) + 1
  BY <1>1
<1> QED
  BY <1>1, <1>2, <1>3 DEF At, Ends

\* A component ends where a '/' or the NUL is, and has none of them before.
LEMMA ComponentEnds ==
  ASSUME NEW s, NoNul(s), NEW i \in 1 .. Ends(s)
  PROVE  /\ ComponentEnd(s, i) \in i .. Ends(s)
         /\ ~ is_filename(At(s, ComponentEnd(s, i)))
         /\ \A k \in i .. ComponentEnd(s, i) - 1 : is_filename(At(s, k))
<1> DEFINE T == {k \in i .. Ends(s) : ~ is_filename(At(s, k))}
<1>1. Ends(s) \in Nat /\ i \in Nat /\ Ends(s) \in i .. Ends(s)
  BY Chars
<1>2. Ends(s) \in T
  BY <1>1, Chars DEF is_filename
<1>3. T \in SUBSET Nat /\ T # {}
  BY <1>1, <1>2
<1>4. ComponentEnd(s, i) = Min(T)
  BY DEF ComponentEnd, Ends
<1>5. Min(T) \in T /\ \A y \in T : Min(T) <= y
  BY <1>3, MinIsLeast
<1>6. ASSUME NEW k \in i .. Min(T) - 1 PROVE is_filename(At(s, k))
  <2>1. k \in i .. Ends(s) /\ ~ (Min(T) <= k)
    BY <1>1, <1>5, <1>6
  <2> QED
    BY <1>5, <2>1
<1> QED
  BY <1>4, <1>5, <1>6

-----------------------------------------------------------------------------
(***************************************************************************)
(* __match_pathname satisfies its equation: what it answers at a place of  *)
(* the pattern depends on the places behind it only.                       *)
(***************************************************************************)
Row(s, p, later) ==
  [n \in 0 .. MaxNest |-> [i \in 1 .. Len(s) + 1 |-> Answer(s, p, later, n, i)]]

AreRows(g, s, t) == g = [j \in 1 .. Len(t) + 1 |-> Row(s, At(t, j), g[j + 1])]

LEMMA LastRow ==
  ASSUME NEW s, NoNul(s), NEW a, NEW b
  PROVE  Row(s, NUL, a) = Row(s, NUL, b)
<1>1. ASSUME NEW n \in 0 .. MaxNest, NEW i \in 1 .. Len(s) + 1
      PROVE  Answer(s, NUL, a, n, i) = Answer(s, NUL, b, n, i)
  BY Chars DEF Answer, NUL
<1> QED
  BY <1>1 DEF Row

LEMMA RowsExist ==
  ASSUME NEW s, NoNul(s), NEW t, NoNul(t)
  PROVE  \E g : AreRows(g, s, t)
<1> DEFINE N == Ends(t)
           Good(g, j) == g[j] = Row(s, At(t, j), g[j + 1])
           Upto(g, m) == \A j \in 1 .. N : j + m >= N => Good(g, j)
           S == {m \in Nat : \E g : DOMAIN g = 1 .. N /\ g = [j \in 1 .. N |-> g[j]] /\ Upto(g, m)}
<1>1. N \in Nat \ {0} /\ At(t, N) = NUL
  BY Chars
<1> HIDE DEF N
<1>2. 0 \in S
  <2> DEFINE g == [j \in 1 .. N |-> Row(s, NUL, <<>>)]
  <2>1. g[N] = Row(s, NUL, <<>>)
    BY <1>1
  <2>2. Good(g, N)
    <3> HIDE DEF g
    <3> QED
      BY <1>1, <2>1, LastRow
  <2>3. \A j \in 1 .. N : j + 0 >= N => j = N
    BY <1>1
  <2> QED
    BY <2>2, <2>3
<1>3. ASSUME NEW m \in Nat, m \in S PROVE m + 1 \in S
  <2>1. PICK g : DOMAIN g = 1 .. N /\ g = [j \in 1 .. N |-> g[j]] /\ Upto(g, m)
    BY <1>3
  <2> DEFINE x == N - (m + 1)
             h == [j \in 1 .. N |-> IF j = x THEN Row(s, At(t, x), g[x + 1]) ELSE g[j]]
  <2>2. CASE x \in 1 .. N
    <3>1. h[x] = Row(s, At(t, x), g[x + 1]) /\ \A j \in 1 .. N : j # x => h[j] = g[j]
      BY <2>2
    <3>2. x + 1 \in 1 .. N /\ x + 1 # x
      BY <1>1, <2>2
    <3>3. Good(h, x)
      <4> HIDE DEF h
      <4> QED
        BY <3>1, <3>2
    <3>4. ASSUME NEW j \in 1 .. N, j + m >= N PROVE Good(h, j)
      <4>1. j # x /\ j + 1 # x
        BY <1>1, <3>4
      <4>2. h[j] = g[j] /\ Good(g, j)
        BY <2>1, <3>1, <3>4, <4>1
      <4>3. CASE j = N
        <5> HIDE DEF h
        <5> QED
          BY <1>1, <4>2, <4>3, LastRow
      <4>4. CASE j # N
        <5>1. j + 1 \in 1 .. N
          BY <1>1, <4>4
        <5>2. h[j + 1] = g[j + 1]
          BY <3>1, <4>1, <5>1
        <5> HIDE DEF h
        <5> QED
          BY <4>2, <5>2
      <4> QED
        BY <4>3, <4>4
    <3>5. \A j \in 1 .. N : j + (m + 1) >= N => j = x \/ j + m >= N
      BY <1>1
    <3>6. Upto(h, m + 1)
      BY <3>3, <3>4, <3>5
    <3>7. DOMAIN h = 1 .. N /\ h = [j \in 1 .. N |-> h[j]] /\ m + 1 \in Nat
      OBVIOUS
    <3> HIDE DEF h, Upto
    <3> QED
      BY <3>6, <3>7
  <2>3. CASE x \notin 1 .. N
    <3>1. \A j \in 1 .. N : j + (m + 1) >= N => j + m >= N
      BY <1>1, <2>3
    <3>2. \A j \in 1 .. N : j + m >= N => Good(g, j)
      BY <2>1
    <3>3. Upto(g, m + 1)
      <4> HIDE DEF Good
      <4> QED
        BY <3>1, <3>2
    <3>4. m + 1 \in Nat
      OBVIOUS
    <3> HIDE DEF Upto
    <3> QED
      BY <2>1, <3>3, <3>4
  <2> QED
    BY <2>2, <2>3
<1>4. Nat \subseteq S
  <2> HIDE DEF S
  <2> QED
    BY <1>2, <1>3, NatUp
<1>5. PICK g : DOMAIN g = 1 .. N /\ g = [j \in 1 .. N |-> g[j]] /\ Upto(g, N)
  BY <1>1, <1>4
<1>6. \A j \in 1 .. N : j + N >= N
  BY <1>1
<1>7. \A j \in 1 .. N : Good(g, j)
  BY <1>5, <1>6
<1>8. g = [j \in 1 .. N |-> Row(s, At(t, j), g[j + 1])]
  BY <1>5, <1>7
<1> QED
  BY <1>8 DEF AreRows, N, Ends

LEMMA AnswersUnfold ==
  ASSUME NEW s, NoNul(s), NEW t, NoNul(t),
         NEW j \in 1 .. Ends(t), NEW n \in 0 .. MaxNest, NEW i \in 1 .. Ends(s)
  PROVE  __match_pathname(s, t)[j][n][i] =
           Answer(s, At(t, j), __match_pathname(s, t)[j + 1], n, i)
<1> DEFINE M == __match_pathname(s, t)
<1>1. M = CHOOSE g : AreRows(g, s, t)
  BY DEF __match_pathname, AreRows, Row
<1>2. AreRows(M, s, t)
  <2> HIDE DEF M
  <2> QED
    BY <1>1, RowsExist
<1> HIDE DEF M
<1>3. M[j] = Row(s, At(t, j), M[j + 1])
  BY <1>2 DEF AreRows, Ends
<1>4. Row(s, At(t, j), M[j + 1])[n][i] = Answer(s, At(t, j), M[j + 1], n, i)
  BY DEF Row, Ends
<1> QED
  BY <1>3, <1>4 DEF M

-----------------------------------------------------------------------------
(***************************************************************************)
(* A trail: the positions at which the characters of the pattern from j to *)
(* k - 1 take a walk through the pathname.                                 *)
(***************************************************************************)
Positions(s) == 1 .. Ends(s)

IsTrail(s, t, j, i, k, x, f) ==
  /\ f \in [j .. k -> Positions(s)]
  /\ f[j] = i /\ f[k] = x
  /\ \A m \in j .. k - 1 : f[m + 1] \in Moves(s, t[m], f[m])

Trail(s, t, j, i, k, x) == \E f : IsTrail(s, t, j, i, k, x, f)

LEMMA MovesStay ==
  ASSUME NEW s, NoNul(s), NEW c, c # NUL, NEW i \in Positions(s), NEW x \in Moves(s, c, i)
  PROVE  x \in Positions(s) /\ i <= x
<1>1. i \in Nat /\ Ends(s) \in Nat /\ 1 <= i /\ i <= Ends(s)
  BY Chars DEF Positions
<1>2. CASE c = "*"
  <2>1. x \in i .. ComponentEnd(s, i) /\ ComponentEnd(s, i) \in i .. Ends(s)
    BY <1>2, ComponentEnds DEF Moves, Positions
  <2> QED
    BY <1>1, <2>1 DEF Positions
<1>3. ASSUME At(s, i) # NUL PROVE i + 1 \in Positions(s)
  <2>1. i # Ends(s)
    BY <1>3, Chars
  <2> QED
    BY <1>1, <2>1 DEF Positions
<1>4. CASE c = "?"
  <2>1. x = i \/ (x = i + 1 /\ is_filename(At(s, i)))
    BY <1>4 DEF Moves
  <2>2. is_filename(At(s, i)) => At(s, i) # NUL
    BY DEF is_filename
  <2> QED
    BY <1>1, <1>3, <2>1, <2>2
<1>5. CASE c # "*" /\ c # "?"
  <2>1. x = i + 1 /\ At(s, i) = c
    BY <1>5 DEF Moves
  <2> QED
    BY <1>1, <1>3, <2>1
<1> QED
  BY <1>2, <1>4, <1>5

LEMMA TrailStart ==
  ASSUME NEW s, NEW t, NEW j \in Nat, NEW i \in Positions(s), NEW x
  PROVE  Trail(s, t, j, i, j, x) <=> x = i
<1>1. ASSUME Trail(s, t, j, i, j, x) PROVE x = i
  BY <1>1 DEF Trail, IsTrail
<1>2. ASSUME x = i PROVE Trail(s, t, j, i, j, x)
  <2> DEFINE f == [m \in j .. j |-> i]
  <2>1. IsTrail(s, t, j, i, j, x, f)
    BY <1>2 DEF IsTrail
  <2> QED
    BY <2>1 DEF Trail
<1> QED
  BY <1>1, <1>2

\* The first step of a trail.
LEMMA TrailFront ==
  ASSUME NEW s, NEW t, NEW j \in Nat, NEW k \in Nat, j < k, NEW i \in Positions(s), NEW x
  PROVE  Trail(s, t, j, i, k, x) <=> \E y \in Moves(s, t[j], i) \cap Positions(s) : Trail(s, t, j + 1, y, k, x)
<1>1. ASSUME Trail(s, t, j, i, k, x)
      PROVE  \E y \in Moves(s, t[j], i) \cap Positions(s) : Trail(s, t, j + 1, y, k, x)
  <2>1. PICK f : IsTrail(s, t, j, i, k, x, f)
    BY <1>1 DEF Trail
  <2> DEFINE h == [m \in j + 1 .. k |-> f[m]]
  <2>2. /\ j + 1 \in j .. k /\ k \in j + 1 .. k /\ j + 1 \in j + 1 .. k /\ j \in j .. k - 1
        /\ \A m \in j + 1 .. k : m \in j .. k
        /\ \A m \in j + 1 .. k - 1 : m \in j .. k - 1 /\ m \in j + 1 .. k /\ m + 1 \in j + 1 .. k
    OBVIOUS
  <2>3. IsTrail(s, t, j + 1, f[j + 1], k, x, h)
    BY <2>1, <2>2 DEF IsTrail
  <2>4. f[j + 1] \in Moves(s, t[j], i) /\ f[j + 1] \in Positions(s)
    BY <2>1, <2>2 DEF IsTrail
  <2> QED
    BY <2>3, <2>4 DEF Trail
<1>2. ASSUME NEW y \in Moves(s, t[j], i) \cap Positions(s), Trail(s, t, j + 1, y, k, x)
      PROVE  Trail(s, t, j, i, k, x)
  <2>1. PICK f : IsTrail(s, t, j + 1, y, k, x, f)
    BY <1>2 DEF Trail
  <2> DEFINE h == [m \in j .. k |-> IF m = j THEN i ELSE f[m]]
  <2>2. /\ j \in j .. k /\ k \in j .. k /\ k # j /\ j + 1 \in j .. k /\ j + 1 # j
        /\ \A m \in j .. k : m = j \/ m \in j + 1 .. k
        /\ \A m \in j .. k - 1 : m = j \/ (m \in j + 1 .. k - 1 /\ m # j /\ m \in j .. k /\ m + 1 \in j .. k /\ m + 1 # j)
    OBVIOUS
  <2>3. h \in [j .. k -> Positions(s)]
    BY <2>1, <2>2 DEF IsTrail
  <2>4. h[j] = i /\ h[k] = x /\ h[j + 1] = y
    BY <2>1, <2>2 DEF IsTrail
  <2>5. ASSUME NEW m \in j .. k - 1 PROVE h[m + 1] \in Moves(s, t[m], h[m])
    <3>1. CASE m = j
      BY <2>4, <3>1
    <3>2. CASE m # j
      <4>1. m \in j + 1 .. k - 1 /\ h[m] = f[m] /\ h[m + 1] = f[m + 1]
        BY <2>2, <3>2
      <4> QED
        BY <2>1, <4>1 DEF IsTrail
    <3> QED
      BY <3>1, <3>2
  <2>6. IsTrail(s, t, j, i, k, x, h)
    BY <2>3, <2>4, <2>5 DEF IsTrail
  <2> QED
    BY <2>6 DEF Trail
<1> QED
  BY <1>1, <1>2

\* The last step of a trail.
LEMMA TrailBack ==
  ASSUME NEW s, NEW t, NEW j \in Nat, NEW k \in Nat, j <= k, NEW i \in Positions(s), NEW x \in Positions(s)
  PROVE  Trail(s, t, j, i, k + 1, x) <=> \E y \in Positions(s) : Trail(s, t, j, i, k, y) /\ x \in Moves(s, t[k], y)
<1>1. ASSUME Trail(s, t, j, i, k + 1, x)
      PROVE  \E y \in Positions(s) : Trail(s, t, j, i, k, y) /\ x \in Moves(s, t[k], y)
  <2>1. PICK f : IsTrail(s, t, j, i, k + 1, x, f)
    BY <1>1 DEF Trail
  <2> DEFINE h == [m \in j .. k |-> f[m]]
  <2>2. /\ k \in j .. k /\ j \in j .. k /\ k \in j .. (k + 1) - 1 /\ k \in j .. k + 1
        /\ \A m \in j .. k : m \in j .. k + 1
        /\ \A m \in j .. k - 1 : m \in j .. (k + 1) - 1 /\ m \in j .. k /\ m + 1 \in j .. k
    OBVIOUS
  <2>3. IsTrail(s, t, j, i, k, f[k], h)
    BY <2>1, <2>2 DEF IsTrail
  <2>4. f[k] \in Positions(s) /\ x \in Moves(s, t[k], f[k])
    BY <2>1, <2>2 DEF IsTrail
  <2> QED
    BY <2>3, <2>4 DEF Trail
<1>2. ASSUME NEW y \in Positions(s), Trail(s, t, j, i, k, y), x \in Moves(s, t[k], y)
      PROVE  Trail(s, t, j, i, k + 1, x)
  <2>1. PICK f : IsTrail(s, t, j, i, k, y, f)
    BY <1>2 DEF Trail
  <2> DEFINE h == [m \in j .. k + 1 |-> IF m = k + 1 THEN x ELSE f[m]]
  <2>2. /\ j \in j .. k + 1 /\ k + 1 \in j .. k + 1 /\ k \in j .. k + 1 /\ j # k + 1 /\ k # k + 1
        /\ \A m \in j .. k + 1 : m = k + 1 \/ m \in j .. k
        /\ \A m \in j .. (k + 1) - 1 : m = k \/ (m \in j .. k - 1 /\ m # k + 1 /\ m \in j .. k + 1 /\ m + 1 \in j .. k + 1 /\ m + 1 # k + 1)
    OBVIOUS
  <2>3. h \in [j .. k + 1 -> Positions(s)]
    BY <2>1, <2>2 DEF IsTrail
  <2>4. h[j] = i /\ h[k + 1] = x /\ h[k] = y
    BY <2>1, <2>2 DEF IsTrail
  <2>5. ASSUME NEW m \in j .. (k + 1) - 1 PROVE h[m + 1] \in Moves(s, t[m], h[m])
    <3>1. CASE m = k
      BY <1>2, <2>4, <3>1
    <3>2. CASE m # k
      <4>1. m \in j .. k - 1 /\ h[m] = f[m] /\ h[m + 1] = f[m + 1]
        BY <2>2, <3>2
      <4> QED
        BY <2>1, <4>1 DEF IsTrail
    <3> QED
      BY <3>1, <3>2
  <2>6. IsTrail(s, t, j, i, k + 1, x, h)
    BY <2>3, <2>4, <2>5 DEF IsTrail
  <2> QED
    BY <2>6 DEF Trail
<1> QED
  BY <1>1, <1>2

-----------------------------------------------------------------------------
(***************************************************************************)
(* The reference's sets of positions are the ends of trails.               *)
(***************************************************************************)
Onward(s, c, X) == UNION {Moves(s, c, i) : i \in X}

AreReached(g, s, alt, a, n) ==
  g = [j \in 0 .. n |-> IF j = 0 THEN {a} ELSE Onward(s, alt[j], g[j - 1])]

LEMMA ReachedExist ==
  ASSUME NEW s, NEW alt, NEW a
  PROVE  \A n \in Nat : \E g : AreReached(g, s, alt, a, n)
<1> DEFINE S == {n \in Nat : \E g : AreReached(g, s, alt, a, n)}
<1>1. 0 \in S
  <2>1. AreReached([k \in 0 .. 0 |-> {a}], s, alt, a, 0)
    BY DEF AreReached
  <2> QED
    BY <2>1
<1>2. ASSUME NEW n \in Nat, n \in S PROVE n + 1 \in S
  <2>1. PICK g : AreReached(g, s, alt, a, n)
    BY <1>2
  <2> DEFINE h == [k \in 0 .. n + 1 |-> IF k = n + 1 THEN Onward(s, alt[n + 1], g[n]) ELSE g[k]]
  <2>2. \A k \in 0 .. n : g[k] = IF k = 0 THEN {a} ELSE Onward(s, alt[k], g[k - 1])
    BY <2>1, Zenon DEF AreReached
  <2>3. ASSUME NEW k \in 0 .. n + 1
        PROVE  h[k] = IF k = 0 THEN {a} ELSE Onward(s, alt[k], h[k - 1])
    <3>1. k # 0 => k - 1 \in 0 .. n + 1 /\ k - 1 # n + 1
      BY <2>3
    <3>2. k # 0 => h[k - 1] = g[k - 1]
      BY <3>1
    <3>3. CASE k = n + 1
      <4>1. h[k] = Onward(s, alt[k], g[n]) /\ k # 0 /\ k - 1 = n
        BY <3>3
      <4> HIDE DEF h
      <4> QED
        BY <3>2, <4>1
    <3>4. CASE k # n + 1
      <4>1. h[k] = g[k] /\ k \in 0 .. n
        BY <3>4
      <4> HIDE DEF h
      <4> QED
        BY <2>2, <3>2, <4>1
    <3> QED
      BY <3>3, <3>4
  <2>4. h = [k \in 0 .. n + 1 |-> h[k]]
    OBVIOUS
  <2>5. AreReached(h, s, alt, a, n + 1)
    <3> HIDE DEF h
    <3> QED
      BY <2>3, <2>4, Zenon DEF AreReached
  <2> QED
    BY <2>5
<1>3. Nat \subseteq S
  <2> HIDE DEF S
  <2> QED
    BY <1>1, <1>2, NatUp
<1> QED
  BY <1>3

LEMMA ReachedUnfold ==
  ASSUME NEW s, NEW alt, Len(alt) \in Nat, NEW a
  PROVE  /\ Reached(s, alt, a)[0] = {a}
         /\ \A k \in 1 .. Len(alt) : Reached(s, alt, a)[k] = Onward(s, alt[k], Reached(s, alt, a)[k - 1])
<1> DEFINE R == Reached(s, alt, a)
<1>1. R = CHOOSE g : AreReached(g, s, alt, a, Len(alt))
  BY DEF Reached, AreReached, Onward
<1>2. AreReached(R, s, alt, a, Len(alt))
  <2> HIDE DEF R
  <2> QED
    BY <1>1, ReachedExist
<1> HIDE DEF R
<1>3. R[0] = {a} /\ \A k \in 1 .. Len(alt) : R[k] = Onward(s, alt[k], R[k - 1])
  <2>1. \A k \in 0 .. Len(alt) : R[k] = IF k = 0 THEN {a} ELSE Onward(s, alt[k], R[k - 1])
    BY <1>2, Zenon DEF AreReached
  <2>2. 0 \in 0 .. Len(alt) /\ \A k \in 1 .. Len(alt) : k \in 0 .. Len(alt) /\ k # 0
    OBVIOUS
  <2> QED
    BY <2>1, <2>2
<1> QED
  BY <1>3 DEF R

LEMMA ReachedIsTrail ==
  ASSUME NEW s, NoNul(s), NEW alt, NoNul(alt), NEW a \in Positions(s)
  PROVE  \A k \in 0 .. Len(alt) : \A x :
           x \in Reached(s, alt, a)[k] <=> x \in Positions(s) /\ Trail(s, alt, 1, a, k + 1, x)
<1> DEFINE R == Reached(s, alt, a)
           S == {k \in Nat : k <= Len(alt) => \A x : x \in R[k] <=> x \in Positions(s) /\ Trail(s, alt, 1, a, k + 1, x)}
<1>1. Len(alt) \in Nat /\ \A k \in 1 .. Len(alt) : alt[k] # NUL
  BY Chars DEF NoNul
<1>2. R[0] = {a} /\ \A k \in 1 .. Len(alt) : R[k] = Onward(s, alt[k], R[k - 1])
  BY <1>1, ReachedUnfold
<1> HIDE DEF R
<1>3. 0 \in S
  <2>1. \A x : Trail(s, alt, 1, a, 1, x) <=> x = a
    BY TrailStart
  <2>2. 0 + 1 = 1
    OBVIOUS
  <2> QED
    BY <1>2, <2>1, <2>2
<1>4. ASSUME NEW k \in Nat, k \in S PROVE k + 1 \in S
  <2> SUFFICES ASSUME k + 1 <= Len(alt), NEW x
               PROVE  x \in R[k + 1] <=> x \in Positions(s) /\ Trail(s, alt, 1, a, (k + 1) + 1, x)
    OBVIOUS
  <2>1. k + 1 \in 1 .. Len(alt) /\ (k + 1) - 1 = k /\ k <= Len(alt) /\ k + 1 \in Nat /\ 1 \in Nat /\ 1 <= k + 1
    BY <1>1
  <2>2. \A y : y \in R[k] <=> y \in Positions(s) /\ Trail(s, alt, 1, a, k + 1, y)
    BY <1>4, <2>1
  <2>3. x \in R[k + 1] <=> \E y \in R[k] : x \in Moves(s, alt[k + 1], y)
    BY <1>2, <2>1 DEF Onward
  <2>4. \A y \in Positions(s) : x \in Moves(s, alt[k + 1], y) => x \in Positions(s)
    BY <1>1, <2>1, MovesStay
  <2>5. x \in Positions(s) => (Trail(s, alt, 1, a, (k + 1) + 1, x) <=>
          \E y \in Positions(s) : Trail(s, alt, 1, a, k + 1, y) /\ x \in Moves(s, alt[k + 1], y))
    BY <2>1, TrailBack
  <2> QED
    BY <2>2, <2>3, <2>4, <2>5
<1>5. Nat \subseteq S
  <2> HIDE DEF S
  <2> QED
    BY <1>3, <1>4, NatUp
<1> QED
  BY <1>1, <1>5 DEF R

\* An alternative is a part of the pattern, with the same trails.
LEMMA TrailShift ==
  ASSUME NEW s, NEW t, NEW alt, NEW p \in Nat \ {0}, NEW k \in Nat \ {0}, NEW i, NEW x,
         \A m \in 1 .. k - 1 : alt[m] = t[p + m - 1]
  PROVE  Trail(s, alt, 1, i, k, x) <=> Trail(s, t, p, i, p + k - 1, x)
<1>1. ASSUME Trail(s, alt, 1, i, k, x) PROVE Trail(s, t, p, i, p + k - 1, x)
  <2>1. PICK f : IsTrail(s, alt, 1, i, k, x, f)
    BY <1>1 DEF Trail
  <2> DEFINE h == [m \in p .. p + k - 1 |-> f[m - p + 1]]
  <2>2. /\ p \in p .. p + k - 1 /\ p + k - 1 \in p .. p + k - 1 /\ p - p + 1 = 1 /\ (p + k - 1) - p + 1 = k
        /\ \A m \in p .. p + k - 1 : m - p + 1 \in 1 .. k
        /\ \A m \in p .. (p + k - 1) - 1 : /\ m - p + 1 \in 1 .. k - 1 /\ (m + 1) - p + 1 = (m - p + 1) + 1
                                           /\ m \in p .. p + k - 1 /\ m + 1 \in p .. p + k - 1
                                           /\ p + (m - p + 1) - 1 = m
    OBVIOUS
  <2>3. h \in [p .. p + k - 1 -> Positions(s)] /\ h[p] = i /\ h[p + k - 1] = x
    BY <2>1, <2>2 DEF IsTrail
  <2>4. ASSUME NEW m \in p .. (p + k - 1) - 1 PROVE h[m + 1] \in Moves(s, t[m], h[m])
    <3> DEFINE q == m - p + 1
    <3>1. h[m] = f[q] /\ h[m + 1] = f[q + 1] /\ q \in 1 .. k - 1 /\ t[m] = alt[q]
      BY <2>2
    <3> HIDE DEF q
    <3> QED
      BY <2>1, <3>1 DEF IsTrail
  <2>5. IsTrail(s, t, p, i, p + k - 1, x, h)
    BY <2>3, <2>4 DEF IsTrail
  <2> QED
    BY <2>5 DEF Trail
<1>2. ASSUME Trail(s, t, p, i, p + k - 1, x) PROVE Trail(s, alt, 1, i, k, x)
  <2>1. PICK f : IsTrail(s, t, p, i, p + k - 1, x, f)
    BY <1>2 DEF Trail
  <2> DEFINE h == [m \in 1 .. k |-> f[p + m - 1]]
  <2>2. /\ 1 \in 1 .. k /\ k \in 1 .. k /\ p + 1 - 1 = p
        /\ \A m \in 1 .. k : p + m - 1 \in p .. p + k - 1
        /\ \A m \in 1 .. k - 1 : /\ p + m - 1 \in p .. (p + k - 1) - 1 /\ p + (m + 1) - 1 = (p + m - 1) + 1
                                 /\ m \in 1 .. k /\ m + 1 \in 1 .. k
    OBVIOUS
  <2>3. h \in [1 .. k -> Positions(s)] /\ h[1] = i /\ h[k] = x
    BY <2>1, <2>2 DEF IsTrail
  <2>4. ASSUME NEW m \in 1 .. k - 1 PROVE h[m + 1] \in Moves(s, alt[m], h[m])
    <3> DEFINE q == p + m - 1
    <3>1. h[m] = f[q] /\ h[m + 1] = f[q + 1] /\ q \in p .. (p + k - 1) - 1 /\ t[q] = alt[m]
      BY <2>2
    <3> HIDE DEF q
    <3> QED
      BY <2>1, <3>1 DEF IsTrail
  <2>5. IsTrail(s, alt, 1, i, k, x, h)
    BY <2>3, <2>4 DEF IsTrail
  <2> QED
    BY <2>5 DEF Trail
<1> QED
  BY <1>1, <1>2

-----------------------------------------------------------------------------
(***************************************************************************)
(* What the matcher is to answer at position i for the pattern from j on,  *)
(* up to the end e of the alternative.                                     *)
(***************************************************************************)
IsPiece(t, a, e) ==
  /\ a \in 1 .. Ends(t) /\ e \in a .. Ends(t)
  /\ At(t, e) \in {"|", NUL}
  /\ \A k \in a .. e - 1 : t[k] # "|"

Full(s, t, e, i, j) == Trail(s, t, j, i, e, Ends(s))
Part(s, t, e, i, j) == \E m \in j .. e - 1 : t[m] = "/" /\ Trail(s, t, j, i, m, Ends(s))

Right(v, s, t, e, i, j) ==
  /\ v \in Verdicts
  /\ v = SUCCESS => Full(s, t, e, i, j)
  /\ v = PARTIAL => Part(s, t, e, i, j)
  /\ v = FAILURE => ~ Full(s, t, e, i, j) /\ ~ Part(s, t, e, i, j)

LEMMA PartFront ==
  ASSUME NEW s, NoNul(s), NEW t, NEW j \in Nat, NEW e \in Nat, j < e, NEW i \in Positions(s)
  PROVE  Part(s, t, e, i, j) <=> \/ t[j] = "/" /\ i = Ends(s)
                                 \/ \E y \in Moves(s, t[j], i) \cap Positions(s) : Part(s, t, e, y, j + 1)
<1>1. Trail(s, t, j, i, j, Ends(s)) <=> Ends(s) = i
  BY TrailStart
<1>2. \A m \in j .. e - 1 : m = j \/ (m \in j + 1 .. e - 1 /\ j < m /\ m \in Nat)
  OBVIOUS
<1>3. j \in j .. e - 1 /\ \A m \in j + 1 .. e - 1 : m \in j .. e - 1 /\ m \in Nat /\ j < m
  OBVIOUS
<1>4. \A m \in Nat : j < m => (Trail(s, t, j, i, m, Ends(s)) <=>
        \E y \in Moves(s, t[j], i) \cap Positions(s) : Trail(s, t, j + 1, y, m, Ends(s)))
  BY TrailFront
<1>5. ASSUME Part(s, t, e, i, j)
      PROVE  \/ t[j] = "/" /\ i = Ends(s)
             \/ \E y \in Moves(s, t[j], i) \cap Positions(s) : Part(s, t, e, y, j + 1)
  <2>1. PICK m \in j .. e - 1 : t[m] = "/" /\ Trail(s, t, j, i, m, Ends(s))
    BY <1>5 DEF Part
  <2>2. CASE m = j
    BY <1>1, <2>1, <2>2
  <2>3. CASE m # j
    <3>1. m \in j + 1 .. e - 1 /\ j < m /\ m \in Nat
      BY <1>2, <2>3
    <3> QED
      BY <1>4, <2>1, <3>1 DEF Part
  <2> QED
    BY <2>2, <2>3
<1>6. ASSUME t[j] = "/" /\ i = Ends(s) PROVE Part(s, t, e, i, j)
  BY <1>1, <1>3, <1>6 DEF Part
<1>7. ASSUME NEW y \in Moves(s, t[j], i) \cap Positions(s), Part(s, t, e, y, j + 1)
      PROVE  Part(s, t, e, i, j)
  <2>1. PICK m \in j + 1 .. e - 1 : t[m] = "/" /\ Trail(s, t, j + 1, y, m, Ends(s))
    BY <1>7 DEF Part
  <2> QED
    BY <1>3, <1>4, <2>1 DEF Part
<1> QED
  BY <1>5, <1>6, <1>7

\* At the end of an alternative.
LEMMA RightAtEnd ==
  ASSUME NEW s, NoNul(s), NEW p \in {"|", NUL}, p = NUL \/ NoBar(s), NEW t, NEW e \in Nat, NEW later,
         NEW n \in 0 .. MaxNest, NEW i \in Positions(s)
  PROVE  Right(Answer(s, p, later, n, i), s, t, e, i, e)
<1> DEFINE v == Answer(s, p, later, n, i)
<1>1. Full(s, t, e, i, e) <=> i = Ends(s)
  BY TrailStart DEF Full
<1>2. ~ Part(s, t, e, i, e)
  BY DEF Part
<1>3. At(s, i) = NUL <=> i = Ends(s)
  BY Chars DEF Positions
<1>4. At(s, i) # NUL => At(s, i) # p
  BY DEF NoBar, At, NUL
<1>5. v = IF n >= MaxNest THEN OVERFLOW ELSE IF i = Ends(s) THEN SUCCESS ELSE FAILURE
  BY <1>3, <1>4 DEF Answer, AtPathEnd, NUL
<1> HIDE DEF v
<1>6. v \in Verdicts
  BY <1>5 DEF Verdicts, OVERFLOW, SUCCESS, FAILURE
<1>7. v # PARTIAL /\ (v = SUCCESS => i = Ends(s)) /\ (v = FAILURE => i # Ends(s))
  BY <1>5 DEF OVERFLOW, SUCCESS, FAILURE, PARTIAL
<1> QED
  BY <1>1, <1>2, <1>6, <1>7 DEF Right, v

\* Before it: if the answers behind a character are right, so are those at it.
LEMMA RightBefore ==
  ASSUME NEW s, NoNul(s), NEW t, NEW e \in Nat, NEW j \in Nat, j < e, t[j] \notin {"|", NUL},
         MaxNest \in Nat, NEW later,
         \A n \in 0 .. MaxNest : \A y \in Positions(s) : Right(later[n][y], s, t, e, y, j + 1),
         NEW n \in 0 .. MaxNest, NEW i \in Positions(s)
  PROVE  Right(Answer(s, t[j], later, n, i), s, t, e, i, j)
<1> DEFINE v == Answer(s, t[j], later, n, i)
           p == t[j]
           Onto == Moves(s, p, i) \cap Positions(s)
<1>1. Full(s, t, e, i, j) <=> \E y \in Onto : Full(s, t, e, y, j + 1)
  BY TrailFront DEF Full
<1>2. Part(s, t, e, i, j) <=> (p = "/" /\ i = Ends(s)) \/ \E y \in Onto : Part(s, t, e, y, j + 1)
  BY PartFront
<1>3. \A y \in Moves(s, p, i) : y \in Positions(s)
  BY MovesStay
<1>4. \A y \in Moves(s, p, i) : y \in Onto
  BY <1>3
<1>5. At(s, i) = NUL <=> i = Ends(s)
  BY Chars DEF Positions
<1>6. CASE n >= MaxNest
  <2>1. v = OVERFLOW
    BY <1>6 DEF Answer
  <2> QED
    BY <2>1 DEF Right, Verdicts, OVERFLOW, SUCCESS, FAILURE, PARTIAL
<1>7. n < MaxNest => n + 1 \in 0 .. MaxNest
  OBVIOUS
<1>8. ASSUME NEW y \in Moves(s, p, i), NEW w, Right(w, s, t, e, y, j + 1), w # FAILURE
      PROVE  Right(w, s, t, e, i, j)
  BY <1>1, <1>2, <1>4, <1>8 DEF Right
<1>9. ASSUME ~ (p = "/" /\ i = Ends(s)), \A y \in Moves(s, p, i) : \E w : w = FAILURE /\ Right(w, s, t, e, y, j + 1)
      PROVE  Right(FAILURE, s, t, e, i, j)
  <2>1. \A y \in Moves(s, p, i) : ~ Full(s, t, e, y, j + 1) /\ ~ Part(s, t, e, y, j + 1)
    BY <1>9 DEF Right
  <2>2. ~ Full(s, t, e, i, j) /\ ~ Part(s, t, e, i, j)
    BY <1>1, <1>2, <1>9, <2>1
  <2> QED
    BY <2>2 DEF Right, Verdicts, OVERFLOW, SUCCESS, FAILURE, PARTIAL
<1>10. CASE n < MaxNest /\ p = "*"
  <2> DEFINE hits == {k \in StarStops(s, i) : later[n + 1][k] # FAILURE}
  <2>1. Moves(s, p, i) = StarStops(s, i)
    BY <1>10 DEF Moves, StarStops
  <2>2. v = IF hits = {} THEN FAILURE ELSE later[n + 1][Min(hits)]
    BY <1>10 DEF Answer
  <2>3. \A k \in StarStops(s, i) : Right(later[n + 1][k], s, t, e, k, j + 1)
    BY <1>3, <1>7, <1>10, <2>1
  <2>4. CASE hits = {}
    <3>1. \A y \in Moves(s, p, i) : \E w : w = FAILURE /\ Right(w, s, t, e, y, j + 1)
      BY <2>1, <2>3, <2>4
    <3>2. p # "/"
      BY <1>10
    <3> QED
      BY <1>9, <2>2, <2>4, <3>1, <3>2
  <2>5. CASE hits # {}
    <3>1. hits \in SUBSET Nat
      BY <1>3, <2>1, Chars DEF Positions
    <3>2. Min(hits) \in hits
      BY <2>5, <3>1, MinIsLeast
    <3>3. Min(hits) \in Moves(s, p, i) /\ later[n + 1][Min(hits)] # FAILURE
      BY <2>1, <3>2
    <3> QED
      BY <1>8, <2>1, <2>2, <2>3, <2>5, <3>3
  <2> QED
    BY <2>4, <2>5
<1>11. CASE n < MaxNest /\ p = "?"
  <2>1. /\ i \in Moves(s, p, i)
        /\ is_filename(At(s, i)) => i + 1 \in Moves(s, p, i)
        /\ \A y \in Moves(s, p, i) : y = i \/ (y = i + 1 /\ is_filename(At(s, i)))
    BY <1>11 DEF Moves
  <2>2. v = IF is_filename(At(s, i)) /\ later[n + 1][i + 1] # FAILURE
            THEN later[n + 1][i + 1] ELSE later[n][i]
    BY <1>11 DEF Answer
  <2>3. Right(later[n][i], s, t, e, i, j + 1)
    OBVIOUS
  <2>4. is_filename(At(s, i)) => Right(later[n + 1][i + 1], s, t, e, i + 1, j + 1)
    BY <1>3, <1>7, <1>11, <2>1
  <2>5. CASE is_filename(At(s, i)) /\ later[n + 1][i + 1] # FAILURE
    BY <1>8, <2>1, <2>2, <2>4, <2>5
  <2>6. CASE ~ (is_filename(At(s, i)) /\ later[n + 1][i + 1] # FAILURE) /\ later[n][i] # FAILURE
    BY <1>8, <2>1, <2>2, <2>3, <2>6
  <2>7. CASE ~ (is_filename(At(s, i)) /\ later[n + 1][i + 1] # FAILURE) /\ later[n][i] = FAILURE
    <3>1. \A y \in Moves(s, p, i) : \E w : w = FAILURE /\ Right(w, s, t, e, y, j + 1)
      BY <2>1, <2>3, <2>4, <2>7
    <3>2. p # "/"
      BY <1>11
    <3> QED
      BY <1>9, <2>2, <2>7, <3>1, <3>2
  <2> QED
    BY <2>5, <2>6, <2>7
<1>12. CASE n < MaxNest /\ p = "["
  <2>1. v = FAILURE /\ Moves(s, p, i) = {} /\ p # "/"
    BY <1>12 DEF Answer, Moves
  <2> QED
    BY <1>9, <2>1
<1>13. CASE n < MaxNest /\ p \notin {"*", "?", "["}
  <2>1. \A y : y \in Moves(s, p, i) <=> y = i + 1 /\ At(s, i) = p
    BY <1>13 DEF Moves
  <2>2. v = IF At(s, i) = NUL THEN AtPathEnd(p) ELSE IF At(s, i) = p THEN later[n][i + 1] ELSE FAILURE
    BY <1>13 DEF Answer
  <2>3. CASE i = Ends(s) /\ p = "/"
    <3>1. v = PARTIAL
      BY <1>5, <2>2, <2>3 DEF AtPathEnd, NUL
    <3> QED
      BY <1>2, <2>3, <3>1 DEF Right, Verdicts, OVERFLOW, SUCCESS, FAILURE, PARTIAL
  <2>4. CASE i = Ends(s) /\ p # "/"
    <3>1. v = FAILURE
      BY <1>5, <2>2, <2>4 DEF AtPathEnd
    <3>2. \A y : y \notin Moves(s, p, i)
      BY <1>5, <2>1, <2>4
    <3> QED
      BY <1>9, <2>4, <3>1, <3>2
  <2>5. CASE i # Ends(s) /\ At(s, i) # p
    <3>1. v = FAILURE
      BY <1>5, <2>2, <2>5
    <3>2. \A y : y \notin Moves(s, p, i)
      BY <2>1, <2>5
    <3> QED
      BY <1>9, <2>5, <3>1, <3>2
  <2>6. CASE i # Ends(s) /\ At(s, i) = p
    <3>1. v = later[n][i + 1] /\ i + 1 \in Moves(s, p, i) /\ \A y \in Moves(s, p, i) : y = i + 1
      BY <1>5, <2>1, <2>2, <2>6
    <3>2. Right(v, s, t, e, i + 1, j + 1)
      BY <1>3, <3>1
    <3>3. CASE v = FAILURE
      BY <1>9, <2>6, <3>1, <3>2, <3>3
    <3>4. CASE v # FAILURE
      BY <1>8, <3>1, <3>2, <3>4
    <3> QED
      BY <3>3, <3>4
  <2> QED
    BY <2>3, <2>4, <2>5, <2>6
<1> QED
  BY <1>6, <1>10, <1>11, <1>12, <1>13

LEMMA AnswersRight ==
  ASSUME MaxNest \in Nat, NEW s, NoNul(s), NEW t, NoNul(t), NoBar(s) \/ NoBar(t), NEW a, NEW e, IsPiece(t, a, e)
  PROVE  \A j \in a .. e : \A n \in 0 .. MaxNest : \A i \in Positions(s) :
           Right(__match_pathname(s, t)[j][n][i], s, t, e, i, j)
<1> DEFINE M == __match_pathname(s, t)
           OK(j) == \A n \in 0 .. MaxNest : \A i \in Positions(s) : Right(M[j][n][i], s, t, e, i, j)
           S == {j \in a .. e : OK(j)}
<1>1. a \in Nat /\ e \in Nat /\ 1 <= a /\ a <= e /\ e <= Ends(t) /\ Ends(t) \in Nat /\ Ends(t) = Len(t) + 1
  BY Chars DEF IsPiece, Ends
<1>2. ASSUME NEW j \in a .. e, NEW n \in 0 .. MaxNest, NEW i \in Positions(s)
      PROVE  M[j][n][i] = Answer(s, At(t, j), M[j + 1], n, i)
  <2>1. j \in 1 .. Ends(t) /\ i \in 1 .. Ends(s)
    BY <1>1 DEF Positions
  <2> QED
    BY <2>1, AnswersUnfold
<1> HIDE DEF M
<1>3. OK(e)
  <2>1. e \in a .. e /\ At(t, e) \in {"|", NUL} /\ (At(t, e) = NUL \/ NoBar(s))
    BY <1>1 DEF IsPiece, NoBar, At, NUL
  <2> QED
    BY <1>1, <1>2, <2>1, RightAtEnd
<1>4. ASSUME NEW j \in a .. e - 1, OK(j + 1) PROVE OK(j)
  <2>1. j \in a .. e /\ j \in Nat /\ j < e /\ j \in 1 .. Len(t)
    BY <1>1
  <2>2. At(t, j) = t[j] /\ t[j] \notin {"|", NUL}
    BY <2>1, Chars DEF IsPiece, NoNul
  <2>3. ASSUME NEW n \in 0 .. MaxNest, NEW i \in Positions(s) PROVE Right(M[j][n][i], s, t, e, i, j)
    <3> DEFINE later == M[j + 1]
    <3>1. \A m \in 0 .. MaxNest : \A y \in Positions(s) : Right(later[m][y], s, t, e, y, j + 1)
      BY <1>4
    <3>2. M[j][n][i] = Answer(s, t[j], later, n, i)
      BY <1>2, <2>1, <2>2
    <3> HIDE DEF later
    <3>3. Right(Answer(s, t[j], later, n, i), s, t, e, i, j)
      BY <1>1, <2>1, <2>2, <3>1, RightBefore
    <3> QED
      BY <3>2, <3>3
  <2> QED
    BY <2>3
<1> HIDE DEF OK
<1>5. e \in S /\ \A j \in a .. e - 1 : j + 1 \in S => j \in S
  BY <1>1, <1>3, <1>4
<1>6. a .. e \subseteq S
  <2> HIDE DEF S
  <2> QED
    BY <1>1, <1>5, Downward
<1> QED
  BY <1>6 DEF OK, M

-----------------------------------------------------------------------------
(***************************************************************************)
(* Counting characters.                                                    *)
(***************************************************************************)
Spots(s, C, j, k)  == {m \in j .. k - 1 : s[m] \in C}
Number(s, C, j, k) == Cardinality(Spots(s, C, j, k))

LEMMA NumberNat ==
  ASSUME NEW s, NEW C, NEW j \in Nat, NEW k \in Nat
  PROVE  Number(s, C, j, k) \in Nat /\ IsFiniteSet(Spots(s, C, j, k))
<1>1. IsFiniteSet(j .. k - 1)
  BY FS_Interval
<1>2. Spots(s, C, j, k) \subseteq j .. k - 1
  BY DEF Spots
<1> QED
  BY <1>1, <1>2, FS_Subset, FS_CardinalityType DEF Number

LEMMA NumberEmpty ==
  ASSUME NEW s, NEW C, NEW j \in Nat
  PROVE  Number(s, C, j, j) = 0
<1>1. Spots(s, C, j, j) = {}
  BY DEF Spots
<1> QED
  BY <1>1, FS_EmptySet DEF Number

\* One more character at either end.
LEMMA NumberFront ==
  ASSUME NEW s, NEW C, NEW j \in Nat, NEW k \in Nat, j < k
  PROVE  Number(s, C, j, k) = Number(s, C, j + 1, k) + (IF s[j] \in C THEN 1 ELSE 0)
<1>1. j + 1 \in Nat /\ j \notin Spots(s, C, j + 1, k)
  BY DEF Spots
<1>2. IsFiniteSet(Spots(s, C, j + 1, k)) /\ j \notin Spots(s, C, j + 1, k) /\ Number(s, C, j + 1, k) \in Nat
  BY <1>1, NumberNat
<1>3. CASE s[j] \in C
  <2>1. Spots(s, C, j, k) = Spots(s, C, j + 1, k) \cup {j}
    BY <1>3 DEF Spots
  <2> QED
    BY <1>2, <1>3, <2>1, FS_AddElement DEF Number
<1>4. CASE s[j] \notin C
  <2>1. Spots(s, C, j, k) = Spots(s, C, j + 1, k)
    BY <1>4 DEF Spots
  <2> QED
    BY <1>2, <1>4, <2>1 DEF Number
<1> QED
  BY <1>3, <1>4

LEMMA NumberBack ==
  ASSUME NEW s, NEW C, NEW j \in Nat, NEW k \in Nat, j <= k
  PROVE  Number(s, C, j, k + 1) = Number(s, C, j, k) + (IF s[k] \in C THEN 1 ELSE 0)
<1>1. k \notin Spots(s, C, j, k)
  BY DEF Spots
<1>2. IsFiniteSet(Spots(s, C, j, k)) /\ k \notin Spots(s, C, j, k) /\ Number(s, C, j, k) \in Nat
  BY <1>1, NumberNat
<1>3. CASE s[k] \in C
  <2>1. Spots(s, C, j, k + 1) = Spots(s, C, j, k) \cup {k}
    BY <1>3 DEF Spots
  <2> QED
    BY <1>2, <1>3, <2>1, FS_AddElement DEF Number
<1>4. CASE s[k] \notin C
  <2>1. Spots(s, C, j, k + 1) = Spots(s, C, j, k)
    BY <1>4 DEF Spots
  <2> QED
    BY <1>2, <1>4, <2>1 DEF Number
<1> QED
  BY <1>3, <1>4

\* More characters have no fewer spots, and the same number without spots.
LEMMA NumberGrows ==
  ASSUME NEW s, NEW C, NEW j \in Nat, NEW k \in Nat, NEW l \in Nat, k <= l
  PROVE  /\ Number(s, C, j, k) <= Number(s, C, j, l)
         /\ (\A m \in k .. l - 1 : s[m] \notin C) => Number(s, C, j, l) = Number(s, C, j, k)
<1>1. Spots(s, C, j, k) \subseteq Spots(s, C, j, l)
  BY DEF Spots
<1>2. Spots(s, C, j, k) \subseteq Spots(s, C, j, l) /\ IsFiniteSet(Spots(s, C, j, l))
  BY <1>1, NumberNat
<1>3. Number(s, C, j, k) <= Number(s, C, j, l)
  BY <1>2, FS_Subset DEF Number
<1>4. ASSUME \A m \in k .. l - 1 : s[m] \notin C PROVE Number(s, C, j, l) = Number(s, C, j, k)
  <2>1. Spots(s, C, j, l) = Spots(s, C, j, k)
    BY <1>4 DEF Spots
  <2> QED
    BY <2>1 DEF Number
<1> QED
  BY <1>3, <1>4

-----------------------------------------------------------------------------
(***************************************************************************)
(* Giving up.  A nested call is made for a '*' or a '?' only, so an        *)
(* overflow at depth n needs as many of them ahead as are left to the      *)
(* limit.                                                                  *)
(***************************************************************************)
Wild == {"*", "?"}

LEMMA DeepBefore ==
  ASSUME NEW s, NoNul(s), NEW c, c # NUL, c # "|", MaxNest \in Nat, NEW later, NEW w \in Nat,
         \A n \in 0 .. MaxNest : \A y \in Positions(s) : later[n][y] = OVERFLOW => n + w >= MaxNest,
         NEW n \in 0 .. MaxNest, NEW i \in Positions(s), Answer(s, c, later, n, i) = OVERFLOW
  PROVE  n + w + (IF c \in Wild THEN 1 ELSE 0) >= MaxNest
<1> DEFINE v == Answer(s, c, later, n, i)
<1>1. \A y \in Moves(s, c, i) : y \in Positions(s)
  BY MovesStay
<1>2. CASE n >= MaxNest
  BY <1>2
<1>3. n < MaxNest => n + 1 \in 0 .. MaxNest
  OBVIOUS
<1>4. CASE n < MaxNest /\ c = "*"
  <2> DEFINE hits == {k \in StarStops(s, i) : later[n + 1][k] # FAILURE}
  <2>1. Moves(s, c, i) = StarStops(s, i)
    BY <1>4 DEF Moves, StarStops
  <2>2. v = IF hits = {} THEN FAILURE ELSE later[n + 1][Min(hits)]
    BY <1>4 DEF Answer
  <2>3. hits # {} /\ later[n + 1][Min(hits)] = OVERFLOW
    BY <2>2 DEF FAILURE, OVERFLOW
  <2>4. hits \in SUBSET Nat
    BY <1>1, <2>1, Chars DEF Positions
  <2>5. Min(hits) \in Positions(s)
    BY <1>1, <2>1, <2>3, <2>4, MinIsLeast
  <2>6. (n + 1) + w >= MaxNest
    BY <1>3, <1>4, <2>3, <2>5
  <2> QED
    BY <1>4, <2>6 DEF Wild
<1>5. CASE n < MaxNest /\ c = "?"
  <2>1. v = IF is_filename(At(s, i)) /\ later[n + 1][i + 1] # FAILURE
            THEN later[n + 1][i + 1] ELSE later[n][i]
    BY <1>5 DEF Answer
  <2>2. is_filename(At(s, i)) => i + 1 \in Positions(s)
    BY <1>1, <1>5 DEF Moves
  <2>3. (n + 1) + w >= MaxNest \/ n + w >= MaxNest
    BY <1>3, <1>5, <2>1, <2>2
  <2> QED
    BY <1>5, <2>3 DEF Wild
<1>6. CASE n < MaxNest /\ c \notin {"*", "?"}
  <2>1. v = IF c = "[" THEN FAILURE ELSE IF At(s, i) = NUL THEN AtPathEnd(c)
            ELSE IF At(s, i) = c THEN later[n][i + 1] ELSE FAILURE
    BY <1>6 DEF Answer
  <2>2. FAILURE # OVERFLOW /\ AtPathEnd(c) # OVERFLOW
    BY DEF AtPathEnd, FAILURE, OVERFLOW, SUCCESS, PARTIAL
  <2>3. c # "[" /\ At(s, i) = c /\ later[n][i + 1] = OVERFLOW
    BY <2>1, <2>2
  <2>4. i + 1 \in Positions(s)
    BY <1>1, <1>6, <2>3 DEF Moves
  <2>5. n + w >= MaxNest
    BY <2>3, <2>4
  <2> QED
    BY <1>6, <2>5 DEF Wild
<1> QED
  BY <1>2, <1>4, <1>5, <1>6

LEMMA AnswersDeep ==
  ASSUME MaxNest \in Nat, NEW s, NoNul(s), NEW t, NoNul(t), NoBar(s) \/ NoBar(t), NEW a, NEW e, IsPiece(t, a, e)
  PROVE  \A j \in a .. e : \A n \in 0 .. MaxNest : \A i \in Positions(s) :
           __match_pathname(s, t)[j][n][i] = OVERFLOW => n + Number(t, Wild, j, e) >= MaxNest
<1> DEFINE M == __match_pathname(s, t)
           OK(j) == \A n \in 0 .. MaxNest : \A i \in Positions(s) :
                      M[j][n][i] = OVERFLOW => n + Number(t, Wild, j, e) >= MaxNest
           S == {j \in a .. e : OK(j)}
<1>1. a \in Nat /\ e \in Nat /\ 1 <= a /\ a <= e /\ e <= Ends(t) /\ Ends(t) \in Nat /\ Ends(t) = Len(t) + 1
  BY Chars DEF IsPiece, Ends
<1>2. ASSUME NEW j \in a .. e, NEW n \in 0 .. MaxNest, NEW i \in Positions(s)
      PROVE  M[j][n][i] = Answer(s, At(t, j), M[j + 1], n, i)
  <2>1. j \in 1 .. Ends(t) /\ i \in 1 .. Ends(s)
    BY <1>1 DEF Positions
  <2> QED
    BY <2>1, AnswersUnfold
<1> HIDE DEF M
<1>3. OK(e)
  <2>1. e \in a .. e /\ At(t, e) \in {"|", NUL} /\ (At(t, e) = NUL \/ NoBar(s))
    BY <1>1 DEF IsPiece, NoBar, At, NUL
  <2>2. ASSUME NEW n \in 0 .. MaxNest, NEW i \in Positions(s), M[e][n][i] = OVERFLOW
        PROVE  n + Number(t, Wild, e, e) >= MaxNest
    <3>1. Answer(s, At(t, e), M[e + 1], n, i) = OVERFLOW
      BY <1>2, <2>1, <2>2
    <3>2. At(s, i) # NUL => At(s, i) # At(t, e)
      BY <2>1 DEF NoBar, At, NUL
    <3>3. n >= MaxNest
      BY <2>1, <3>1, <3>2 DEF Answer, AtPathEnd, NUL, FAILURE, SUCCESS, PARTIAL, OVERFLOW
    <3>4. Number(t, Wild, e, e) = 0
      BY <1>1, NumberEmpty
    <3> QED
      BY <3>3, <3>4
  <2> QED
    BY <2>2
<1>4. ASSUME NEW j \in a .. e - 1, OK(j + 1) PROVE OK(j)
  <2>1. j \in a .. e /\ j \in Nat /\ j + 1 \in Nat /\ j < e /\ j \in 1 .. Len(t)
    BY <1>1
  <2>2. At(t, j) = t[j] /\ t[j] # "|" /\ t[j] # NUL
    BY <2>1, Chars DEF IsPiece, NoNul
  <2> DEFINE w == Number(t, Wild, j + 1, e)
  <2>3. w \in Nat /\ Number(t, Wild, j, e) = w + (IF t[j] \in Wild THEN 1 ELSE 0)
    BY <1>1, <2>1, NumberNat, NumberFront
  <2>4. ASSUME NEW n \in 0 .. MaxNest, NEW i \in Positions(s), M[j][n][i] = OVERFLOW
        PROVE  n + Number(t, Wild, j, e) >= MaxNest
    <3> DEFINE later == M[j + 1]
    <3>1. \A m \in 0 .. MaxNest : \A y \in Positions(s) : later[m][y] = OVERFLOW => m + w >= MaxNest
      BY <1>4
    <3>2. Answer(s, t[j], later, n, i) = OVERFLOW
      BY <1>2, <2>1, <2>2, <2>4
    <3> HIDE DEF later, w
    <3>3. n + w + (IF t[j] \in Wild THEN 1 ELSE 0) >= MaxNest
      BY <2>2, <2>3, <3>1, <3>2, DeepBefore
    <3> QED
      BY <2>3, <3>3
  <2> QED
    BY <2>4
<1> HIDE DEF OK
<1>5. e \in S /\ \A j \in a .. e - 1 : j + 1 \in S => j \in S
  BY <1>1, <1>3, <1>4
<1>6. a .. e \subseteq S
  <2> HIDE DEF S
  <2> QED
    BY <1>1, <1>5, Downward
<1> QED
  BY <1>6 DEF OK, M

-----------------------------------------------------------------------------
(***************************************************************************)
(* Only a '/' of the pattern takes a '/' of the pathname, so a trail       *)
(* crosses as many of the one as of the other.                             *)
(***************************************************************************)
Slashes(s, x) == Number(s, {"/"}, 1, x)

LEMMA MoveCrosses ==
  ASSUME NEW s, NoNul(s), NEW c, c # NUL, NEW i \in Positions(s), NEW x \in Moves(s, c, i)
  PROVE  Slashes(s, x) = Slashes(s, i) + (IF c = "/" THEN 1 ELSE 0)
<1>1. i \in Nat /\ x \in Nat /\ 1 \in Nat /\ 1 <= i /\ i <= x /\ x <= Ends(s) /\ Ends(s) = Len(s) + 1 /\ Len(s) \in Nat
  BY MovesStay, Chars DEF Positions, Ends
<1>2. Slashes(s, i) \in Nat
  BY <1>1, NumberNat DEF Slashes
<1>3. \A m \in 1 .. Len(s) : At(s, m) = s[m]
  BY Chars
<1>4. CASE c = "*"
  <2>1. x \in i .. ComponentEnd(s, i)
    BY <1>4 DEF Moves
  <2>2. ComponentEnd(s, i) \in i .. Ends(s) /\ \A m \in i .. ComponentEnd(s, i) - 1 : is_filename(At(s, m))
    BY ComponentEnds DEF Positions
  <2>3. \A m \in i .. x - 1 : m \in i .. ComponentEnd(s, i) - 1 /\ m \in 1 .. Len(s)
    BY <1>1, <2>1, <2>2
  <2>4. \A m \in i .. x - 1 : s[m] \notin {"/"}
    BY <1>3, <2>2, <2>3 DEF is_filename
  <2>5. Slashes(s, x) = Slashes(s, i)
    BY <1>1, <2>4, NumberGrows DEF Slashes
  <2> QED
    BY <1>2, <1>4, <2>5
<1>5. ASSUME x = i + 1 PROVE At(s, i) = s[i] /\ Slashes(s, x) = Slashes(s, i) + (IF s[i] \in {"/"} THEN 1 ELSE 0)
  <2>1. i \in 1 .. Len(s)
    BY <1>1, <1>5
  <2> QED
    BY <1>1, <1>3, <1>5, <2>1, NumberBack DEF Slashes
<1>6. CASE c = "?"
  <2>1. x = i \/ (x = i + 1 /\ At(s, i) # "/")
    BY <1>6 DEF Moves, is_filename
  <2> QED
    BY <1>2, <1>5, <1>6, <2>1
<1>7. CASE c \notin {"*", "?"}
  <2>1. x = i + 1 /\ At(s, i) = c
    BY <1>7 DEF Moves
  <2> QED
    BY <1>5, <2>1
<1> QED
  BY <1>4, <1>6, <1>7

LEMMA TrailCrosses ==
  ASSUME NEW s, NoNul(s), NEW t, NEW j \in Nat, NEW k \in Nat, j <= k, NEW i, NEW x,
         \A m \in j .. k - 1 : t[m] # NUL, Trail(s, t, j, i, k, x)
  PROVE  Slashes(s, x) = Slashes(s, i) + Number(t, {"/"}, j, k)
<1>1. PICK f : IsTrail(s, t, j, i, k, x, f)
  BY DEF Trail
<1> DEFINE S == {d \in Nat : j + d <= k => Slashes(s, f[j + d]) = Slashes(s, i) + Number(t, {"/"}, j, j + d)}
<1>2. i \in Positions(s) /\ i \in Nat
  BY <1>1, Chars DEF IsTrail, Positions
<1>3. Slashes(s, i) \in Nat
  BY <1>2, NumberNat DEF Slashes
<1>4. 0 \in S
  <2>1. j + 0 = j /\ f[j] = i /\ Number(t, {"/"}, j, j) = 0
    BY <1>1, NumberEmpty DEF IsTrail
  <2> QED
    BY <1>3, <2>1
<1>5. ASSUME NEW d \in Nat, d \in S PROVE d + 1 \in S
  <2> DEFINE m == j + d
  <2> SUFFICES ASSUME m + 1 <= k PROVE Slashes(s, f[m + 1]) = Slashes(s, i) + Number(t, {"/"}, j, m + 1)
    <3>1. j + (d + 1) = m + 1
      OBVIOUS
    <3> QED
      BY <3>1
  <2>1. m \in Nat /\ j <= m /\ m \in j .. k - 1 /\ m \in j .. k /\ m <= k
    OBVIOUS
  <2>2. Slashes(s, f[m]) = Slashes(s, i) + Number(t, {"/"}, j, m)
    BY <1>5, <2>1
  <2> HIDE DEF m
  <2>3. f[m] \in Positions(s) /\ f[m + 1] \in Moves(s, t[m], f[m]) /\ t[m] # NUL
    BY <1>1, <2>1 DEF IsTrail
  <2>4. Slashes(s, f[m + 1]) = Slashes(s, f[m]) + (IF t[m] = "/" THEN 1 ELSE 0)
    BY <2>3, MoveCrosses
  <2>5. Number(t, {"/"}, j, m) \in Nat /\ Number(t, {"/"}, j, m + 1) = Number(t, {"/"}, j, m) + (IF t[m] \in {"/"} THEN 1 ELSE 0)
    BY <2>1, NumberNat, NumberBack
  <2> QED
    BY <1>3, <2>2, <2>4, <2>5
<1>6. Nat \subseteq S
  <2> HIDE DEF S
  <2> QED
    BY <1>4, <1>5, NatUp
<1>7. k - j \in Nat /\ j + (k - j) = k
  OBVIOUS
<1>8. k - j \in S /\ f[k] = x
  BY <1>1, <1>6, <1>7 DEF IsTrail
<1> QED
  BY <1>7, <1>8

\* A place where the whole alternative fits is before every place where the
\* pathname ends inside it.
LEMMA FullBeforePart ==
  ASSUME NEW s, NoNul(s), NEW t, NEW j \in Nat, NEW e \in Nat, j <= e,
         \A m \in j .. e - 1 : t[m] # NUL,
         NEW i \in Positions(s), Full(s, t, e, i, j), NEW y \in Positions(s), Part(s, t, e, y, j)
  PROVE  Slashes(s, i) < Slashes(s, y) /\ i < y
<1>1. PICK m \in j .. e - 1 : t[m] = "/" /\ Trail(s, t, j, y, m, Ends(s))
  BY DEF Part
<1>2. m \in Nat /\ j <= m /\ m + 1 <= e /\ m + 1 \in Nat /\ \A q \in j .. m - 1 : q \in j .. e - 1
  OBVIOUS
<1>3. i \in Nat /\ y \in Nat /\ 1 \in Nat
  BY Chars DEF Positions
<1>4. Slashes(s, Ends(s)) = Slashes(s, i) + Number(t, {"/"}, j, e)
  BY TrailCrosses DEF Full
<1>5. Slashes(s, Ends(s)) = Slashes(s, y) + Number(t, {"/"}, j, m)
  BY <1>1, <1>2, TrailCrosses
<1>6. Number(t, {"/"}, j, m + 1) = Number(t, {"/"}, j, m) + 1
  <2>1. Number(t, {"/"}, j, m + 1) = Number(t, {"/"}, j, m) + (IF t[m] \in {"/"} THEN 1 ELSE 0)
    BY <1>2, NumberBack
  <2> QED
    BY <1>1, <2>1
<1>7. Number(t, {"/"}, j, m + 1) <= Number(t, {"/"}, j, e)
  BY <1>2, NumberGrows
<1>8. /\ Number(t, {"/"}, j, m) \in Nat /\ Number(t, {"/"}, j, e) \in Nat
      /\ Slashes(s, i) \in Nat /\ Slashes(s, y) \in Nat
  BY <1>2, <1>3, NumberNat DEF Slashes
<1>9. Slashes(s, i) < Slashes(s, y)
  BY <1>4, <1>5, <1>6, <1>7, <1>8
<1>10. y <= i => Slashes(s, y) <= Slashes(s, i)
  BY <1>3, NumberGrows DEF Slashes
<1> QED
  BY <1>3, <1>8, <1>9, <1>10

-----------------------------------------------------------------------------
(***************************************************************************)
(* The alternatives.  The loop of match_pathname finds the first character *)
(* of each, as long as none is empty.                                      *)
(***************************************************************************)
Bars(t, p)  == {k \in p .. Len(t) : t[k] = "|"}
Heads(t, p) == {p} \cup strchrskip(t, p + 1, "|")

NextStarts(g, t, p) ==
  IF strchrskip(t, p + 1, "|") = {} THEN {p} ELSE {p} \cup g[Min(strchrskip(t, p + 1, "|"))]

AreStarts(g, t) == g = [p \in 1 .. Len(t) + 1 |-> NextStarts(g, t, p)]

LEMMA SkipBars ==
  ASSUME NEW t, Len(t) \in Nat, NEW p
  PROVE  \A x : x \in strchrskip(t, p, "|") <=> \E k \in Bars(t, p) : x = k + 1
  BY DEF strchrskip, Bars

\* The next alternative, and the heads from it on.
LEMMA HeadsStep ==
  ASSUME NEW t, IsPattern(t), NEW p \in 1 .. Ends(t), strchrskip(t, p + 1, "|") # {}
  PROVE  LET q == Min(strchrskip(t, p + 1, "|"))
         IN  q \in p + 1 .. Len(t) /\ Heads(t, p) = {p} \cup Heads(t, q)
<1> DEFINE after == strchrskip(t, p + 1, "|")
           q == Min(after)
<1>1. Len(t) \in Nat /\ p \in Nat /\ 1 <= p /\ DOMAIN t = 1 .. Len(t) /\ Ends(t) = Len(t) + 1
  BY DEF IsPattern, Ends
<1>2. \A x : x \in after <=> \E k \in Bars(t, p + 1) : x = k + 1
  BY <1>1, SkipBars
<1> HIDE DEF after
<1>3. after \in SUBSET Nat /\ after # {}
  <2>1. \A k \in Bars(t, p + 1) : k + 1 \in Nat
    BY <1>1 DEF Bars
  <2> QED
    BY <1>2, <2>1 DEF after
<1>4. q \in after /\ \A y \in after : q <= y
  BY <1>3, MinIsLeast
<1> HIDE DEF q
<1>5. PICK b \in Bars(t, p + 1) : q = b + 1
  BY <1>2, <1>4
<1>6. b \in p + 1 .. Len(t) /\ t[b] = "|" /\ b \in Nat
  BY <1>1, <1>5 DEF Bars
<1>7. At(t, b + 1) \notin {"|", NUL}
  BY <1>1, <1>6 DEF IsPattern
<1>8. b + 1 \in DOMAIN t /\ t[b + 1] # "|"
  BY <1>7 DEF At
<1>9. q \in p + 1 .. Len(t) /\ q \in Nat
  BY <1>1, <1>5, <1>6, <1>8
<1>10. ASSUME NEW k \in Bars(t, p + 1) PROVE k = b \/ k \in Bars(t, q + 1)
  <2>1. k \in Nat /\ k <= Len(t) /\ t[k] = "|" /\ k + 1 \in after
    BY <1>1, <1>2 DEF Bars
  <2>2. b <= k /\ k # b + 1
    BY <1>4, <1>5, <1>6, <1>8, <2>1
  <2> QED
    BY <1>1, <1>5, <1>6, <2>1, <2>2 DEF Bars
<1>11. ASSUME NEW k \in Bars(t, q + 1) PROVE k \in Bars(t, p + 1)
  BY <1>1, <1>9 DEF Bars
<1>12. \A x : x \in strchrskip(t, q + 1, "|") <=> \E k \in Bars(t, q + 1) : x = k + 1
  BY <1>1, SkipBars
<1>13. \A x : x \in after <=> x = q \/ x \in strchrskip(t, q + 1, "|")
  BY <1>2, <1>5, <1>10, <1>11, <1>12
<1>14. Heads(t, p) = {p} \cup Heads(t, q)
  BY <1>13 DEF Heads, after
<1> QED
  BY <1>9, <1>14 DEF q, after

LEMMA HeadsAreStarts ==
  ASSUME NEW t, IsPattern(t)
  PROVE  AlternativeStarts(t) = Heads(t, 1)
<1> DEFINE after(p) == strchrskip(t, p + 1, "|")
           H == [p \in 1 .. Len(t) + 1 |-> Heads(t, p)]
           G == CHOOSE g : AreStarts(g, t)
<1>1. Len(t) \in Nat /\ Ends(t) = Len(t) + 1 /\ 1 \in 1 .. Len(t) + 1
  BY DEF IsPattern, Ends
<1>2. AreStarts(H, t)
  <2>1. ASSUME NEW p \in 1 .. Len(t) + 1 PROVE Heads(t, p) = NextStarts(H, t, p)
    <3>1. CASE after(p) = {}
      BY <3>1 DEF Heads, NextStarts
    <3>2. CASE after(p) # {}
      <4>1. Min(after(p)) \in p + 1 .. Len(t) /\ Heads(t, p) = {p} \cup Heads(t, Min(after(p)))
        BY <1>1, <3>2, HeadsStep
      <4>2. Min(after(p)) \in 1 .. Len(t) + 1
        BY <1>1, <4>1
      <4>3. H[Min(after(p))] = Heads(t, Min(after(p)))
        <5> HIDE DEF after
        <5> QED
          BY <4>2
      <4>4. NextStarts(H, t, p) = {p} \cup H[Min(after(p))]
        <5> HIDE DEF H
        <5> QED
          BY <3>2 DEF NextStarts
      <4> QED
        BY <4>1, <4>3, <4>4
    <3> QED
      BY <3>1, <3>2
  <2>2. H = [p \in 1 .. Len(t) + 1 |-> NextStarts(H, t, p)]
    BY <2>1
  <2> HIDE DEF H
  <2> QED
    BY <2>2 DEF AreStarts
<1>3. AlternativeStarts(t) = G[1]
  BY DEF AlternativeStarts, AreStarts, NextStarts
<1>4. AreStarts(G, t)
  <2> HIDE DEF H
  <2> QED
    BY <1>2
<1> HIDE DEF G, H
<1>5. \A p \in 1 .. Len(t) + 1 : G[p] = NextStarts(G, t, p)
  BY <1>4 DEF AreStarts
<1> DEFINE S == {p \in 1 .. Ends(t) : \A q \in p .. Ends(t) : G[q] = Heads(t, q)}
<1>6. ASSUME NEW p \in 1 .. Ends(t), \A q \in p + 1 .. Ends(t) : G[q] = Heads(t, q) PROVE G[p] = Heads(t, p)
  <2>1. CASE after(p) = {}
    BY <1>1, <1>5, <2>1 DEF Heads, NextStarts
  <2>2. CASE after(p) # {}
    <3>1. Min(after(p)) \in p + 1 .. Len(t) /\ Heads(t, p) = {p} \cup Heads(t, Min(after(p)))
      BY <1>1, <2>2, HeadsStep
    <3>2. Min(after(p)) \in p + 1 .. Ends(t)
      BY <1>1, <3>1
    <3>3. G[p] = {p} \cup G[Min(after(p))]
      BY <1>1, <1>5, <2>2 DEF NextStarts
    <3> QED
      BY <1>6, <3>1, <3>2, <3>3
  <2> QED
    BY <2>1, <2>2
<1>7. Ends(t) \in S
  <2>1. Ends(t) \in 1 .. Ends(t) /\ (\A q \in Ends(t) .. Ends(t) : q = Ends(t)) /\ \A q \in Ends(t) + 1 .. Ends(t) : FALSE
    BY <1>1
  <2> QED
    BY <1>6, <2>1
<1>8. ASSUME NEW p \in 1 .. Ends(t) - 1, p + 1 \in S PROVE p \in S
  <2>1. p \in 1 .. Ends(t) /\ \A q \in p .. Ends(t) : q = p \/ q \in p + 1 .. Ends(t)
    BY <1>1
  <2>2. \A q \in p + 1 .. Ends(t) : G[q] = Heads(t, q)
    BY <1>8
  <2> QED
    BY <1>6, <2>1, <2>2
<1>9. 1 .. Ends(t) \subseteq S
  <2>1. 1 \in Nat /\ Ends(t) \in Nat /\ 1 <= Ends(t)
    BY <1>1
  <2> HIDE DEF S
  <2> QED
    BY <1>7, <1>8, <2>1, Downward
<1>10. 1 \in S /\ 1 \in 1 .. Ends(t)
  BY <1>1, <1>9
<1> QED
  BY <1>3, <1>10

\* A head is the place behind a bar, or the first one.
LEMMA HeadsOfBars ==
  ASSUME NEW t, IsPattern(t)
  PROVE  \A p : p \in AlternativeStarts(t) <=> \E b \in Bars(t, 1) \cup {0} : p = b + 1
<1>1. AlternativeStarts(t) = Heads(t, 1)
  BY HeadsAreStarts
<1>2. Len(t) \in Nat /\ t[1] # "|" /\ 1 + 1 = 2
  BY DEF IsPattern
<1>3. \A x : x \in strchrskip(t, 2, "|") <=> \E k \in Bars(t, 2) : x = k + 1
  BY <1>2, SkipBars
<1>4. Bars(t, 2) = Bars(t, 1)
  BY <1>2 DEF Bars
<1>5. \A p : p \in Heads(t, 1) <=> p = 1 \/ p \in strchrskip(t, 2, "|")
  BY <1>2 DEF Heads
<1> QED
  BY <1>1, <1>3, <1>4, <1>5

\* The place where the alternative with a head ends, and the piece between.
PieceEnd(t, b) == Min({c \in Bars(t, 1) \cup {0, Len(t) + 1} : c > b})
Piece(t, b)    == SubSeq(t, b + 1, PieceEnd(t, b) - 1)

LEMMA PieceEnds ==
  ASSUME NEW t, IsPattern(t), NEW b \in Bars(t, 1) \cup {0}
  PROVE  IsPiece(t, b + 1, PieceEnd(t, b)) /\ b + 1 < PieceEnd(t, b)
<1> DEFINE T == {c \in Bars(t, 1) \cup {0, Len(t) + 1} : c > b}
           e == PieceEnd(t, b)
<1>1. Len(t) \in Nat /\ Len(t) > 0 /\ DOMAIN t = 1 .. Len(t) /\ Ends(t) = Len(t) + 1
  BY DEF IsPattern, Ends
<1>2. b \in 0 .. Len(t)
  BY <1>1 DEF Bars
<1>3. Bars(t, 1) \subseteq Nat /\ T \in SUBSET Nat /\ Len(t) + 1 \in T
  BY <1>1, <1>2 DEF Bars
<1>4. e \in T /\ \A c \in T : e <= c
  BY <1>3, MinIsLeast DEF PieceEnd
<1> HIDE DEF e
<1>5. e \in b + 1 .. Ends(t) /\ (e \in Bars(t, 1) \/ e = Len(t) + 1)
  BY <1>1, <1>2, <1>3, <1>4
<1>6. At(t, e) \in {"|", NUL}
  BY <1>1, <1>5 DEF At, Bars
<1>7. ASSUME NEW k \in b + 1 .. e - 1 PROVE t[k] # "|"
  <2>1. k \in 1 .. Len(t) /\ k > b /\ ~ (e <= k)
    BY <1>1, <1>2, <1>5
  <2> QED
    BY <1>4, <2>1 DEF Bars
<1>8. At(t, b + 1) \notin {"|", NUL}
  <2>1. CASE b = 0
    BY <1>1, <2>1 DEF IsPattern, At
  <2>2. CASE b # 0
    BY <1>1, <1>2, <2>2 DEF IsPattern, Bars
  <2> QED
    BY <2>1, <2>2
<1>9. e # b + 1
  BY <1>6, <1>8
<1>10. b + 1 \in 1 .. Ends(t) /\ b + 1 < e
  BY <1>1, <1>2, <1>5, <1>9
<1> QED
  BY <1>5, <1>6, <1>7, <1>10 DEF IsPiece, e

LEMMA PiecesAreAlternatives ==
  ASSUME NEW t, IsPattern(t)
  PROVE  \A alt : alt \in Alternatives(t) <=> \E b \in Bars(t, 1) \cup {0} : alt = Piece(t, b)
<1>1. Len(t) \in Nat /\ DOMAIN t = 1 .. Len(t)
  BY DEF IsPattern
<1>2. {k \in DOMAIN t : t[k] = "|"} = Bars(t, 1)
  BY <1>1 DEF Bars
<1>3. Alternatives(t) = {Piece(t, b) : b \in (Bars(t, 1) \cup {0, Len(t) + 1}) \ {Len(t) + 1}}
  BY <1>2 DEF Alternatives, Piece, PieceEnd
<1>4. Len(t) + 1 \notin Bars(t, 1) \cup {0}
  BY <1>1 DEF Bars
<1>5. (Bars(t, 1) \cup {0, Len(t) + 1}) \ {Len(t) + 1} = Bars(t, 1) \cup {0}
  BY <1>4
<1> QED
  BY <1>3, <1>5

\* alt is the alternative from p up to e.
IsPieceOf(alt, t, p, e) == IsPiece(t, p, e) /\ p < e /\ alt = SubSeq(t, p, e - 1)

\* The characters of an alternative are those of the pattern.
LEMMA PieceChars ==
  ASSUME NEW t, NoNul(t), NEW p, NEW e, NEW alt, IsPieceOf(alt, t, p, e)
  PROVE  /\ p \in Nat \ {0} /\ e \in Nat /\ p < e /\ alt \in Seq(Char) /\ Len(alt) = e - p /\ DOMAIN alt = 1 .. e - p
         /\ \A m \in 1 .. e - p : alt[m] = t[p + m - 1] /\ alt[m] # "|"
         /\ NoNul(alt)
<1>1. /\ t \in Seq(Char) /\ Len(t) \in Nat /\ p \in Nat /\ 1 <= p /\ e \in Nat /\ e <= Len(t) + 1 /\ DOMAIN t = 1 .. Len(t)
  BY Chars DEF IsPieceOf, IsPiece, NoNul, Ends
<1>2. alt \in Seq(Char) /\ Len(alt) = e - p
  BY <1>1 DEF IsPieceOf
<1>3. DOMAIN alt = 1 .. e - p
  BY <1>2
<1>4. \A m \in 1 .. e - p : alt[m] = t[p + m - 1]
  BY <1>1 DEF IsPieceOf
<1>5. \A m \in 1 .. e - p : p + m - 1 \in 1 .. Len(t) /\ p + m - 1 \in p .. e - 1
  BY <1>1
<1>6. \A m \in 1 .. e - p : alt[m] # NUL /\ alt[m] # "|"
  BY <1>1, <1>4, <1>5 DEF NoNul, IsPieceOf, IsPiece
<1>7. NoNul(alt)
  BY <1>2, <1>3, <1>6 DEF NoNul
<1>8. p \in Nat \ {0} /\ p < e
  BY <1>1 DEF IsPieceOf
<1> QED
  BY <1>1, <1>2, <1>3, <1>4, <1>6, <1>7, <1>8, Zenon

\* The reference for an alternative, in terms of the pattern's trails.
LEMMA PieceMatches ==
  ASSUME NEW s, NoNul(s), NEW t, NoNul(t), NEW i \in Positions(s),
         NEW p, NEW e, NEW alt, IsPieceOf(alt, t, p, e)
  PROVE  /\ Matches(s, alt, i) <=> Full(s, t, e, i, p)
         /\ Leads(s, alt, i) <=> Part(s, t, e, i, p)
<1>1. /\ p \in Nat \ {0} /\ e \in Nat /\ Len(alt) = e - p /\ DOMAIN alt = 1 .. e - p /\ NoNul(alt)
      /\ \A m \in 1 .. e - p : alt[m] = t[p + m - 1]
  BY PieceChars
<1>2. Ends(s) \in Positions(s) /\ Ends(s) = Len(s) + 1
  BY Chars DEF Positions, Ends
<1>3. ASSUME NEW k \in 0 .. e - p
      PROVE  Ends(s) \in Reached(s, alt, i)[k] <=> Trail(s, t, p, i, p + k, Ends(s))
  <2>1. Ends(s) \in Reached(s, alt, i)[k] <=> Trail(s, alt, 1, i, k + 1, Ends(s))
    BY <1>1, <1>2, ReachedIsTrail
  <2>2. k + 1 \in Nat \ {0} /\ p + (k + 1) - 1 = p + k /\ \A m \in 1 .. (k + 1) - 1 : m \in 1 .. e - p
    BY <1>1
  <2>3. Trail(s, alt, 1, i, k + 1, Ends(s)) <=> Trail(s, t, p, i, p + (k + 1) - 1, Ends(s))
    BY <1>1, <2>2, TrailShift
  <2> QED
    BY <2>1, <2>2, <2>3
<1>4. Matches(s, alt, i) <=> Full(s, t, e, i, p)
  <2>1. e - p \in 0 .. e - p /\ p + (e - p) = e
    BY <1>1
  <2> QED
    BY <1>1, <1>2, <1>3, <2>1 DEF Matches, Full
<1>5. ASSUME Leads(s, alt, i) PROVE Part(s, t, e, i, p)
  <2>1. PICK j \in 1 .. e - p : alt[j] = "/" /\ Ends(s) \in Reached(s, alt, i)[j - 1]
    BY <1>1, <1>2, <1>5 DEF Leads
  <2>2. j - 1 \in 0 .. e - p /\ p + (j - 1) \in p .. e - 1 /\ p + j - 1 = p + (j - 1)
    BY <1>1
  <2> QED
    BY <1>1, <1>3, <2>1, <2>2 DEF Part
<1>6. ASSUME Part(s, t, e, i, p) PROVE Leads(s, alt, i)
  <2>1. PICK m \in p .. e - 1 : t[m] = "/" /\ Trail(s, t, p, i, m, Ends(s))
    BY <1>6 DEF Part
  <2> DEFINE j == m - p + 1
  <2>2. j \in 1 .. e - p /\ p + j - 1 = m /\ j - 1 \in 0 .. e - p /\ p + (j - 1) = m
    BY <1>1
  <2> HIDE DEF j
  <2>3. alt[j] = "/" /\ Ends(s) \in Reached(s, alt, i)[j - 1]
    BY <1>1, <1>3, <2>1, <2>2
  <2> QED
    BY <1>1, <1>2, <2>2, <2>3 DEF Leads
<1> QED
  BY <1>4, <1>5, <1>6

LEMMA PieceWild ==
  ASSUME NEW t, NoNul(t), NEW p, NEW e, NEW alt, IsPieceOf(alt, t, p, e)
  PROVE  Wildcards(alt) = Number(t, Wild, p, e)
<1>1. /\ p \in Nat \ {0} /\ e \in Nat /\ p < e /\ Len(alt) = e - p /\ DOMAIN alt = 1 .. e - p
      /\ \A m \in 1 .. e - p : alt[m] = t[p + m - 1]
  BY PieceChars
<1> DEFINE S == {k \in Nat : k <= e - p => Number(alt, Wild, 1, 1 + k) = Number(t, Wild, p, p + k)}
<1>2. 0 \in S
  <2>1. 1 + 0 = 1 /\ p + 0 = p /\ 1 \in Nat /\ p \in Nat
    BY <1>1
  <2>2. Number(alt, Wild, 1, 1) = 0 /\ Number(t, Wild, p, p) = 0
    BY <2>1, NumberEmpty
  <2> QED
    BY <2>1, <2>2
<1>3. ASSUME NEW k \in Nat, k \in S PROVE k + 1 \in S
  <2> SUFFICES ASSUME k + 1 <= e - p PROVE Number(alt, Wild, 1, 1 + (k + 1)) = Number(t, Wild, p, p + (k + 1))
    OBVIOUS
  <2>1. /\ 1 + k \in Nat /\ 1 <= 1 + k /\ 1 + (k + 1) = (1 + k) + 1 /\ 1 + k \in 1 .. e - p /\ 1 \in Nat
        /\ p + k \in Nat /\ p <= p + k /\ p + (k + 1) = (p + k) + 1 /\ p \in Nat
        /\ p + (1 + k) - 1 = p + k /\ k <= e - p
    BY <1>1
  <2>2. alt[1 + k] = t[p + k]
    BY <1>1, <2>1
  <2>3. Number(alt, Wild, 1, (1 + k) + 1) = Number(alt, Wild, 1, 1 + k) + (IF alt[1 + k] \in Wild THEN 1 ELSE 0)
    BY <2>1, NumberBack
  <2>4. Number(t, Wild, p, (p + k) + 1) = Number(t, Wild, p, p + k) + (IF t[p + k] \in Wild THEN 1 ELSE 0)
    BY <2>1, NumberBack
  <2>5. Number(alt, Wild, 1, 1 + k) = Number(t, Wild, p, p + k)
    BY <1>3, <2>1
  <2> QED
    BY <2>1, <2>2, <2>3, <2>4, <2>5
<1>4. Nat \subseteq S
  <2> HIDE DEF S
  <2> QED
    BY <1>2, <1>3, NatUp
<1>5. e - p \in S /\ p + (e - p) = e
  BY <1>1, <1>4
<1>6. Number(alt, Wild, 1, 1 + (e - p)) = Number(t, Wild, p, e)
  BY <1>1, <1>5
<1>7. (1 + (e - p)) - 1 = e - p
  BY <1>1
<1>8. Wildcards(alt) = Number(alt, Wild, 1, 1 + (e - p))
  BY <1>1, <1>7 DEF Wildcards, Number, Spots, Wild
<1> QED
  BY <1>6, <1>8

-----------------------------------------------------------------------------
(***************************************************************************)
(* The whole call.  From a boundary k of the pathname an alternative that  *)
(* starts at p is tried at k itself or behind the '/'.                     *)
(***************************************************************************)
From(t, p, k) == IF At(t, p) = "/" THEN k ELSE k + 1

\* A text that starts with a slash, as every pathname does.
IsPath(s) == NoNul(s) /\ At(s, 1) = "/"

LEMMA TextTyped ==
  ASSUME NEW s
  PROVE  /\ IsPathname(s) => IsPath(s)
         /\ IsPattern(s) => NoNul(s) /\ s \in Seq(STRING)
<1>1. ASSUME s \in Seq(STRING) PROVE s \in Seq(Char)
  BY <1>1 DEF Char
<1> QED
  BY <1>1 DEF IsPathname, IsPattern, IsPath, NoNul

LEMMA PathnameChars ==
  ASSUME NEW s, IsPath(s)
  PROVE  /\ NoNul(s) /\ s # <<>>
         /\ 1 \in 1 .. Len(s) /\ s[1] = "/"
         /\ PathStarts(s) = {k \in DOMAIN s : s[k] = "/"}
         /\ \A k \in PathStarts(s) : k \in 1 .. Len(s)
<1>1. NoNul(s) /\ DOMAIN s = 1 .. Len(s) /\ Len(s) \in Nat
  BY DEF IsPath, NoNul
<1>2. 1 \in 1 .. Len(s) /\ s[1] = "/"
  BY <1>1 DEF IsPath, At, NUL
<1>3. PathStarts(s) = {k \in DOMAIN s : s[k] = "/"}
  BY <1>1, <1>2 DEF PathStarts
<1> QED
  BY <1>1, <1>2, <1>3

LEMMA FromStays ==
  ASSUME NEW s, NoNul(s), s # <<>>, NEW t, NEW p, NEW k \in PathStarts(s)
  PROVE  k \in 1 .. Len(s) /\ From(t, p, k) \in Positions(s)
<1>1. k \in 1 .. Len(s) /\ Len(s) \in Nat
  BY DEF NoNul, PathStarts
<1> QED
  BY <1>1 DEF From, Positions, Ends

LEMMA RefPiece ==
  ASSUME NEW s, IsPath(s), NEW t, NoNul(t), NEW p, NEW e, NEW alt, IsPieceOf(alt, t, p, e)
  PROVE  RefVerdict(s, alt) =
           IF \E k \in PathStarts(s) : Full(s, t, e, From(t, p, k), p) THEN SUCCESS
           ELSE IF \E k \in PathStarts(s) : Part(s, t, e, From(t, p, k), p) THEN PARTIAL
           ELSE FAILURE
<1>1. /\ p \in Nat \ {0} /\ e \in Nat /\ p < e /\ DOMAIN alt = 1 .. e - p
      /\ \A m \in 1 .. e - p : alt[m] = t[p + m - 1]
  BY PieceChars
<1>2. alt[1] = t[p]
  <2>1. 1 \in 1 .. e - p /\ p + 1 - 1 = p
    BY <1>1
  <2> QED
    BY <1>1, <2>1
<1>3. At(t, p) = t[p]
  <2>1. p \in 1 .. Len(t)
    BY <1>1, Chars DEF IsPieceOf, IsPiece, Ends
  <2> QED
    BY <2>1, Chars
<1>4. NoNul(s) /\ PathStarts(s) = {k \in DOMAIN s : s[k] = "/"}
  BY PathnameChars
<1>5. \A x : x \in Boundaries(s, alt) <=> \E k \in PathStarts(s) : x = From(t, p, k)
  <2>1. CASE alt[1] = "/"
    BY <1>2, <1>3, <1>4, <2>1 DEF Boundaries, From
  <2>2. CASE alt[1] # "/"
    BY <1>2, <1>3, <1>4, <2>2 DEF Boundaries, From
  <2> QED
    BY <2>1, <2>2
<1>6. ASSUME NEW k \in PathStarts(s)
      PROVE  /\ Matches(s, alt, From(t, p, k)) <=> Full(s, t, e, From(t, p, k), p)
             /\ Leads(s, alt, From(t, p, k)) <=> Part(s, t, e, From(t, p, k), p)
  <2>1. From(t, p, k) \in Positions(s)
    BY PathnameChars, FromStays
  <2> QED
    BY <1>4, <2>1, PieceMatches
<1>7. (\E x \in Boundaries(s, alt) : Matches(s, alt, x)) <=> \E k \in PathStarts(s) : Full(s, t, e, From(t, p, k), p)
  BY <1>5, <1>6
<1>8. (\E x \in Boundaries(s, alt) : Leads(s, alt, x)) <=> \E k \in PathStarts(s) : Part(s, t, e, From(t, p, k), p)
  BY <1>5, <1>6
<1> QED
  BY <1>7, <1>8 DEF RefVerdict

\* Every alternative has a head that match_pathname tries, and the other way.
LEMMA StartsHavePieces ==
  ASSUME NEW t, IsPattern(t)
  PROVE  /\ NoNul(t) /\ 1 \in AlternativeStarts(t) /\ AlternativeStarts(t) \in SUBSET Nat
         /\ \A p \in AlternativeStarts(t) : \E e : \E alt \in Alternatives(t) : IsPieceOf(alt, t, p, e)
         /\ \A alt \in Alternatives(t) : \E p \in AlternativeStarts(t) : \E e : IsPieceOf(alt, t, p, e)
<1>1. NoNul(t)
  BY TextTyped
<1>2. \A p : p \in AlternativeStarts(t) <=> \E b \in Bars(t, 1) \cup {0} : p = b + 1
  BY HeadsOfBars
<1>3. \A b \in Bars(t, 1) \cup {0} : b \in Nat
  BY <1>1, Chars DEF Bars
<1>4. \A alt : alt \in Alternatives(t) <=> \E b \in Bars(t, 1) \cup {0} : alt = Piece(t, b)
  BY PiecesAreAlternatives
<1>5. \A b \in Bars(t, 1) \cup {0} : IsPieceOf(Piece(t, b), t, b + 1, PieceEnd(t, b))
  BY PieceEnds DEF IsPieceOf, Piece
<1>6. 0 \in Bars(t, 1) \cup {0} /\ 0 + 1 = 1
  OBVIOUS
<1>7. 1 \in AlternativeStarts(t)
  BY <1>2, <1>6
<1>8. AlternativeStarts(t) \in SUBSET Nat
  BY <1>2, <1>3
<1>9. ASSUME NEW p \in AlternativeStarts(t)
      PROVE  \E e : \E alt \in Alternatives(t) : IsPieceOf(alt, t, p, e)
  BY <1>2, <1>4, <1>5
<1>10. ASSUME NEW alt \in Alternatives(t)
       PROVE  \E p \in AlternativeStarts(t) : \E e : IsPieceOf(alt, t, p, e)
  BY <1>2, <1>4, <1>5
<1> QED
  BY <1>1, <1>7, <1>8, <1>9, <1>10

Tried(s, t, k, p) == __match_pathname(s, t)[p][0][From(t, p, k)]

LEMMA TriedRight ==
  ASSUME MaxNest \in Nat, NEW s, NoNul(s), s # <<>>, NEW t, NoNul(t), NoBar(s) \/ NoBar(t),
         NEW p, NEW e, NEW alt, IsPieceOf(alt, t, p, e), NEW k \in PathStarts(s)
  PROVE  /\ Right(Tried(s, t, k, p), s, t, e, From(t, p, k), p)
         /\ Tried(s, t, k, p) = OVERFLOW => Wildcards(alt) >= MaxNest
<1>1. From(t, p, k) \in Positions(s) /\ 0 \in 0 .. MaxNest
  BY FromStays
<1>2. IsPiece(t, p, e) /\ p \in Nat /\ e \in Nat /\ p \in p .. e
  <2>1. p \in Nat /\ e \in Nat /\ p < e
    BY PieceChars
  <2> QED
    BY <2>1 DEF IsPieceOf
<1>3. Right(Tried(s, t, k, p), s, t, e, From(t, p, k), p)
  BY <1>1, <1>2, AnswersRight DEF Tried
<1>4. Tried(s, t, k, p) = OVERFLOW => 0 + Number(t, Wild, p, e) >= MaxNest
  BY <1>1, <1>2, AnswersDeep DEF Tried
<1>5. Wildcards(alt) = Number(t, Wild, p, e) /\ Number(t, Wild, p, e) \in Nat
  BY <1>2, PieceWild, NumberNat
<1> QED
  BY <1>3, <1>4, <1>5

\* match_pathname answers for the first boundary and the first alternative
\* that do not fail.
LEMMA FirstTry ==
  ASSUME NEW s, NoNul(s), s # <<>>, NEW t, IsPattern(t)
  PROVE  \/ /\ match_pathname(s, t) = FAILURE
            /\ \A k \in PathStarts(s) : \A p \in AlternativeStarts(t) : Tried(s, t, k, p) = FAILURE
         \/ \E k \in PathStarts(s) : \E p \in AlternativeStarts(t) :
              /\ match_pathname(s, t) = Tried(s, t, k, p) /\ Tried(s, t, k, p) # FAILURE
              /\ \A l \in PathStarts(s) : l < k => Tried(s, t, l, p) = FAILURE
<1> DEFINE hits(k) == {p \in AlternativeStarts(t) : Tried(s, t, k, p) # FAILURE}
           starts == {k \in PathStarts(s) : hits(k) # {}}
           v == match_pathname(s, t)
<1>1. v = IF starts = {} THEN FAILURE ELSE Tried(s, t, Min(starts), Min(hits(Min(starts))))
  BY DEF match_pathname, Tried, From
<1> HIDE DEF v
<1>2. CASE starts = {}
  <2>1. \A k \in PathStarts(s) : \A p \in AlternativeStarts(t) : Tried(s, t, k, p) = FAILURE
    BY <1>2
  <2> QED
    BY <1>1, <1>2, <2>1 DEF v
<1>3. CASE starts # {}
  <2> DEFINE k == Min(starts)
             p == Min(hits(k))
  <2>1. starts \in SUBSET Nat
    BY FromStays
  <2>2. k \in starts /\ \A l \in starts : k <= l
    BY <1>3, <2>1, MinIsLeast
  <2>3. hits(k) \in SUBSET Nat /\ hits(k) # {}
    BY <2>2, StartsHavePieces
  <2>4. p \in hits(k)
    BY <2>3, MinIsLeast
  <2>5. v = Tried(s, t, k, p)
    BY <1>1, <1>3
  <2> HIDE DEF k, p
  <2>6. k \in PathStarts(s) /\ p \in AlternativeStarts(t) /\ Tried(s, t, k, p) # FAILURE
    BY <2>2, <2>4
  <2>7. ASSUME NEW l \in PathStarts(s), l < k PROVE Tried(s, t, l, p) = FAILURE
    <3>1. l \in Nat /\ k \in Nat
      BY <2>6, FromStays
    <3>2. l \notin starts
      BY <2>2, <2>7, <3>1
    <3> QED
      BY <2>6, <3>2
  <2> QED
    BY <2>5, <2>6, <2>7 DEF v
<1> QED
  BY <1>2, <1>3

\* What match_pathname answers, when it answers, is what the language of one
\* of the alternatives says, and a failure is one of all of them.  It answers
\* when every alternative has less wildcards than the limit.
LEMMA VerdictRight ==
  ASSUME MaxNest \in Nat, NEW s, IsPath(s), NEW t, IsPattern(t), NoBar(s) \/ NoBar(t)
  PROVE  /\ match_pathname(s, t) # OVERFLOW => \E alt \in Alternatives(t) : match_pathname(s, t) = RefVerdict(s, alt)
         /\ match_pathname(s, t) = FAILURE => \A alt \in Alternatives(t) : RefVerdict(s, alt) = FAILURE
         /\ (\A alt \in Alternatives(t) : Wildcards(alt) < MaxNest) => match_pathname(s, t) # OVERFLOW
<1> DEFINE v == match_pathname(s, t)
<1>1. NoNul(t) /\ NoNul(s) /\ s # <<>>
  BY StartsHavePieces, PathnameChars
<1>2. \A p \in AlternativeStarts(t) : \E e : \E alt \in Alternatives(t) : IsPieceOf(alt, t, p, e)
  BY StartsHavePieces
<1>3. CASE /\ v = FAILURE
           /\ \A k \in PathStarts(s) : \A p \in AlternativeStarts(t) : Tried(s, t, k, p) = FAILURE
  <2>1. ASSUME NEW alt \in Alternatives(t) PROVE RefVerdict(s, alt) = FAILURE
    <3>1. PICK p \in AlternativeStarts(t) : \E e : IsPieceOf(alt, t, p, e)
      BY StartsHavePieces
    <3>2. PICK e : IsPieceOf(alt, t, p, e)
      BY <3>1
    <3>3. ASSUME NEW k \in PathStarts(s)
          PROVE  ~ Full(s, t, e, From(t, p, k), p) /\ ~ Part(s, t, e, From(t, p, k), p)
      <4>1. Tried(s, t, k, p) = FAILURE
        BY <1>3
      <4>2. Right(Tried(s, t, k, p), s, t, e, From(t, p, k), p)
        BY <1>1, <3>2, TriedRight
      <4> QED
        BY <4>1, <4>2 DEF Right
    <3> QED
      BY <1>1, <3>2, <3>3, RefPiece
  <2>2. \E alt \in Alternatives(t) : TRUE
    BY <1>2, StartsHavePieces
  <2>3. FAILURE # OVERFLOW
    BY DEF FAILURE, OVERFLOW
  <2> QED
    BY <1>3, <2>1, <2>2, <2>3
<1>4. ASSUME NEW k \in PathStarts(s), NEW p \in AlternativeStarts(t),
             v = Tried(s, t, k, p), v # FAILURE,
             \A l \in PathStarts(s) : l < k => Tried(s, t, l, p) = FAILURE
      PROVE  \E alt \in Alternatives(t) : /\ v # OVERFLOW => v = RefVerdict(s, alt)
                                          /\ v = OVERFLOW => Wildcards(alt) >= MaxNest
  <2>1. PICK e : \E alt \in Alternatives(t) : IsPieceOf(alt, t, p, e)
    BY <1>2
  <2>2. PICK alt \in Alternatives(t) : IsPieceOf(alt, t, p, e)
    BY <2>1
  <2>3. \A l \in PathStarts(s) : Right(Tried(s, t, l, p), s, t, e, From(t, p, l), p)
    BY <1>1, <2>2, TriedRight
  <2>4. v = OVERFLOW => Wildcards(alt) >= MaxNest
    BY <1>1, <1>4, <2>2, TriedRight
  <2>5. CASE v = SUCCESS
    <3>1. Full(s, t, e, From(t, p, k), p)
      BY <1>4, <2>3, <2>5 DEF Right
    <3>2. RefVerdict(s, alt) = SUCCESS
      BY <1>1, <2>2, <3>1, RefPiece
    <3> QED
      BY <2>4, <2>5, <3>2
  <2>6. CASE v = PARTIAL
    <3>1. Part(s, t, e, From(t, p, k), p)
      BY <1>4, <2>3, <2>6 DEF Right
    <3>2. ASSUME NEW l \in PathStarts(s), Full(s, t, e, From(t, p, l), p) PROVE FALSE
      <4>1. l \in Nat /\ k \in Nat
        BY PathnameChars
      <4>2. ~ (l < k)
        BY <1>4, <2>3, <3>2 DEF Right
      <4>3. From(t, p, l) \in Positions(s) /\ From(t, p, k) \in Positions(s)
        BY <1>1, FromStays
      <4>4. p \in Nat /\ e \in Nat /\ p <= e
        BY <1>1, <2>2, PieceChars
      <4>5. \A m \in p .. e - 1 : t[m] # NUL
        BY <1>1, <2>2, Chars DEF IsPieceOf, IsPiece, NoNul, Ends
      <4>6. From(t, p, l) < From(t, p, k)
        BY <1>1, <3>1, <3>2, <4>3, <4>4, <4>5, FullBeforePart
      <4> QED
        BY <4>1, <4>2, <4>6 DEF From
    <3>3. RefVerdict(s, alt) = PARTIAL
      BY <1>1, <2>2, <3>1, <3>2, RefPiece
    <3> QED
      BY <2>4, <2>6, <3>3
  <2>7. CASE v = OVERFLOW
    BY <2>4, <2>7
  <2>8. v \in {SUCCESS, PARTIAL, OVERFLOW}
    BY <1>4, <2>3 DEF Right, Verdicts
  <2> QED
    BY <2>5, <2>6, <2>7, <2>8
<1>5. \A alt \in Alternatives(t) : Wildcards(alt) \in Nat
  <2> SUFFICES ASSUME NEW alt \in Alternatives(t) PROVE Wildcards(alt) \in Nat
    OBVIOUS
  <2>1. PICK p \in AlternativeStarts(t) : \E e : IsPieceOf(alt, t, p, e)
    BY StartsHavePieces
  <2>2. PICK e : IsPieceOf(alt, t, p, e)
    BY <2>1
  <2>3. p \in Nat /\ e \in Nat
    BY <1>1, <2>2, PieceChars
  <2> QED
    BY <1>1, <2>2, <2>3, PieceWild, NumberNat
<1>6. CASE \E k \in PathStarts(s) : \E p \in AlternativeStarts(t) :
              /\ v = Tried(s, t, k, p) /\ Tried(s, t, k, p) # FAILURE
              /\ \A l \in PathStarts(s) : l < k => Tried(s, t, l, p) = FAILURE
  <2>1. v # FAILURE
    BY <1>6
  <2>2. \E alt \in Alternatives(t) : /\ v # OVERFLOW => v = RefVerdict(s, alt)
                                     /\ v = OVERFLOW => Wildcards(alt) >= MaxNest
    BY <1>4, <1>6
  <2>3. ASSUME \A alt \in Alternatives(t) : Wildcards(alt) < MaxNest PROVE v # OVERFLOW
    BY <1>5, <2>2, <2>3
  <2> QED
    BY <2>1, <2>2, <2>3
<1> QED
  BY <1>1, <1>3, <1>6, FirstTry

-----------------------------------------------------------------------------
(***************************************************************************)
(* The way down.  A trail through the whole pathname crosses each of its   *)
(* '/' at a '/' of the pattern; cut off there it is a trail through the    *)
(* name of the directory.                                                  *)
(***************************************************************************)
LEMMA MoveOver ==
  ASSUME NEW s, NoNul(s), NEW c, c # NUL, NEW k \in 1 .. Len(s), s[k] = "/",
         NEW i \in Positions(s), i <= k, NEW x \in Moves(s, c, i), k < x
  PROVE  i = k /\ c = "/"
<1>1. i \in Nat /\ k \in Nat /\ x \in Nat /\ At(s, k) = "/"
  BY MovesStay, Chars DEF Positions
<1>2. CASE c = "*"
  <2>1. x \in i .. ComponentEnd(s, i)
    BY <1>2 DEF Moves
  <2>2. ComponentEnd(s, i) \in i .. Ends(s) /\ \A m \in i .. ComponentEnd(s, i) - 1 : is_filename(At(s, m))
    BY ComponentEnds DEF Positions
  <2>3. k \in i .. ComponentEnd(s, i) - 1
    BY <1>1, <2>1, <2>2, Chars
  <2> QED
    BY <1>1, <2>2, <2>3 DEF is_filename
<1>3. CASE c = "?"
  <2>1. x = i \/ (x = i + 1 /\ is_filename(At(s, i)))
    BY <1>3 DEF Moves
  <2>2. x = i + 1 /\ i = k /\ is_filename(At(s, i))
    BY <1>1, <2>1
  <2> QED
    BY <1>1, <2>2 DEF is_filename
<1>4. CASE c \notin {"*", "?"}
  <2>1. x = i + 1 /\ At(s, i) = c
    BY <1>4 DEF Moves
  <2> QED
    BY <1>1, <2>1
<1> QED
  BY <1>2, <1>3, <1>4

\* d is the part of s before k.
IsCut(d, s, k) ==
  /\ NoNul(d) /\ Len(d) = k - 1 /\ k \in 2 .. Len(s)
  /\ \A m \in 1 .. k - 1 : d[m] = s[m]

LEMMA MoveCut ==
  ASSUME NEW s, NoNul(s), NEW d, NEW k, IsCut(d, s, k), NEW c, c # NUL,
         NEW i \in Positions(s), NEW x \in Moves(s, c, i), x <= k
  PROVE  x \in Moves(d, c, i)
<1>1. /\ i \in Nat /\ k \in Nat /\ x \in Nat /\ 1 <= i /\ i <= x /\ i <= k /\ Ends(d) = k /\ i \in 1 .. Ends(d)
      /\ Len(s) \in Nat /\ k <= Len(s)
  BY MovesStay, Chars DEF Positions, IsCut, Ends
<1>2. \A m \in 1 .. k - 1 : At(d, m) = At(s, m)
  <2>1. \A m \in 1 .. k - 1 : m \in 1 .. Len(d) /\ m \in 1 .. Len(s)
    BY <1>1 DEF IsCut
  <2> QED
    BY <2>1, Chars DEF IsCut
<1>3. CASE c = "*"
  <2>1. x \in i .. ComponentEnd(s, i)
    BY <1>3 DEF Moves
  <2>2. ComponentEnd(s, i) \in i .. Ends(s) /\ \A m \in i .. ComponentEnd(s, i) - 1 : is_filename(At(s, m))
    BY ComponentEnds DEF Positions
  <2>3. NoNul(d)
    BY DEF IsCut
  <2>4. ComponentEnd(d, i) \in i .. Ends(d) /\ ~ is_filename(At(d, ComponentEnd(d, i)))
    BY <1>1, <2>3, ComponentEnds
  <2>5. \A m \in i .. x - 1 : m \in i .. ComponentEnd(s, i) - 1 /\ m \in 1 .. k - 1
    BY <1>1, <2>1, <2>2, Chars
  <2>6. \A m \in i .. x - 1 : is_filename(At(d, m))
    BY <1>2, <2>2, <2>5
  <2>7. ComponentEnd(d, i) \notin i .. x - 1
    BY <2>4, <2>6
  <2>8. x \in i .. ComponentEnd(d, i)
    BY <1>1, <2>4, <2>7
  <2> QED
    BY <1>3, <2>8 DEF Moves
<1>4. x = i + 1 => i \in 1 .. k - 1
  BY <1>1
<1>5. CASE c = "?"
  <2>1. x = i \/ (x = i + 1 /\ is_filename(At(s, i)))
    BY <1>5 DEF Moves
  <2>2. x = i \/ (x = i + 1 /\ is_filename(At(d, i)))
    BY <1>2, <1>4, <2>1
  <2> QED
    BY <1>5, <2>2 DEF Moves
<1>6. CASE c \notin {"*", "?"}
  <2>1. c # "[" /\ x = i + 1 /\ At(s, i) = c
    BY <1>6 DEF Moves
  <2>2. At(d, i) = c
    BY <1>2, <1>4, <2>1
  <2> QED
    BY <1>6, <2>1, <2>2 DEF Moves
<1> QED
  BY <1>3, <1>5, <1>6

LEMMA CutLeads ==
  ASSUME NEW s, NoNul(s), NEW d, NEW k, IsCut(d, s, k), s[k] = "/",
         NEW t, NEW e \in Nat, 1 <= e, \A m \in 1 .. e - 1 : t[m] # NUL, Full(s, t, e, 1, 1)
  PROVE  Part(d, t, e, 1, 1)
<1>1. PICK f : IsTrail(s, t, 1, 1, e, Ends(s), f)
  BY DEF Full, Trail
<1>2. k \in Nat /\ k \in 1 .. Len(s) /\ 1 < k /\ k < Ends(s) /\ Ends(d) = k /\ Len(s) \in Nat
  BY Chars DEF IsCut, Ends
<1>3. \A m \in 1 .. e : f[m] \in Positions(s) /\ f[m] \in Nat
  BY <1>1, Chars DEF IsTrail, Positions
<1> DEFINE T == {m \in 1 .. e : f[m] > k}
<1>4. e \in T /\ T \in SUBSET Nat
  BY <1>1, <1>2 DEF IsTrail
<1>5. PICK n \in T : \A y \in T : n <= y
  BY <1>4, LeastNat
<1>6. n # 1
  BY <1>1, <1>2, <1>5 DEF IsTrail
<1> DEFINE m == n - 1
<1>7. m \in Nat /\ m \in 1 .. e /\ m + 1 = n /\ m \in 1 .. e - 1 /\ 1 <= m
  BY <1>5, <1>6
<1> HIDE DEF m
<1>8. \A q \in 1 .. m : q \in 1 .. e /\ f[q] <= k
  <2> SUFFICES ASSUME NEW q \in 1 .. m PROVE q \in 1 .. e /\ f[q] <= k
    OBVIOUS
  <2>1. q \in 1 .. e /\ ~ (n <= q)
    BY <1>5, <1>7
  <2>2. q \notin T
    BY <1>5, <2>1
  <2> QED
    BY <1>2, <1>3, <2>1, <2>2
<1>9. f[m] \in Positions(s) /\ f[m] <= k /\ f[m + 1] > k /\ f[m + 1] \in Moves(s, t[m], f[m]) /\ t[m] # NUL
  <2>1. m \in 1 .. m
    BY <1>7
  <2> QED
    BY <1>1, <1>3, <1>5, <1>7, <1>8, <2>1 DEF IsTrail
<1>10. f[m] = k /\ t[m] = "/"
  <2>1. k < f[m + 1]
    BY <1>2, <1>3, <1>5, <1>7, <1>9
  <2> QED
    BY <1>2, <1>9, <2>1, MoveOver
<1> DEFINE h == [q \in 1 .. m |-> f[q]]
<1>11. h \in [1 .. m -> Positions(d)]
  <2>1. \A q \in 1 .. m : f[q] \in 1 .. k
    BY <1>2, <1>3, <1>8 DEF Positions
  <2> QED
    BY <1>2, <2>1 DEF Positions
<1>12. h[1] = 1 /\ h[m] = Ends(d)
  BY <1>1, <1>2, <1>7, <1>10 DEF IsTrail
<1>13. ASSUME NEW q \in 1 .. m - 1 PROVE h[q + 1] \in Moves(d, t[q], h[q])
  <2>1. q \in 1 .. m /\ q + 1 \in 1 .. m /\ q \in 1 .. e - 1 /\ q \in 1 .. e
    BY <1>7
  <2>2. f[q] \in Positions(s) /\ f[q + 1] \in Moves(s, t[q], f[q]) /\ f[q + 1] <= k /\ t[q] # NUL
    BY <1>1, <1>3, <1>8, <2>1 DEF IsTrail
  <2>3. f[q + 1] \in Moves(d, t[q], f[q])
    BY <2>2, MoveCut
  <2> QED
    BY <2>1, <2>3
<1>14. Trail(d, t, 1, 1, m, Ends(d))
  <2> HIDE DEF h
  <2>1. IsTrail(d, t, 1, 1, m, Ends(d), h)
    BY <1>11, <1>12, <1>13 DEF IsTrail
  <2> QED
    BY <2>1 DEF Trail
<1> QED
  BY <1>7, <1>10, <1>14 DEF Part

\* A pattern without a bar is its only alternative.
LEMMA SingleAlternative ==
  ASSUME NEW t, IsPattern(t), NoBar(t)
  PROVE  Alternatives(t) = {t} /\ IsPieceOf(t, t, 1, Ends(t))
<1>1. Len(t) \in Nat /\ DOMAIN t = 1 .. Len(t) /\ t \in Seq(STRING)
  BY DEF IsPattern
<1>2. Bars(t, 1) = {}
  BY <1>1 DEF Bars, NoBar
<1>3. \A alt : alt \in Alternatives(t) <=> alt = Piece(t, 0)
  BY <1>2, PiecesAreAlternatives
<1>4. {c \in Bars(t, 1) \cup {0, Len(t) + 1} : c > 0} = {Len(t) + 1}
  BY <1>1, <1>2
<1>5. PieceEnd(t, 0) = Len(t) + 1
  <2>1. {Len(t) + 1} \in SUBSET Nat /\ {Len(t) + 1} # {}
    BY <1>1
  <2>2. Min({Len(t) + 1}) \in {Len(t) + 1}
    BY <2>1, MinIsLeast
  <2> QED
    BY <1>4, <2>2 DEF PieceEnd
<1>6. (Len(t) + 1) - 1 = Len(t) /\ 0 + 1 = 1
  BY <1>1
<1>7. Piece(t, 0) = SubSeq(t, 1, Len(t))
  BY <1>5, <1>6 DEF Piece
<1>8. SubSeq(t, 1, Len(t)) = t
  BY <1>1
<1>9. 0 \in Bars(t, 1) \cup {0}
  OBVIOUS
<1>10. IsPiece(t, 0 + 1, PieceEnd(t, 0)) /\ 0 + 1 < PieceEnd(t, 0)
  BY <1>9, PieceEnds
<1>11. IsPiece(t, 1, Ends(t)) /\ 1 < Ends(t) /\ Ends(t) - 1 = Len(t)
  BY <1>1, <1>5, <1>6, <1>10 DEF Ends
<1>12. IsPieceOf(t, t, 1, Ends(t))
  BY <1>8, <1>11 DEF IsPieceOf
<1> QED
  BY <1>3, <1>7, <1>8, <1>12

LEMMA DescentLeads ==
  ASSUME MaxNest \in Nat, NEW s, IsPath(s), NEW t, IsPattern(t), NoBar(t), Wildcards(t) < MaxNest,
         At(t, 1) = "/", Matches(s, t, 1), NEW k \in 2 .. Len(s), s[k] = "/"
  PROVE  match_pathname(SubSeq(s, 1, k - 1), t) = PARTIAL
<1> DEFINE dir == SubSeq(s, 1, k - 1)
<1>1. Alternatives(t) = {t} /\ IsPieceOf(t, t, 1, Ends(t))
  BY SingleAlternative
<1>2. NoNul(t) /\ 1 \in AlternativeStarts(t) /\ NoNul(s) /\ 1 \in 1 .. Len(s) /\ s[1] = "/"
  BY StartsHavePieces, PathnameChars
<1>3. Len(s) \in Nat /\ s \in Seq(Char) /\ k \in Nat /\ DOMAIN s = 1 .. Len(s)
  BY <1>2, Chars DEF NoNul
<1>4. dir \in Seq(Char) /\ Len(dir) = k - 1 /\ DOMAIN dir = 1 .. k - 1 /\ \A m \in 1 .. k - 1 : dir[m] = s[m]
  BY <1>3
<1> HIDE DEF dir
<1>5. \A m \in 1 .. k - 1 : dir[m] # NUL
  BY <1>2, <1>3, <1>4 DEF NoNul
<1>6. IsPath(dir)
  <2>1. 1 \in DOMAIN dir /\ dir[1] = "/"
    BY <1>2, <1>3, <1>4
  <2> QED
    BY <1>4, <1>5, <2>1 DEF IsPath, NoNul, At
<1>7. NoNul(dir) /\ dir # <<>> /\ 1 \in PathStarts(dir)
  BY <1>6, PathnameChars DEF PathStarts
<1>8. IsCut(dir, s, k)
  BY <1>4, <1>7 DEF IsCut
<1>9. Ends(t) \in Nat /\ 1 <= Ends(t) /\ \A m \in 1 .. Ends(t) - 1 : t[m] # NUL
  BY <1>2, Chars DEF NoNul, Ends
<1>10. 1 \in Positions(s) /\ 1 \in Positions(dir)
  BY <1>2, <1>7, Chars DEF Positions
<1>11. Full(s, t, Ends(t), 1, 1)
  BY <1>1, <1>2, <1>10, PieceMatches
<1>12. Part(dir, t, Ends(t), 1, 1)
  BY <1>2, <1>8, <1>9, <1>11, CutLeads
<1>13. ASSUME NEW l \in PathStarts(dir), Full(dir, t, Ends(t), From(t, 1, l), 1) PROVE FALSE
  <2>1. From(t, 1, l) \in Positions(dir) /\ From(t, 1, l) = l
    BY <1>7, FromStays DEF From
  <2>2. l < 1
    BY <1>7, <1>9, <1>10, <1>12, <1>13, <2>1, FullBeforePart
  <2> QED
    BY <1>7, <2>1, <2>2, Chars DEF Positions
<1>14. RefVerdict(dir, t) = PARTIAL
  <2>1. Part(dir, t, Ends(t), From(t, 1, 1), 1)
    BY <1>12 DEF From
  <2> QED
    BY <1>1, <1>2, <1>6, <1>7, <1>13, <2>1, RefPiece
<1>15. match_pathname(dir, t) = RefVerdict(dir, t)
  BY <1>1, <1>6, VerdictRight
<1> QED
  BY <1>14, <1>15 DEF dir

-----------------------------------------------------------------------------
(***************************************************************************)
(* One character less.  Below the root match_pathname gets a path without  *)
(* its first '/'.  A pattern without a '/' then starts where it would have *)
(* in the whole path: from inside the first component it cannot get over   *)
(* the next '/'.                                                           *)
(***************************************************************************)
IsBehind(r, s) ==
  /\ NoNul(r) /\ NoNul(s) /\ Len(s) = Len(r) + 1
  /\ \A m \in 1 .. Len(r) : s[m + 1] = r[m]

LEMMA BehindMoves ==
  ASSUME NEW r, NEW s, IsBehind(r, s), NEW c, c # NUL, NEW i \in Positions(r), NEW x \in Positions(r)
  PROVE  x \in Moves(r, c, i) <=> x + 1 \in Moves(s, c, i + 1)
<1>1. /\ i \in Nat /\ x \in Nat /\ 1 <= i /\ i <= Len(r) + 1 /\ Len(r) \in Nat /\ Ends(s) = Ends(r) + 1
      /\ NoNul(r) /\ NoNul(s) /\ Ends(r) = Len(r) + 1 /\ i + 1 \in 1 .. Ends(s) /\ i \in 1 .. Ends(r)
  BY Chars DEF IsBehind, Positions, Ends
<1>2. \A m \in 1 .. Ends(r) : At(s, m + 1) = At(r, m)
  <2> SUFFICES ASSUME NEW m \in 1 .. Ends(r) PROVE At(s, m + 1) = At(r, m)
    OBVIOUS
  <2>1. CASE m = Ends(r)
    BY <1>1, <2>1, Chars
  <2>2. CASE m # Ends(r)
    <3>1. m \in 1 .. Len(r) /\ m + 1 \in 1 .. Len(s)
      BY <1>1, <2>2 DEF IsBehind
    <3> QED
      BY <1>1, <3>1, Chars DEF IsBehind
  <2> QED
    BY <2>1, <2>2
<1>3. ComponentEnd(s, i + 1) = ComponentEnd(r, i) + 1
  <2> DEFINE a == ComponentEnd(r, i)
             b == ComponentEnd(s, i + 1)
  <2>1. a \in i .. Ends(r) /\ ~ is_filename(At(r, a)) /\ \A m \in i .. a - 1 : is_filename(At(r, m))
    BY <1>1, ComponentEnds
  <2>2. b \in i + 1 .. Ends(s) /\ ~ is_filename(At(s, b)) /\ \A m \in i + 1 .. b - 1 : is_filename(At(s, m))
    BY <1>1, ComponentEnds
  <2> HIDE DEF a, b
  <2>3. a \in 1 .. Ends(r) /\ ~ is_filename(At(s, a + 1))
    BY <1>1, <1>2, <2>1
  <2>4. b - 1 \in 1 .. Ends(r) /\ (b - 1) + 1 = b /\ ~ is_filename(At(r, b - 1))
    <3>1. b - 1 \in 1 .. Ends(r) /\ (b - 1) + 1 = b
      BY <1>1, <2>2
    <3> QED
      BY <1>2, <2>2, <3>1
  <2>5. ~ (a + 1 < b)
    <3> SUFFICES ASSUME a + 1 < b PROVE FALSE
      OBVIOUS
    <3>1. a + 1 \in i + 1 .. b - 1
      BY <1>1, <2>1, <2>2
    <3> QED
      BY <2>2, <2>3, <3>1
  <2>6. ~ (b - 1 < a)
    <3> SUFFICES ASSUME b - 1 < a PROVE FALSE
      OBVIOUS
    <3>1. b - 1 \in i .. a - 1
      BY <1>1, <2>1, <2>2
    <3> QED
      BY <2>1, <2>4, <3>1
  <2>7. b = a + 1
    BY <1>1, <2>1, <2>2, <2>5, <2>6
  <2> QED
    BY <2>7 DEF a, b
<1>4. At(s, i + 1) = At(r, i)
  BY <1>1, <1>2
<1>5. ComponentEnd(r, i) \in i .. Ends(r)
  BY <1>1, ComponentEnds
<1> DEFINE a == ComponentEnd(r, i)
<1>6. a \in Nat /\ (x \in i .. a <=> x + 1 \in i + 1 .. a + 1)
  BY <1>1, <1>5
<1>7. (x = i <=> x + 1 = i + 1) /\ (x = i + 1 <=> x + 1 = (i + 1) + 1)
  BY <1>1
<1> HIDE DEF a
<1>8. CASE c = "*"
  BY <1>3, <1>6, <1>8 DEF Moves, a
<1>9. CASE c = "?"
  BY <1>4, <1>7, <1>9 DEF Moves
<1>10. CASE c = "["
  BY <1>10 DEF Moves
<1>11. CASE c \notin {"*", "?", "["}
  BY <1>4, <1>7, <1>11 DEF Moves
<1> QED
  BY <1>8, <1>9, <1>10, <1>11

LEMMA TrailBehind ==
  ASSUME NEW r, NEW s, IsBehind(r, s), NEW t, NEW a \in Nat, NEW e \in Nat, a <= e,
         \A m \in a .. e - 1 : t[m] # NUL, NEW i \in Positions(r)
  PROVE  Trail(r, t, a, i, e, Ends(r)) <=> Trail(s, t, a, i + 1, e, Ends(s))
<1> DEFINE OK(j) == \A y \in Positions(r) : Trail(r, t, j, y, e, Ends(r)) <=> Trail(s, t, j, y + 1, e, Ends(s))
           S == {j \in a .. e : OK(j)}
<1>1. NoNul(r) /\ NoNul(s) /\ Ends(r) \in Nat /\ Ends(s) = Ends(r) + 1
  BY Chars DEF IsBehind, Ends
<1>2. \A y \in Positions(r) : y \in Nat /\ 1 <= y /\ y + 1 \in Positions(s)
  BY <1>1 DEF Positions
<1>3. OK(e)
  <2> SUFFICES ASSUME NEW y \in Positions(r)
               PROVE  Trail(r, t, e, y, e, Ends(r)) <=> Trail(s, t, e, y + 1, e, Ends(s))
    OBVIOUS
  <2>1. (Trail(r, t, e, y, e, Ends(r)) <=> Ends(r) = y) /\ (Trail(s, t, e, y + 1, e, Ends(s)) <=> Ends(s) = y + 1)
    BY <1>2, TrailStart
  <2> QED
    BY <1>1, <1>2, <2>1
<1>4. ASSUME NEW j \in a .. e - 1, OK(j + 1) PROVE OK(j)
  <2> SUFFICES ASSUME NEW y \in Positions(r)
               PROVE  Trail(r, t, j, y, e, Ends(r)) <=> Trail(s, t, j, y + 1, e, Ends(s))
    OBVIOUS
  <2>1. j \in Nat /\ j < e /\ t[j] # NUL /\ y + 1 \in Positions(s)
    BY <1>2
  <2>2. Trail(r, t, j, y, e, Ends(r)) <=>
          \E z \in Moves(r, t[j], y) \cap Positions(r) : Trail(r, t, j + 1, z, e, Ends(r))
    BY <2>1, TrailFront
  <2>3. Trail(s, t, j, y + 1, e, Ends(s)) <=>
          \E z \in Moves(s, t[j], y + 1) \cap Positions(s) : Trail(s, t, j + 1, z, e, Ends(s))
    BY <2>1, TrailFront
  <2>4. ASSUME NEW z \in Moves(r, t[j], y) \cap Positions(r), Trail(r, t, j + 1, z, e, Ends(r))
        PROVE  \E w \in Moves(s, t[j], y + 1) \cap Positions(s) : Trail(s, t, j + 1, w, e, Ends(s))
    <3>1. z + 1 \in Moves(s, t[j], y + 1) /\ z + 1 \in Positions(s)
      BY <1>2, <2>1, BehindMoves
    <3> QED
      BY <1>4, <2>4, <3>1
  <2>5. ASSUME NEW w \in Moves(s, t[j], y + 1) \cap Positions(s), Trail(s, t, j + 1, w, e, Ends(s))
        PROVE  \E z \in Moves(r, t[j], y) \cap Positions(r) : Trail(r, t, j + 1, z, e, Ends(r))
    <3>1. w \in Positions(s) /\ y + 1 <= w
      BY <1>1, <2>1, MovesStay
    <3>2. w - 1 \in Positions(r) /\ (w - 1) + 1 = w
      BY <1>1, <1>2, <3>1 DEF Positions
    <3>3. w - 1 \in Moves(r, t[j], y)
      BY <2>1, <3>2, BehindMoves
    <3>4. Trail(r, t, j + 1, w - 1, e, Ends(r))
      BY <1>4, <2>5, <3>2
    <3> QED
      BY <3>2, <3>3, <3>4
  <2> QED
    BY <2>2, <2>3, <2>4, <2>5
<1> HIDE DEF OK
<1>5. e \in S /\ \A j \in a .. e - 1 : j + 1 \in S => j \in S
  BY <1>3, <1>4
<1>6. a .. e \subseteq S
  <2> HIDE DEF S
  <2> QED
    BY <1>5, Downward
<1>7. OK(a)
  BY <1>6
<1> QED
  BY <1>7 DEF OK

LEMMA NoSlashAhead ==
  ASSUME NEW s, NoNul(s), NEW t, NEW p \in Nat, NEW e \in Nat, p <= e,
         \A m \in p .. e - 1 : t[m] # NUL /\ t[m] # "/",
         NEW i \in Positions(s), Full(s, t, e, i, p), NEW q \in i .. Len(s)
  PROVE  s[q] # "/"
<1> SUFFICES ASSUME s[q] = "/" PROVE FALSE
  OBVIOUS
<1>1. i \in Nat /\ q \in Nat /\ q + 1 \in Nat /\ 1 \in Nat /\ 1 <= q /\ i <= q /\ q + 1 <= Ends(s) /\ Ends(s) \in Nat
  BY Chars DEF Positions, Ends
<1>2. Slashes(s, Ends(s)) = Slashes(s, i) + Number(t, {"/"}, p, e)
  BY TrailCrosses DEF Full
<1>3. Number(t, {"/"}, p, e) = 0
  <2>1. Number(t, {"/"}, p, p) = 0
    BY NumberEmpty
  <2>2. \A m \in p .. e - 1 : t[m] \notin {"/"}
    OBVIOUS
  <2> QED
    BY <2>1, <2>2, NumberGrows
<1>4. Slashes(s, q + 1) = Slashes(s, q) + 1
  <2>1. Number(s, {"/"}, 1, q + 1) = Number(s, {"/"}, 1, q) + (IF s[q] \in {"/"} THEN 1 ELSE 0)
    BY <1>1, NumberBack
  <2> QED
    BY <2>1 DEF Slashes
<1>5. Slashes(s, i) <= Slashes(s, q) /\ Slashes(s, q + 1) <= Slashes(s, Ends(s))
  BY <1>1, NumberGrows DEF Slashes
<1>6. Slashes(s, i) \in Nat /\ Slashes(s, q) \in Nat /\ Slashes(s, Ends(s)) \in Nat
  BY <1>1, NumberNat DEF Slashes
<1> QED
  BY <1>2, <1>3, <1>4, <1>5, <1>6

LEMMA RootMatch ==
  ASSUME MaxNest \in Nat, NEW r, NEW s, IsBehind(r, s), s[1] = "/", NEW q \in 2 .. Len(r), r[q] = "/", r[1] # "/",
         NEW t, IsPattern(t), \A i \in DOMAIN t : t[i] # "/", NoBar(s) \/ NoBar(t)
  PROVE  /\ match_pathname(r, t) = SUCCESS => \E alt \in Alternatives(t) : RefVerdict(s, alt) = SUCCESS
         /\ NoBar(t) /\ Wildcards(t) < MaxNest /\ RefVerdict(s, t) = SUCCESS => match_pathname(r, t) = SUCCESS
<1>1. /\ NoNul(r) /\ NoNul(s) /\ Len(r) \in Nat /\ Len(s) = Len(r) + 1 /\ r # <<>> /\ 1 \in 1 .. Len(s)
      /\ DOMAIN r = 1 .. Len(r) /\ DOMAIN s = 1 .. Len(s)
      /\ \A m \in 1 .. Len(r) : s[m + 1] = r[m]
  BY Chars DEF IsBehind
<1>2. IsPath(s) /\ PathStarts(s) = {k \in DOMAIN s : s[k] = "/"}
  <2>1. IsPath(s)
    BY <1>1 DEF IsPath, At
  <2> QED
    BY <2>1, PathnameChars
<1>3. NoBar(r) \/ NoBar(t)
  <2> SUFFICES ASSUME NoBar(s) PROVE NoBar(r)
    OBVIOUS
  <2>1. \A m \in 1 .. Len(r) : m + 1 \in 1 .. Len(s)
    BY <1>1
  <2> QED
    BY <1>1, <2>1 DEF NoBar
<1>4. NoNul(t) /\ 1 \in AlternativeStarts(t) /\ DOMAIN t = 1 .. Len(t) /\ Len(t) \in Nat
  BY StartsHavePieces, Chars
<1>5. \A p, k : From(t, p, k) = k + 1
  BY DEF From, At, NUL
<1>6. ASSUME NEW p, NEW e, NEW alt, IsPieceOf(alt, t, p, e)
      PROVE  p \in Nat /\ e \in Nat /\ p <= e /\ \A m \in p .. e - 1 : t[m] # NUL /\ t[m] # "/"
  <2>1. p \in Nat \ {0} /\ e \in Nat /\ p < e
    BY <1>4, <1>6, PieceChars
  <2>2. e <= Len(t) + 1
    BY <1>4, <1>6 DEF IsPieceOf, IsPiece, Ends
  <2>3. \A m \in p .. e - 1 : m \in 1 .. Len(t)
    BY <1>4, <2>1, <2>2
  <2> QED
    BY <1>4, <2>1, <2>3 DEF NoNul
\* A place in the whole path is one in the path without the first slash.
<1>7. ASSUME NEW p, NEW e, NEW alt, IsPieceOf(alt, t, p, e), NEW k \in PathStarts(r), Full(r, t, e, k + 1, p)
      PROVE  k + 1 \in PathStarts(s) /\ Full(s, t, e, (k + 1) + 1, p)
  <2>0. k \in 1 .. Len(r) /\ From(t, p, k) \in Positions(r)
    BY <1>1, FromStays
  <2>1. k \in 1 .. Len(r) /\ k + 1 \in Positions(r)
    BY <1>5, <2>0
  <2>2. k # 1
    <3> DEFINE i == k + 1
    <3>0. i \in Positions(r) /\ Full(r, t, e, i, p)
      BY <1>7, <2>1
    <3>5. p \in Nat /\ e \in Nat /\ p <= e /\ \A m \in p .. e - 1 : t[m] # NUL /\ t[m] # "/"
      BY <1>6, <1>7
    <3> HIDE DEF i
    <3>6. \A m \in i .. Len(r) : r[m] # "/"
      BY <1>1, <3>0, <3>5, NoSlashAhead
    <3>1. \A m \in k + 1 .. Len(r) : r[m] # "/"
      BY <3>6 DEF i
    <3> QED
      BY <1>1, <3>1
  <2>3. r[k] = "/" /\ k + 1 \in DOMAIN s
    BY <1>1, <2>1, <2>2 DEF PathStarts
  <2>4. k + 1 \in PathStarts(s)
    BY <1>1, <1>2, <2>1, <2>3
  <2>5. Full(s, t, e, (k + 1) + 1, p)
    BY <1>6, <1>7, <2>1, TrailBehind DEF Full
  <2> QED
    BY <2>4, <2>5
<1>8. ASSUME NEW p, NEW e, NEW alt, IsPieceOf(alt, t, p, e), NEW k \in PathStarts(s), Full(s, t, e, k + 1, p)
      PROVE  k - 1 \in PathStarts(r) /\ Full(r, t, e, (k - 1) + 1, p)
  <2>0. k \in 1 .. Len(s) /\ From(t, p, k) \in Positions(s)
    <3>1. s # <<>>
      BY <1>2, PathnameChars
    <3> QED
      BY <1>1, <3>1, FromStays
  <2>1. k \in 1 .. Len(s) /\ k + 1 \in Positions(s) /\ s[k] = "/"
    BY <1>2, <1>5, <2>0
  <2>2. k # 1
    <3> DEFINE i == k + 1
    <3>0. i \in Positions(s) /\ Full(s, t, e, i, p)
      BY <1>8, <2>1
    <3>5. p \in Nat /\ e \in Nat /\ p <= e /\ \A m \in p .. e - 1 : t[m] # NUL /\ t[m] # "/"
      BY <1>6, <1>8
    <3> HIDE DEF i
    <3>6. \A m \in i .. Len(s) : s[m] # "/"
      BY <1>1, <3>0, <3>5, NoSlashAhead
    <3>1. \A m \in k + 1 .. Len(s) : s[m] # "/"
      BY <3>6 DEF i
    <3>2. q + 1 \in 2 .. Len(s) /\ s[q + 1] = "/"
      BY <1>1
    <3> QED
      BY <1>1, <3>1, <3>2
  <2>3. k - 1 \in 1 .. Len(r) /\ (k - 1) + 1 = k
    BY <1>1, <2>1, <2>2
  <2>4. r[k - 1] = "/"
    BY <1>1, <2>1, <2>3
  <2>5. k - 1 \in PathStarts(r)
    <3>1. k - 1 # 1
      BY <2>4
    <3> QED
      BY <1>1, <2>3, <2>4, <3>1 DEF PathStarts
  <2>6. k \in Positions(r)
    BY <1>1, <2>3 DEF Positions, Ends
  <2>7. Full(r, t, e, k, p)
    BY <1>6, <1>8, <2>6, TrailBehind DEF Full
  <2> QED
    BY <2>3, <2>5, <2>7
<1>9. ASSUME match_pathname(r, t) = SUCCESS PROVE \E alt \in Alternatives(t) : RefVerdict(s, alt) = SUCCESS
  <2>1. PICK k \in PathStarts(r), p \in AlternativeStarts(t) : Tried(r, t, k, p) = SUCCESS
    BY <1>1, <1>9, FirstTry DEF SUCCESS, FAILURE
  <2>2. PICK e : \E alt \in Alternatives(t) : IsPieceOf(alt, t, p, e)
    BY StartsHavePieces
  <2>3. PICK alt \in Alternatives(t) : IsPieceOf(alt, t, p, e)
    BY <2>2
  <2>4. Right(Tried(r, t, k, p), r, t, e, From(t, p, k), p)
    BY <1>1, <1>3, <1>4, <2>3, TriedRight
  <2>5. Full(r, t, e, k + 1, p)
    BY <1>5, <2>1, <2>4 DEF Right
  <2>6. k + 1 \in PathStarts(s) /\ Full(s, t, e, From(t, p, k + 1), p)
    BY <1>5, <1>7, <2>3, <2>5
  <2>7. RefVerdict(s, alt) = SUCCESS
    BY <1>2, <1>4, <2>3, <2>6, RefPiece
  <2> QED
    BY <2>3, <2>7
<1>10. ASSUME NoBar(t), Wildcards(t) < MaxNest, RefVerdict(s, t) = SUCCESS PROVE match_pathname(r, t) = SUCCESS
  <2>1. Alternatives(t) = {t} /\ IsPieceOf(t, t, 1, Ends(t))
    BY <1>10, SingleAlternative
  <2>2. PICK k \in PathStarts(s) : Full(s, t, Ends(t), From(t, 1, k), 1)
    BY <1>2, <1>4, <1>10, <2>1, RefPiece DEF SUCCESS, PARTIAL, FAILURE
  <2>3. k - 1 \in PathStarts(r) /\ Full(r, t, Ends(t), From(t, 1, k - 1), 1)
    BY <1>5, <1>8, <2>1, <2>2
  <2>4. Tried(r, t, k - 1, 1) # FAILURE
    <3>1. Right(Tried(r, t, k - 1, 1), r, t, Ends(t), From(t, 1, k - 1), 1)
      BY <1>1, <1>3, <1>4, <2>1, <2>3, TriedRight
    <3> QED
      BY <2>3, <3>1 DEF Right
  <2>5. PICK l \in PathStarts(r), p \in AlternativeStarts(t) :
          match_pathname(r, t) = Tried(r, t, l, p) /\ Tried(r, t, l, p) # FAILURE
    BY <1>1, <1>4, <2>3, <2>4, FirstTry
  <2>6. PICK e : IsPieceOf(t, t, p, e)
    BY <2>1, StartsHavePieces
  <2> DEFINE v == Tried(r, t, l, p)
  <2>7. Right(v, r, t, e, From(t, p, l), p) /\ (v = OVERFLOW => Wildcards(t) >= MaxNest)
    BY <1>1, <1>3, <1>4, <2>6, TriedRight
  <2>8. Wildcards(t) \in Nat
    <3>1. Wildcards(t) = Number(t, Wild, 1, Ends(t))
      BY <1>4, <2>1, PieceWild
    <3> QED
      BY <1>4, <3>1, NumberNat, Chars
  <2> HIDE DEF v
  <2>9. v # PARTIAL
    BY <1>6, <2>6, <2>7 DEF Right, Part
  <2>10. v # OVERFLOW
    BY <1>10, <2>7, <2>8
  <2> QED
    BY <2>5, <2>7, <2>9, <2>10 DEF Right, Verdicts, v
<1> QED
  BY <1>9, <1>10

\* A pattern without special characters matches itself only.
LEMMA LiteralMatch ==
  ASSUME NEW s, IsPath(s), NEW t, NoNul(t), \A i \in DOMAIN t : t[i] \notin {"*", "?", "|"}, Matches(s, t, 1)
  PROVE  s = t
<1>1. /\ NoNul(s) /\ Len(s) \in Nat /\ Len(t) \in Nat /\ DOMAIN t = 1 .. Len(t) /\ DOMAIN s = 1 .. Len(s)
      /\ 1 \in Positions(s) /\ Ends(s) \in Positions(s) /\ s \in Seq(Char) /\ t \in Seq(Char)
  BY Chars DEF IsPath, Positions, NoNul
<1>2. Trail(s, t, 1, 1, Len(t) + 1, Ends(s))
  <2>1. Len(t) \in 0 .. Len(t)
    BY <1>1
  <2> QED
    BY <1>1, <2>1, ReachedIsTrail DEF Matches, Ends
<1>3. PICK f : IsTrail(s, t, 1, 1, Len(t) + 1, Ends(s), f)
  BY <1>2 DEF Trail
<1>4. f[1] = 1 /\ f[Len(t) + 1] = Ends(s)
  BY <1>3 DEF IsTrail
<1>5. ASSUME NEW m \in 1 .. Len(t) PROVE f[m + 1] = f[m] + 1 /\ At(s, f[m]) = t[m]
  <2>1. m \in 1 .. (Len(t) + 1) - 1
    BY <1>1
  <2>2. f[m + 1] \in Moves(s, t[m], f[m]) /\ t[m] \notin {"*", "?", "|"}
    BY <1>1, <1>3, <2>1 DEF IsTrail
  <2> QED
    BY <2>2 DEF Moves
<1> DEFINE S == {m \in Nat : m <= Len(t) => f[m + 1] = m + 1}
<1>6. 0 \in S
  <2>1. 0 + 1 = 1
    OBVIOUS
  <2> QED
    BY <1>4, <2>1
<1>7. ASSUME NEW m \in Nat, m \in S PROVE m + 1 \in S
  <2> SUFFICES ASSUME m + 1 <= Len(t) PROVE f[(m + 1) + 1] = (m + 1) + 1
    OBVIOUS
  <2>1. m + 1 \in 1 .. Len(t) /\ m <= Len(t)
    BY <1>1
  <2> QED
    BY <1>5, <1>7, <2>1
<1>8. Nat \subseteq S
  <2> HIDE DEF S
  <2> QED
    BY <1>6, <1>7, NatUp
<1>9. Len(s) = Len(t)
  <2>1. f[Len(t) + 1] = Len(t) + 1
    BY <1>1, <1>8
  <2>2. Ends(s) = Len(t) + 1 /\ Ends(s) = Len(s) + 1
    BY <1>4, <2>1 DEF Ends
  <2>3. Len(s) \in Nat /\ Len(t) \in Nat
    BY <1>1
  <2> QED
    BY <2>2, <2>3
<1>10. ASSUME NEW m \in 1 .. Len(s) PROVE s[m] = t[m]
  <2>1. m - 1 \in Nat /\ m - 1 <= Len(t) /\ (m - 1) + 1 = m /\ m \in 1 .. Len(t)
    BY <1>1, <1>9
  <2>2. f[m] = m
    BY <1>8, <2>1
  <2> QED
    BY <1>1, <1>5, <2>1, <2>2 DEF At
<1> QED
  BY <1>1, <1>9, <1>10

-----------------------------------------------------------------------------
(***************************************************************************)
(* The theorems.                                                           *)
(***************************************************************************)
\* A call answers what match_pathname computes for its arguments.
CallInv ==
  /\ pathname \in Pathnames /\ pattern \in Patterns
  /\ Decided => verdict = match_pathname(pathname, pattern)

LEMMA CallInvariant == Spec => []CallInv
<1>1. Init => CallInv
  BY DEF Init, CallInv, Decided
<1>2. CallInv /\ [Decide]_vars => CallInv'
  <2> SUFFICES ASSUME CallInv, [Decide]_vars PROVE CallInv'
    OBVIOUS
  <2>1. CASE Decide
    BY <2>1 DEF Decide, CallInv, Decided
  <2>2. CASE UNCHANGED vars
    BY <2>2 DEF vars, CallInv, Decided
  <2> QED
    BY <2>1, <2>2
<1> QED
  BY <1>1, <1>2, PTL DEF Spec

LEMMA CallRight ==
  ASSUME CallInv, Decided, NoBar(pathname) \/ NoBar(pattern)
  PROVE  /\ IsPath(pathname) /\ IsPattern(pattern)
         /\ verdict # OVERFLOW => \E alt \in Alternatives(pattern) : verdict = RefVerdict(pathname, alt)
         /\ verdict = FAILURE => \A alt \in Alternatives(pattern) : RefVerdict(pathname, alt) = FAILURE
         /\ UnderLimit => verdict # OVERFLOW
<1>1. MaxNest \in Nat /\ IsPath(pathname) /\ IsPattern(pattern) /\ verdict = match_pathname(pathname, pattern)
  BY MatchAssumption, TextTyped DEF CallInv
<1> QED
  BY <1>1, VerdictRight DEF UnderLimit

\* Every answer of match_pathname is the reference's for one of the
\* alternatives, a failure is one of all of them, and with less wildcards
\* than the limit in each there is always an answer.
THEOREM AlternativesSound == Spec => []SoundForAlternatives
<1>1. CallInv => SoundForAlternatives
  <2> SUFFICES ASSUME CallInv, Decided, UnderLimit, NoBar(pathname) \/ NoBar(pattern)
               PROVE  /\ verdict \in {RefVerdict(pathname, alt) : alt \in Alternatives(pattern)}
                      /\ verdict = FAILURE => {RefVerdict(pathname, alt) : alt \in Alternatives(pattern)} = {FAILURE}
    BY DEF SoundForAlternatives, Single
  <2>1. \E alt \in Alternatives(pattern) : verdict = RefVerdict(pathname, alt)
    BY CallRight
  <2>2. verdict = FAILURE => \A alt \in Alternatives(pattern) : RefVerdict(pathname, alt) = FAILURE
    BY CallRight
  <2> QED
    BY <2>1, <2>2
<1> QED
  BY <1>1, CallInvariant, PTL

LEMMA SingleRight ==
  ASSUME CallInv, Decided, Single, verdict # OVERFLOW
  PROVE  verdict = RefVerdict(pathname, pattern)
<1>1. IsPattern(pattern) /\ \E alt \in Alternatives(pattern) : verdict = RefVerdict(pathname, alt)
  BY CallRight DEF Single
<1>2. Alternatives(pattern) = {pattern}
  BY <1>1, SingleAlternative DEF Single
<1> QED
  BY <1>1, <1>2

\* An answer for a pattern with one alternative is the right one, at and past
\* the nesting limit too.
THEOREM LimitSafe == Spec => []LimitIsSafe
<1>1. CallInv => LimitIsSafe
  BY SingleRight DEF LimitIsSafe
<1> QED
  BY <1>1, CallInvariant, PTL

\* Below the limit the backtracking decides the language of one alternative,
\* as the code reads its characters (Moves).
THEOREM OneAlternativeExact == Spec => []ExactForOneAlternative
<1>1. CallInv => ExactForOneAlternative
  BY SingleRight, CallRight DEF ExactForOneAlternative, Single
<1> QED
  BY <1>1, CallInvariant, PTL

\* Every directory above a match of a pattern that is not recursive has the
\* verdict PARTIAL, so the descent does not miss the match.
THEOREM DescentComplete == Spec => []DescentReaches
<1>1. CallInv => DescentReaches
  <2> SUFFICES ASSUME CallInv, Decided, Single, UnderLimit, ~ isrecursive(pattern), Matches(pathname, pattern, 1),
                      NEW dir \in Ancestors(pathname)
               PROVE  match_pathname(dir, pattern) = PARTIAL
    BY DEF DescentReaches
  <2>1. IsPath(pathname) /\ IsPattern(pattern) /\ MaxNest \in Nat /\ NoBar(pattern)
    BY CallRight, MatchAssumption DEF Single
  <2>2. Wildcards(pattern) < MaxNest
    BY <2>1, SingleAlternative DEF UnderLimit
  <2>3. At(pattern, 1) = "/"
    BY <2>1, StartsHavePieces DEF isrecursive
  <2>4. PICK k \in 2 .. Len(pathname) : pathname[k] = "/" /\ dir = SubSeq(pathname, 1, k - 1)
    BY DEF Ancestors
  <2> QED
    BY <2>1, <2>2, <2>3, <2>4, DescentLeads
<1> QED
  BY <1>1, CallInvariant, PTL

=============================================================================
