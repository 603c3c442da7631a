--------------------------- MODULE RwVerifyProofs ---------------------------
(***************************************************************************)
(* What the words of linux/fs/read_write.c compute, for every width and    *)
(* every MAX_RW_COUNT: the conversions, the addition that wraps, and the   *)
(* range tests of rw_verify_area, which with their mixed and wrapped       *)
(* comparisons refuse exactly the ranges that are not addressable.         *)
(***************************************************************************)
EXTENDS RwVerify, Sequences, WellFoundedInduction, TLAPS

-----------------------------------------------------------------------------
(***************************************************************************)
(* Induction over numbers.  The library's rules take an operator, which    *)
(* the provers cannot instantiate; here a set of numbers that has 0 and    *)
(* with every number the next one has all of them, since otherwise there   *)
(* is a least number that it lacks.                                        *)
(***************************************************************************)
\* Every set of natural numbers that is not empty has a least element.
LEMMA LeastNat ==
  ASSUME NEW T \in SUBSET Nat, T # {}
  PROVE  \E x \in T : \A y \in T : x <= y
<1>1. PICK x \in T : \A y \in T : ~ (<<y, x>> \in OpToRel(<, Nat))
  BY NatLessThanWellFounded, WFMin
<1>2. \A y \in T : ~ (y < x)
  BY <1>1 DEF OpToRel
<1> QED
  BY <1>2

\* Induction: what holds of 0 and goes from n to n + 1 holds of all numbers.
LEMMA NatUp ==
  ASSUME NEW S, 0 \in S, \A n \in Nat : n \in S => n + 1 \in S
  PROVE  Nat \subseteq S
<1> SUFFICES ASSUME Nat \ S # {} PROVE FALSE
  OBVIOUS
<1>1. PICK x \in Nat \ S : \A y \in Nat \ S : x <= y
  BY LeastNat
<1>2. x # 0 /\ x - 1 \in Nat /\ x - 1 \in S
  BY <1>1
<1> QED
  BY <1>1, <1>2

-----------------------------------------------------------------------------
\* The partial sums of a sequence, and what the sum of the first i is.
Sums(s) == LET sum[k \in 0 .. Len(s)] == IF k = 0 THEN 0 ELSE sum[k - 1] + s[k] IN sum

AreSums(g, s, n) == g = [k \in 0 .. n |-> IF k = 0 THEN 0 ELSE g[k - 1] + s[k]]

LEMMA SumsExist ==
  ASSUME NEW s
  PROVE  \A n \in Nat : \E g : AreSums(g, s, n)
<1> DEFINE S == {n \in Nat : \E g : AreSums(g, s, n)}
<1>1. 0 \in S
  <2>1. AreSums([k \in 0 .. 0 |-> 0], s, 0)
    BY DEF AreSums
  <2> QED
    BY <2>1
<1>2. ASSUME NEW n \in Nat, n \in S PROVE n + 1 \in S
  <2>1. PICK g : AreSums(g, s, n)
    BY <1>2
  <2> DEFINE h == [k \in 0 .. n + 1 |-> IF k = n + 1 THEN g[n] + s[n + 1] ELSE g[k]]
  <2>2. AreSums(h, s, n + 1)
    BY <2>1 DEF AreSums
  <2> QED
    BY <2>2
<1>3. Nat \subseteq S
  <2> HIDE DEF S
  <2> QED
    BY <1>1, <1>2, NatUp
<1> QED
  BY <1>3

LEMMA SumsUnfold ==
  ASSUME NEW s, Len(s) \in Nat
  PROVE  /\ Sums(s)[0] = 0
         /\ \A k \in 1 .. Len(s) : Sums(s)[k] = Sums(s)[k - 1] + s[k]
<1>1. AreSums(Sums(s), s, Len(s))
  BY SumsExist DEF AreSums, Sums
<1> QED
  BY <1>1 DEF AreSums

\* The sums are natural numbers and grow.
LEMMA SumsNat ==
  ASSUME NEW s \in Seq(Nat)
  PROVE  \A k \in 0 .. Len(s) : Sums(s)[k] \in Nat
<1> DEFINE S == {n \in Nat : n <= Len(s) => Sums(s)[n] \in Nat}
<1>1. Len(s) \in Nat /\ \A k \in 1 .. Len(s) : s[k] \in Nat
  OBVIOUS
<1>2. 0 \in S
  BY <1>1, SumsUnfold
<1>3. ASSUME NEW n \in Nat, n \in S PROVE n + 1 \in S
  <2> SUFFICES ASSUME n + 1 <= Len(s) PROVE Sums(s)[n + 1] \in Nat
    OBVIOUS
  <2>1. n + 1 \in 1 .. Len(s) /\ (n + 1) - 1 = n /\ Sums(s)[n] \in Nat
    BY <1>1, <1>3
  <2>2. Sums(s)[n + 1] = Sums(s)[n] + s[n + 1]
    BY <1>1, <2>1, SumsUnfold
  <2> QED
    BY <1>1, <2>1, <2>2
<1>4. Nat \subseteq S
  <2> HIDE DEF S
  <2> QED
    BY <1>2, <1>3, NatUp
<1> QED
  BY <1>1, <1>4

LEMMA SumsGrow ==
  ASSUME NEW s \in Seq(Nat), NEW i \in 0 .. Len(s), NEW j \in i .. Len(s)
  PROVE  Sums(s)[i] <= Sums(s)[j]
<1> DEFINE S == {n \in Nat : i + n <= Len(s) => Sums(s)[i] <= Sums(s)[i + n]}
<1>1. Len(s) \in Nat /\ i \in Nat /\ (\A k \in 1 .. Len(s) : s[k] \in Nat)
      /\ \A k \in 0 .. Len(s) : Sums(s)[k] \in Nat
  BY SumsNat
<1>2. 0 \in S
  <2>1. i + 0 = i /\ Sums(s)[i] \in Nat
    BY <1>1
  <2> QED
    BY <2>1
<1>3. ASSUME NEW n \in Nat, n \in S PROVE n + 1 \in S
  <2> DEFINE m == i + n
  <2> SUFFICES ASSUME m + 1 <= Len(s) PROVE Sums(s)[i] <= Sums(s)[m + 1]
    <3>1. i + (n + 1) = m + 1
      BY <1>1
    <3> QED
      BY <3>1
  <2>1. Sums(s)[i] <= Sums(s)[m] /\ m \in Nat
    BY <1>1, <1>3
  <2> HIDE DEF m
  <2>2. Sums(s)[m + 1] = Sums(s)[m] + s[m + 1]
    <3>1. m + 1 \in 1 .. Len(s) /\ (m + 1) - 1 = m
      BY <1>1, <2>1
    <3> QED
      BY <1>1, <3>1, SumsUnfold
  <2>3. Sums(s)[m] \in Nat /\ s[m + 1] \in Nat /\ Sums(s)[i] \in Nat
    BY <1>1, <2>1
  <2> QED
    BY <2>1, <2>2, <2>3
<1>4. Nat \subseteq S
  <2> HIDE DEF S
  <2> QED
    BY <1>2, <1>3, NatUp
<1>5. PICK d \in Nat : i + d = j
  <2>1. j - i \in Nat /\ i + (j - i) = j
    BY <1>1
  <2> QED
    BY <2>1
<1>6. d \in S
  BY <1>4
<1>7. i + d <= Len(s)
  BY <1>1, <1>5
<1> QED
  BY <1>5, <1>6, <1>7

\* Sequences that agree up to i have the same sum up to i.
LEMMA SumsSame ==
  ASSUME NEW s, NEW t, Len(s) \in Nat, Len(t) \in Nat,
         NEW i \in 0 .. Len(s), i <= Len(t), \A k \in 1 .. i : s[k] = t[k]
  PROVE  Sums(s)[i] = Sums(t)[i]
<1> DEFINE S == {n \in Nat : n <= i => Sums(s)[n] = Sums(t)[n]}
<1>1. 0 \in S
  BY SumsUnfold
<1>2. ASSUME NEW n \in Nat, n \in S PROVE n + 1 \in S
  <2> SUFFICES ASSUME n + 1 <= i PROVE Sums(s)[n + 1] = Sums(t)[n + 1]
    OBVIOUS
  <2>1. /\ n + 1 \in 1 .. Len(s) /\ n + 1 \in 1 .. Len(t) /\ (n + 1) - 1 = n
        /\ Sums(s)[n] = Sums(t)[n] /\ s[n + 1] = t[n + 1]
    BY <1>2
  <2>2. Sums(s)[n + 1] = Sums(s)[n] + s[n + 1] /\ Sums(t)[n + 1] = Sums(t)[n] + t[n + 1]
    BY <2>1, SumsUnfold
  <2> QED
    BY <2>1, <2>2
<1>3. Nat \subseteq S
  <2> HIDE DEF S
  <2> QED
    BY <1>1, <1>2, NatUp
<1> QED
  BY <1>3

\* Behind i nothing is added when the rest is zero.
LEMMA SumsEnd ==
  ASSUME NEW s \in Seq(Nat), NEW i \in 0 .. Len(s), \A k \in i + 1 .. Len(s) : s[k] = 0
  PROVE  Sums(s)[Len(s)] = Sums(s)[i]
<1> DEFINE S == {n \in Nat : i + n <= Len(s) => Sums(s)[i + n] = Sums(s)[i]}
<1>1. Len(s) \in Nat /\ i \in Nat /\ \A k \in 0 .. Len(s) : Sums(s)[k] \in Nat
  BY SumsNat
<1>2. 0 \in S
  <2>1. i + 0 = i
    BY <1>1
  <2> QED
    BY <2>1
<1>3. ASSUME NEW n \in Nat, n \in S PROVE n + 1 \in S
  <2> DEFINE m == i + n
  <2> SUFFICES ASSUME m + 1 <= Len(s) PROVE Sums(s)[m + 1] = Sums(s)[i]
    <3>1. i + (n + 1) = m + 1
      BY <1>1
    <3> QED
      BY <3>1
  <2>1. Sums(s)[m] = Sums(s)[i] /\ m \in Nat /\ m >= i
    BY <1>1, <1>3
  <2> HIDE DEF m
  <2>2. Sums(s)[m + 1] = Sums(s)[m] + s[m + 1] /\ s[m + 1] = 0
    <3>1. m + 1 \in 1 .. Len(s) /\ (m + 1) - 1 = m /\ m + 1 \in i + 1 .. Len(s)
      BY <1>1, <2>1
    <3> QED
      BY <1>1, <3>1, SumsUnfold
  <2> QED
    BY <1>1, <2>1, <2>2
<1>4. Nat \subseteq S
  <2> HIDE DEF S
  <2> QED
    BY <1>2, <1>3, NatUp
<1>5. PICK d \in Nat : i + d = Len(s)
  <2>1. Len(s) - i \in Nat /\ i + (Len(s) - i) = Len(s)
    BY <1>1
  <2> QED
    BY <2>1
<1>6. d \in S
  BY <1>4
<1>7. i + d <= Len(s)
  BY <1>1, <1>5
<1> QED
  BY <1>5, <1>6, <1>7

\* The conversion to a signed word keeps what fits and wraps the rest once.
LEMMA SignedValue ==
  ASSUME NEW x \in Int, -Half <= x, x < 2 * Half
  PROVE  Signed(x) = IF x < Half THEN x ELSE x - 2 * Half
<1> DEFINE n == 2 * Half
           a == x + Half
<1>1. n \in Nat \ {0} /\ a \in Int /\ Half \in Nat \ {0}
  BY RwAssumption
<1>2. CASE x < Half
  <2>1. 0 <= a /\ a < n
    BY <1>1, <1>2
  <2>2. a % n = a
    BY <1>1, <2>1
  <2> QED
    BY <1>1, <1>2, <2>2 DEF Signed
<1>3. CASE ~ (x < Half)
  <2>1. n <= a /\ a < 2 * n
    BY <1>1, <1>3
  <2>2. a % n = a - n
    BY <1>1, <2>1
  <2> QED
    BY <1>1, <1>3, <2>2 DEF Signed
<1> QED
  BY <1>2, <1>3

\* The conversion to an unsigned word moves the negative words to the top.
LEMMA UnsignedValue ==
  ASSUME NEW x \in Int, -2 * Half <= x, x < 2 * Half
  PROVE  Unsigned(x) = IF x < 0 THEN x + 2 * Half ELSE x
<1> DEFINE n == 2 * Half
<1>1. n \in Nat \ {0} /\ x \in Int
  BY RwAssumption
<1>2. CASE x < 0
  <2>1. -n <= x
    BY <1>1, RwAssumption
  <2>2. x % n = x + n
    BY <1>1, <1>2, <2>1
  <2> QED
    BY <1>2, <2>2 DEF Unsigned
<1>3. CASE ~ (x < 0)
  <2>1. x % n = x
    BY <1>1, <1>3
  <2> QED
    BY <1>3, <2>1 DEF Unsigned
<1> QED
  BY <1>2, <1>3

\* The range tests of rw_verify_area are exact: a count that is no negative
\* ssize_t is refused if and only if the range is not addressable.
THEOREM RangeErrorExact ==
  ASSUME NEW unsig \in BOOLEAN, NEW p \in loff_t, NEW count \in 0 .. Half - 1
  PROVE  /\ RangeError(unsig, p, count) \in {0, EINVAL, EOVERFLOW}
         /\ RangeError(unsig, p, count) = 0 <=> Addressable(unsig, p, count)
<1>1. Half \in Nat \ {0} /\ p \in Int /\ -Half <= p /\ p < Half /\ count \in Nat /\ count < Half
  BY RwAssumption DEF loff_t
<1>2. EINVAL = -22 /\ EOVERFLOW = -75
  BY DEF EINVAL, EOVERFLOW
<1>3. CASE p < 0
  <2>1. -p \in Int /\ -2 * Half <= -p /\ -p < 2 * Half /\ ~ (-p < 0)
    BY <1>1, <1>3
  <2>2. Unsigned(-p) = -p
    BY <2>1, UnsignedValue
  <2>3. Unsigned(p) = p + 2 * Half
    <3>1. -2 * Half <= p /\ p < 2 * Half
      BY <1>1
    <3> QED
      BY <1>1, <1>3, <3>1, UnsignedValue
  <2>4. CASE unsig
    <3>1. RangeError(unsig, p, count) = IF count >= -p THEN EOVERFLOW ELSE 0
      BY <1>3, <2>2, <2>4 DEF RangeError
    <3>2. Addressable(unsig, p, count) <=> count < -p
      BY <1>1, <2>3, <2>4 DEF Addressable
    <3> QED
      BY <1>1, <1>2, <3>1, <3>2
  <2>5. CASE ~ unsig
    <3>1. RangeError(unsig, p, count) = EINVAL /\ ~ Addressable(unsig, p, count)
      BY <1>1, <1>3, <2>5 DEF RangeError, Addressable
    <3> QED
      BY <1>2, <3>1
  <2> QED
    BY <2>4, <2>5
<1>4. CASE ~ (p < 0)
  <2> DEFINE end == p + count
  <2>1. end \in Int /\ -Half <= end /\ end < 2 * Half
    BY <1>1, <1>4
  <2>2. Unsigned(p) = p
    <3>1. -2 * Half <= p /\ p < 2 * Half
      BY <1>1
    <3> QED
      BY <1>1, <1>4, <3>1, UnsignedValue
  <2>3. Signed(end) < 0 <=> ~ (end < Half)
    <3> HIDE DEF end
    <3>1. Signed(end) = IF end < Half THEN end ELSE end - 2 * Half
      BY <2>1, SignedValue
    <3>2. 0 <= end
      BY <1>1, <1>4 DEF end
    <3> QED
      BY <1>1, <2>1, <3>1, <3>2
  <2>4. RangeError(unsig, p, count) = IF ~ (end < Half) /\ ~ unsig THEN EINVAL ELSE 0
    BY <1>4, <2>3 DEF RangeError
  <2>5. Addressable(unsig, p, count) <=> (unsig \/ end < Half)
    BY <1>1, <1>4, <2>1, <2>2 DEF Addressable
  <2> HIDE DEF end
  <2> QED
    BY <1>2, <2>4, <2>5
<1> QED
  BY <1>3, <1>4

\* What rw_verify_area makes of a length that is within the limit.
LEMMA VerifyExact ==
  ASSUME NEW unsig \in BOOLEAN, NEW p \in loff_t, NEW count \in 1 .. MAX_RW_COUNT,
         NEW v \in VerifyOutcomes(unsig, p, count)
  PROVE  /\ ~ (v < 0) => Addressable(unsig, p, count)
         /\ v \in {EINVAL, EOVERFLOW} => ~ Addressable(unsig, p, count)
<1> DEFINE e == RangeError(unsig, p, count)
           w == rw_verify_area(unsig, p, count)
<1>1. count \in 0 .. Half - 1 /\ count \in Int /\ -Half <= count /\ count < 2 * Half /\ count < Half
  BY RwAssumption
<1>2. Signed(count) = count /\ ~ (Signed(count) < 0) /\ Signed(count) >= 0
  BY <1>1, SignedValue
<1>3. e \in {0, EINVAL, EOVERFLOW} /\ (e = 0 <=> Addressable(unsig, p, count))
  BY <1>1, RangeErrorExact
<1>4. EINVAL = -22 /\ EOVERFLOW = -75 /\ EACCES = -13
  BY DEF EINVAL, EOVERFLOW, EACCES
<1>5. w = IF e < 0 THEN e ELSE count
  <2> HIDE DEF e
  <2>1. ~ (count > MAX_RW_COUNT)
    BY RwAssumption
  <2> QED
    BY <1>2, <1>3, <1>4, <2>1 DEF rw_verify_area, e
<1>6. v = w \/ (v = EACCES /\ ~ (w < 0))
  BY DEF VerifyOutcomes
<1> HIDE DEF e, w
<1> QED
  BY <1>1, <1>3, <1>4, <1>5, <1>6

LEMMA VerifyInt ==
  ASSUME NEW unsig \in BOOLEAN, NEW p \in loff_t, NEW count \in Int
  PROVE  VerifyOutcomes(unsig, p, count) \subseteq Int
<1>1. MAX_RW_COUNT \in Int
  BY RwAssumption
<1>2. RangeError(unsig, p, count) \in Int
  BY DEF RangeError, EINVAL, EOVERFLOW
<1>3. rw_verify_area(unsig, p, count) \in Int
  BY <1>1, <1>2 DEF rw_verify_area, EINVAL
<1> QED
  BY <1>3 DEF VerifyOutcomes, EACCES

\* A shorter range from the same start is addressable too.
LEMMA ShorterAddressable ==
  ASSUME NEW u \in BOOLEAN, NEW s \in loff_t, NEW m \in Nat, NEW n \in Nat, m <= n,
         Addressable(u, s, n)
  PROVE  Addressable(u, s, m)
<1>1. s \in Int /\ Unsigned(s) \in Int /\ Half \in Int
  BY RwAssumption DEF loff_t, Unsigned
<1> QED
  BY <1>1 DEF Addressable

\* The position after a step of the transfer, as long as the end of the
\* transfer is addressable: it does not wrap.
LEMMA MovedOn ==
  ASSUME NEW u \in BOOLEAN, NEW s \in loff_t, NEW total \in 0 .. MAX_RW_COUNT,
         Addressable(u, s, total),
         NEW p \in loff_t, NEW r \in Nat, NEW n \in Nat, r + n <= total,
         IF u THEN Unsigned(p) = Unsigned(s) + r ELSE p = s + r
  PROVE  /\ Signed(p + n) \in loff_t
         /\ IF u THEN Unsigned(Signed(p + n)) = Unsigned(s) + (r + n)
                 ELSE Signed(p + n) = s + (r + n)
<1> DEFINE e == p + n
           w == Signed(e)
<1>1. /\ Half \in Nat \ {0} /\ MAX_RW_COUNT \in Nat /\ MAX_RW_COUNT < Half
      /\ p \in Int /\ -Half <= p /\ p < Half /\ s \in Int /\ -Half <= s /\ s < Half
      /\ total \in Nat /\ total < Half
  BY RwAssumption DEF loff_t
<1>2. n < Half /\ e \in Int /\ -Half <= e /\ e < 2 * Half
  BY <1>1
<1>3. w = IF e < Half THEN e ELSE e - 2 * Half
  <2> HIDE DEF e
  <2> QED
    BY <1>2, SignedValue
<1>4. w \in loff_t
  <2> HIDE DEF e, w
  <2> QED
    BY <1>1, <1>2, <1>3 DEF loff_t
<1>5. CASE ~ u
  <2>1. s >= 0 /\ s + total < Half /\ p = s + r
    BY <1>5 DEF Addressable
  <2>2. e = s + (r + n) /\ e < Half
    BY <1>1, <2>1
  <2> HIDE DEF e, w
  <2>3. w = s + (r + n)
    BY <1>3, <2>2
  <2> QED
    BY <1>4, <1>5, <2>3 DEF w, e
<1>6. CASE u
  <2> DEFINE b == Unsigned(s)
  <2>1. b + total < 2 * Half /\ Unsigned(p) = b + r
    BY <1>6 DEF Addressable
  <2>2. b \in Nat
    BY <1>1 DEF Unsigned
  <2> HIDE DEF b
  <2>3. Unsigned(p) = IF p < 0 THEN p + 2 * Half ELSE p
    <3>1. -2 * Half <= p /\ p < 2 * Half
      BY <1>1
    <3> QED
      BY <1>1, <3>1, UnsignedValue
  <2>4. w \in Int /\ -2 * Half <= w /\ w < 2 * Half
    <3>1. w \in Int /\ -Half <= w /\ w < Half
      BY <1>1, <1>4 DEF loff_t
    <3> HIDE DEF w
    <3> QED
      BY <1>1, <3>1
  <2>5. Unsigned(w) = IF w < 0 THEN w + 2 * Half ELSE w
    <3> HIDE DEF w
    <3> QED
      BY <2>4, UnsignedValue
  <2>6. e = p + n
    OBVIOUS
  <2> HIDE DEF e, w
  <2>7. Unsigned(w) = b + (r + n)
    <3>1. CASE p < 0
      <4>1. p + 2 * Half = b + r /\ e < 0
        BY <1>1, <2>1, <2>2, <2>3, <2>6, <3>1
      <4>2. w = e
        BY <1>1, <1>2, <1>3, <4>1
      <4> QED
        BY <1>1, <2>2, <2>5, <2>6, <4>1, <4>2
    <3>2. CASE ~ (p < 0)
      <4>1. p = b + r /\ 0 <= e
        BY <1>1, <2>1, <2>2, <2>3, <2>6, <3>2
      <4>2. Unsigned(w) = e
        BY <1>1, <1>2, <1>3, <2>5, <4>1
      <4> QED
        BY <1>1, <2>2, <2>6, <4>1, <4>2
    <3> QED
      BY <3>1, <3>2
  <2> QED
    BY <1>4, <1>6, <2>7 DEF w, e, b
<1> QED
  BY <1>5, <1>6

\* rw_verify_area for every count the system calls can pass: a result that is
\* no error is a count within the limit, and the whole range is addressable.
Verified(unsig, p, count, v) ==
  /\ v \in Int
  /\ ~ (v < 0) => /\ v \in Nat /\ v <= MAX_RW_COUNT
                  /\ v = IF count > MAX_RW_COUNT THEN MAX_RW_COUNT ELSE count
                  /\ Addressable(unsig, p, count) /\ Addressable(unsig, p, v)

LEMMA VerifyRange ==
  ASSUME NEW unsig \in BOOLEAN, NEW p \in loff_t, NEW count \in size_t,
         NEW v \in VerifyOutcomes(unsig, p, count)
  PROVE  Verified(unsig, p, count, v)
<1> DEFINE e == RangeError(unsig, p, count)
           w == rw_verify_area(unsig, p, count)
<1>1. /\ Half \in Nat \ {0} /\ MAX_RW_COUNT \in Nat /\ MAX_RW_COUNT < Half /\ MAX_RW_COUNT > 0
      /\ count \in Nat /\ count < 2 * Half /\ count \in Int /\ -Half <= count
  BY RwAssumption DEF size_t
<1>2. Signed(count) = IF count < Half THEN count ELSE count - 2 * Half
  BY <1>1, SignedValue
<1>3. EINVAL = -22 /\ EOVERFLOW = -75 /\ EACCES = -13
  BY DEF EINVAL, EOVERFLOW, EACCES
<1>4. v = w \/ (v = EACCES /\ ~ (w < 0))
  BY DEF VerifyOutcomes
<1>5. CASE ~ (count < Half)
  <2>1. Signed(count) < 0 /\ ~ (Signed(count) >= 0)
    BY <1>1, <1>2, <1>5
  <2>2. w = EINVAL
    BY <2>1 DEF rw_verify_area
  <2> HIDE DEF w
  <2> QED
    BY <1>3, <1>4, <2>2 DEF Verified
<1>6. CASE count < Half
  <2>1. count \in 0 .. Half - 1 /\ ~ (Signed(count) < 0) /\ Signed(count) >= 0
    BY <1>1, <1>2, <1>6
  <2>2. e \in {0, EINVAL, EOVERFLOW} /\ (e = 0 <=> Addressable(unsig, p, count))
    BY <2>1, RangeErrorExact
  <2>3. w = IF e < 0 THEN e ELSE IF count > MAX_RW_COUNT THEN MAX_RW_COUNT ELSE count
    BY <2>1 DEF rw_verify_area
  <2>4. CASE v < 0
    <3> HIDE DEF e, w
    <3> QED
      BY <1>1, <1>3, <1>4, <2>2, <2>3, <2>4 DEF Verified
  <2>5. CASE ~ (v < 0)
    <3>1. ~ (e < 0) /\ v = IF count > MAX_RW_COUNT THEN MAX_RW_COUNT ELSE count
      <4> HIDE DEF e, w
      <4> QED
        BY <1>1, <1>3, <1>4, <2>2, <2>3, <2>5
    <3>2. v \in Nat /\ v <= MAX_RW_COUNT /\ v <= count
      BY <1>1, <3>1
    <3>3. Addressable(unsig, p, count)
      <4> HIDE DEF e
      <4> QED
        BY <1>3, <2>2, <3>1
    <3>4. Addressable(unsig, p, v)
      BY <1>1, <3>2, <3>3, ShorterAddressable
    <3> QED
      BY <1>1, <3>1, <3>2, <3>3, <3>4 DEF Verified
  <2> QED
    BY <2>4, <2>5
<1> QED
  BY <1>5, <1>6

-----------------------------------------------------------------------------
\* Division with remainder, and that it is unique.
LEMMA DivMod ==
  ASSUME NEW a \in Int, NEW n \in Nat \ {0}
  PROVE  a % n \in 0 .. n - 1 /\ a \div n \in Int /\ a = n * (a \div n) + (a % n)
  OBVIOUS

LEMMA ModUnique ==
  ASSUME NEW n \in Nat \ {0}, NEW q \in Int, NEW r \in 0 .. n - 1, NEW a \in Int, a = n * q + r
  PROVE  a % n = r
<1> DEFINE q2 == a \div n
           r2 == a % n
<1>1. a = n * q2 + r2 /\ q2 \in Int /\ r2 \in 0 .. n - 1
  BY DivMod
<1> HIDE DEF q2, r2
<1>2. n * (q - q2) = r2 - r
  BY <1>1
<1>3. q = q2
  <2>1. CASE q > q2
    <3>1. n * (q - q2) >= n
      BY <1>1, <2>1
    <3> QED
      BY <1>1, <1>2, <3>1
  <2>2. CASE q < q2
    <3>1. n * (q - q2) <= -n
      BY <1>1, <2>2
    <3> QED
      BY <1>1, <1>2, <3>1
  <2> QED
    BY <1>1, <2>1, <2>2
<1> QED
  BY <1>1, <1>3 DEF r2

LEMMA ModAdd ==
  ASSUME NEW n \in Nat \ {0}, NEW a \in Int, NEW b \in Int
  PROVE  ((a % n) + b) % n = (a + b) % n
<1> DEFINE q == a \div n
           r == a % n
           c == r + b
           p == c \div n
           s == c % n
<1>1. a = n * q + r /\ q \in Int /\ r \in Int
  BY DivMod
<1> HIDE DEF q, r
<1>2. c \in Int
  BY <1>1
<1>3. c = n * p + s /\ p \in Int /\ s \in 0 .. n - 1
  <2> HIDE DEF c
  <2> QED
    BY <1>2, DivMod
<1>4. c = r + b
  OBVIOUS
<1> HIDE DEF p, s, c
<1>5. n * (q + p) = n * q + n * p
  BY <1>1, <1>3
<1>6. n * q \in Int /\ n * p \in Int /\ s \in Int
  BY <1>1, <1>3
<1>7. a + b = n * (q + p) + s
  BY <1>1, <1>3, <1>4, <1>5, <1>6
<1>8. a + b \in Int /\ q + p \in Int
  BY <1>1, <1>3
<1> DEFINE d == a + b
           e == q + p
<1>9. d \in Int /\ e \in Int /\ d = n * e + s
  BY <1>7, <1>8
<1>10. d % n = s
  <2> HIDE DEF d, e
  <2> QED
    BY <1>3, <1>9, ModUnique
<1> QED
  BY <1>10 DEF s, c, r

\* A signed word is one, whatever was computed.
LEMMA SignedWord ==
  ASSUME NEW x \in Int
  PROVE  Signed(x) \in loff_t /\ Signed(x) \in Int
<1> DEFINE n == 2 * Half
           a == x + Half
<1>1. n \in Nat \ {0} /\ a \in Int /\ Half \in Nat \ {0}
  BY RwAssumption
<1>2. a % n \in 0 .. n - 1
  <2> HIDE DEF n, a
  <2> QED
    BY <1>1, DivMod
<1> QED
  BY <1>1, <1>2 DEF Signed, loff_t

\* Words that are added wrap once, wherever the parts wrapped.
LEMMA SignedAdd ==
  ASSUME NEW x \in Int, NEW y \in Int
  PROVE  Signed(Signed(x) + y) = Signed(x + y)
<1> DEFINE n == 2 * Half
           a == x + Half
           r == a % n
<1>1. n \in Nat \ {0} /\ a \in Int /\ Half \in Nat \ {0}
  BY RwAssumption
<1>2. r \in Int
  <2> HIDE DEF n, a
  <2> QED
    BY <1>1, DivMod
<1>3. (r + y) % n = (a + y) % n
  <2> HIDE DEF n, a
  <2> QED
    BY <1>1, ModAdd
<1>4. Signed(x) = r - Half
  BY DEF Signed
<1> HIDE DEF r
<1>5. ((r - Half) + y) + Half = r + y
  BY <1>1, <1>2
<1>6. (x + y) + Half = a + y
  BY <1>1
<1>7. Signed(Signed(x) + y) = ((r + y) % n) - Half
  BY <1>4, <1>5 DEF Signed
<1>8. Signed(x + y) = ((a + y) % n) - Half
  BY <1>6 DEF Signed
<1> QED
  BY <1>3, <1>7, <1>8

=============================================================================
