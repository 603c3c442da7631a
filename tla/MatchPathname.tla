--------------------------- MODULE MatchPathname ---------------------------
(***************************************************************************)
(* The pattern matcher of the search system call (linux/fs/read_write.c):  *)
(* ispattern, isrecursive, __match_pathname and match_pathname.            *)
(*                                                                         *)
(* A string is a sequence of characters; At(s, i) is its i-th character or *)
(* the NUL behind the last one.  Patterns are not empty, getname refuses   *)
(* the empty string, and do not end in a bar: strchrskip(patt+1, '|') then *)
(* starts behind the NUL.  The reference at the end of the module is for   *)
(* patterns without any empty alternative.                                 *)
(***************************************************************************)
EXTENDS Integers, Sequences, FiniteSetsExt

CONSTANT MaxNest   \* the bound on n in __match_pathname, 8 in the code

FAILURE  == "FAILURE"
PARTIAL  == "PARTIAL"
SUCCESS  == "SUCCESS"
OVERFLOW == "OVERFLOW"
Verdicts == {FAILURE, PARTIAL, SUCCESS, OVERFLOW}

NUL == "NUL"
At(s, i) == IF i \in DOMAIN s THEN s[i] ELSE NUL
is_filename(c) == c # "/" /\ c # NUL

\* The first position from i on that a component name cannot cross.
ComponentEnd(s, i) == Min({k \in i .. Len(s) + 1 : ~ is_filename(At(s, k))})

-----------------------------------------------------------------------------
(***************************************************************************)
(* The starts of the alternatives as the loops of match_pathname and       *)
(* isrecursive find them: strchrskip(patt+1, '|') from each one on.        *)
(***************************************************************************)
strchrskip(s, i, c) == {k + 1 : k \in {k \in i .. Len(s) : s[k] = c}}

AlternativeStarts(pattern) ==
  LET Starts[p \in 1 .. Len(pattern) + 1] ==
        LET after == strchrskip(pattern, p + 1, "|")
        IN  IF after = {} THEN {p} ELSE {p} \cup Starts[Min(after)]
  IN  Starts[1]

ispattern(pattern) ==
  \/ pattern[1] # "/"
  \/ \E i \in DOMAIN pattern : pattern[i] \in {"*", "?", "|"}

isrecursive(pattern) == \E p \in AlternativeStarts(pattern) : At(pattern, p) # "/"

(***************************************************************************)
(* __match_pathname(n, pathname + i, pattern + j): one loop over the       *)
(* pattern, with a nested call for every '*' and '?'.                      *)
(***************************************************************************)
\* Variant with a bug: '*' does not take the last character of a component.
StarStopsShort(pathname, i) == i .. ComponentEnd(pathname, i) - 1

\* Where a '*' at position i may end; the do-while tries them from the left.
StarStops(pathname, i) == i .. ComponentEnd(pathname, i)

\* Variant with a bug: the end of the pathname at a '/' is a plain failure.
AtPathEndStrict(p) == IF p \in {NUL, "|"} THEN SUCCESS ELSE FAILURE

\* Variant with a bug: a directory on the way counts as a match.
AtPathEndLoose(p) == IF p \in {NUL, "|", "/"} THEN SUCCESS ELSE FAILURE

\* The pathname is used up and p is the next character of the pattern.
AtPathEnd(p) ==
  CASE p \in {NUL, "|"} -> SUCCESS
    [] p = "/"          -> PARTIAL
    [] OTHER            -> FAILURE

\* What the loop answers at p, the pattern's character behind which later
\* holds the answers for every nesting n and position i.
Answer(pathname, p, later, n, i) ==
  LET c == At(pathname, i)
      hits == {k \in StarStops(pathname, i) : later[n + 1][k] # FAILURE}
  IN  IF n >= MaxNest THEN OVERFLOW
      ELSE IF p = "*" THEN IF hits = {} THEN FAILURE ELSE later[n + 1][Min(hits)]
      ELSE IF p = "?" THEN IF is_filename(c) /\ later[n + 1][i + 1] # FAILURE
                           THEN later[n + 1][i + 1] ELSE later[n][i]
      ELSE IF p = "[" THEN FAILURE
      ELSE IF c = NUL THEN AtPathEnd(p)
      ELSE IF c = p   THEN later[n][i + 1]
      ELSE FAILURE

__match_pathname(pathname, pattern) ==
  LET M[j \in 1 .. Len(pattern) + 1] ==
        [n \in 0 .. MaxNest |-> [i \in 1 .. Len(pathname) + 1 |->
           Answer(pathname, At(pattern, j), M[j + 1], n, i)]]
  IN  M

(***************************************************************************)
(* match_pathname: every component boundary of the pathname, the first     *)
(* position included, against every alternative; the first answer that is  *)
(* not a failure counts.                                                   *)
(***************************************************************************)
\* Variant with a bug: only the whole pathname is tried.
PathStartsBaseOnly(pathname) == {1}

PathStarts(pathname) == {1} \cup {k \in 2 .. Len(pathname) : pathname[k] = "/"}

match_pathname(pathname, pattern) ==
  LET M == __match_pathname(pathname, pattern)
      Try(s, p) == M[p][0][IF At(pattern, p) = "/" THEN s ELSE s + 1]
      hits(s) == {p \in AlternativeStarts(pattern) : Try(s, p) # FAILURE}
      starts == {s \in PathStarts(pathname) : hits(s) # {}}
  IN  IF starts = {} THEN FAILURE ELSE Try(Min(starts), Min(hits(Min(starts))))

-----------------------------------------------------------------------------
\* A path from its first '/' on, and a pattern without an empty alternative.
IsPathname(s) ==
  /\ s \in Seq(STRING) /\ At(s, 1) = "/"
  /\ \A k \in DOMAIN s : s[k] # NUL

IsPattern(t) ==
  /\ t \in Seq(STRING) /\ t # <<>> /\ t[1] # "|"
  /\ \A k \in DOMAIN t : t[k] # NUL /\ (t[k] = "|" => At(t, k + 1) \notin {"|", NUL})

NoBar(s) == \A k \in DOMAIN s : s[k] # "|"

(***************************************************************************)
(* The reference: the language of one alternative, by the set of positions *)
(* its prefixes can reach.  No backtracking, no limit on nesting.          *)
(***************************************************************************)
\* Where p, a character of the pattern, leads from position i, as the code
\* reads it: "?" is at most one character, so that a?b matches ab, and "["
\* matches nothing.  The comment above match_pathname has other words for
\* both, "any char" and "collating".
Moves(pathname, p, i) ==
  CASE p = "*" -> i .. ComponentEnd(pathname, i)
    [] p = "?" -> {i} \cup {k \in {i + 1} : is_filename(At(pathname, i))}
    [] p = "[" -> {}
    [] OTHER   -> {k \in {i + 1} : At(pathname, i) = p}

Reached(pathname, alt, s) ==
  LET R[j \in 0 .. Len(alt)] ==
        IF j = 0 THEN {s} ELSE UNION {Moves(pathname, alt[j], i) : i \in R[j - 1]}
  IN  R

Matches(pathname, alt, s) ==
  Len(pathname) + 1 \in Reached(pathname, alt, s)[Len(alt)]

\* The pathname ends where the alternative goes on with a '/'.
Leads(pathname, alt, s) ==
  \E j \in DOMAIN alt : alt[j] = "/" /\ Len(pathname) + 1 \in Reached(pathname, alt, s)[j - 1]

Boundaries(pathname, alt) ==
  LET slashes == {k \in DOMAIN pathname : pathname[k] = "/"}
  IN  IF alt[1] = "/" THEN slashes ELSE {k + 1 : k \in slashes}

RefVerdict(pathname, alt) ==
  LET b == Boundaries(pathname, alt)
  IN  IF \E s \in b : Matches(pathname, alt, s) THEN SUCCESS
      ELSE IF \E s \in b : Leads(pathname, alt, s) THEN PARTIAL
      ELSE FAILURE

\* The pieces of a pattern between its bars.
Alternatives(pattern) ==
  LET bars == {k \in DOMAIN pattern : pattern[k] = "|"} \cup {0, Len(pattern) + 1}
      EndOf(b) == Min({c \in bars : c > b})
  IN  {SubSeq(pattern, b + 1, EndOf(b) - 1) : b \in bars \ {Len(pattern) + 1}}

Wildcards(alt) == Cardinality({k \in DOMAIN alt : alt[k] \in {"*", "?"}})

\* The directories above pathname, down from the top one.
Ancestors(pathname) ==
  {SubSeq(pathname, 1, k - 1) : k \in {k \in 2 .. Len(pathname) : pathname[k] = "/"}}

=============================================================================
