----------------------------- MODULE MatchCall -----------------------------
(***************************************************************************)
(* One call of match_pathname: a behaviour takes a pathname and a pattern  *)
(* and lets it decide.                                                     *)
(*                                                                         *)
(* Pathnames are what search_directory passes, ds->path + ds->base, with a *)
(* '/' before the first component: only below the root, whose own path     *)
(* ends in one, that '/' is missing.  Patterns have no empty alternative.  *)
(***************************************************************************)
EXTENDS MatchPathname

CONSTANTS Pathnames, Patterns

ASSUME MatchAssumption ==
  /\ MaxNest \in Nat
  /\ \A s \in Pathnames : IsPathname(s)
  /\ \A t \in Patterns : IsPattern(t)

VARIABLES pathname, pattern, verdict

vars == <<pathname, pattern, verdict>>

Init == pathname \in Pathnames /\ pattern \in Patterns /\ verdict = "none"

Decide ==
  /\ verdict = "none"
  /\ verdict' = match_pathname(pathname, pattern)
  /\ UNCHANGED <<pathname, pattern>>

Spec == Init /\ [][Decide]_vars

-----------------------------------------------------------------------------
Decided == verdict # "none"
Single == NoBar(pattern)
UnderLimit == \A alt \in Alternatives(pattern) : Wildcards(alt) < MaxNest

\* With one alternative and less wildcards than the nesting limit, the
\* backtracking of __match_pathname decides exactly the pattern's language:
\* neither a match nor a directory on the way to one is missed or made up,
\* at whatever boundary of the pathname it starts.  The language is that of
\* Moves, in which "?" may match nothing and "[" matches nothing; what is
\* shown is that the search through it, with its first answer, is complete.
ExactForOneAlternative ==
  Decided /\ Single /\ UnderLimit => verdict = RefVerdict(pathname, pattern)

\* With several alternatives match_pathname still never reports a pathname
\* no alternative matches, fails only when all do, and never gives up.  The
\* bar between two of them would match a bar in a file name, though.
SoundForAlternatives ==
  Decided /\ UnderLimit /\ (NoBar(pathname) \/ Single) =>
    LET each == {RefVerdict(pathname, alt) : alt \in Alternatives(pattern)}
    IN  verdict \in each /\ (verdict = FAILURE => each = {FAILURE})

\* A pattern that is not recursive is searched only below directories with a
\* PARTIAL verdict.  That never hides a match of the one alternative that
\* starts at the top directory: every directory on the way is PARTIAL.
DescentReaches ==
  Decided /\ Single /\ UnderLimit /\ ~ isrecursive(pattern) /\ Matches(pathname, pattern, 1) =>
    \A dir \in Ancestors(pathname) : match_pathname(dir, pattern) = PARTIAL

\* Past the limit the matcher may give up, but an answer it does give for
\* one alternative is the right one, and a failure is never wrong.
LimitIsSafe ==
  Decided /\ Single /\ verdict # OVERFLOW => verdict = RefVerdict(pathname, pattern)

\* '|' joins patterns: a pathname matches if one of the alternatives does.
AlternativesJoin ==
  Decided /\ UnderLimit /\ NoBar(pathname) =>
    (verdict = SUCCESS <=> \E alt \in Alternatives(pattern) : RefVerdict(pathname, alt) = SUCCESS)

=============================================================================
