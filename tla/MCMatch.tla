------------------------------ MODULE MCMatch ------------------------------
(***************************************************************************)
(* MatchCall on all pathnames and patterns up to a length.                 *)
(***************************************************************************)
EXTENDS MatchCall, SequencesExt

CONSTANTS
  PathLen,    \* bound on the characters of a pathname
  PattLen,    \* bound on the characters of a pattern
  NameChars   \* characters of component names

\* The name of a file may hold a bar; a component is never empty.
MCPathnames ==
  {s \in BoundedSeq({"/"} \cup NameChars, PathLen) :
     IsPathname(s) /\ \A k \in DOMAIN s : s[k] = "/" => At(s, k + 1) \notin {"/", NUL}}
  \cup {<<"/", "|">>, <<"/", "a", "|", "b">>, <<"/", "|", "/", "a">>}

MCPatterns ==
  {s \in BoundedSeq({"/", "|", "*", "?"} \cup NameChars, PattLen) : IsPattern(s)}

=============================================================================
