----------------------------- MODULE DirStream -----------------------------
(***************************************************************************)
(* What reading one directory promises to search_directory: the entries    *)
(* are fetched in the order of their slots, in batches of any size, and    *)
(* each fetched entry is visited once, in that order, while other          *)
(* processes go on creating, unlinking and removing.                       *)
(*                                                                         *)
(* A directory is an array of slots, as on disk: an unlinked entry leaves  *)
(* a hole and a new entry takes a hole.  f_pos is the slot read next.      *)
(***************************************************************************)
EXTENDS Integers, Sequences, FiniteSets

CONSTANTS
  Names,       \* names, as sequences of characters
  DirNames,    \* the ones that are directories
  NSlots,      \* slots of the directory
  MaxChanges   \* bound on what other processes do to it

VARIABLES
  slots,    \* the directory: a name or <<>>, a hole, in every slot
  dead,     \* was the directory removed (IS_DEADDIR)?
  pos,      \* f_pos
  pending,  \* entries fetched and not yet visited
  seen,     \* entries visited, in order
  status,   \* "reading", "ok" or the error that ended the scan
  ever,     \* names that were in the directory at some time of the scan
  touched   \* names created or unlinked during the scan

vars == <<slots, dead, pos, pending, seen, status, ever, touched>>

Hole == <<>>
Slots == 1 .. NSlots
Present == {slots[i] : i \in Slots} \ {Hole}
TypeChar(name) == IF name \in DirNames THEN "d" ELSE "o"
Entry(name) == [type |-> TypeChar(name), name |-> name]

\* Names that stayed in the directory during the whole scan.
Stable == ever \ touched

-----------------------------------------------------------------------------
(***************************************************************************)
(* The other processes, each step under the directory's i_mutex.           *)
(***************************************************************************)
MayChange == ~ dead /\ Cardinality(touched) < MaxChanges

Unlink(i) ==
  /\ MayChange
  /\ slots[i] # Hole
  /\ slots' = [slots EXCEPT ![i] = Hole]
  /\ touched' = touched \cup {slots[i]}
  /\ UNCHANGED <<dead, ever>>

Create(i, name) ==
  /\ MayChange
  /\ slots[i] = Hole
  /\ name \notin Present
  /\ slots' = [slots EXCEPT ![i] = name]
  /\ touched' = touched \cup {name}
  /\ ever' = ever \cup {name}
  /\ UNCHANGED dead

Rmdir ==
  /\ ~ dead
  /\ Present = {}
  /\ dead' = TRUE
  /\ UNCHANGED <<slots, ever, touched>>

Change ==
  \/ \E i \in Slots : Unlink(i) \/ \E name \in Names : Create(i, name)
  \/ Rmdir

\* A directory before the scan: a name is in at most one slot.
InitDir ==
  /\ slots \in {s \in [Slots -> Names \cup {Hole}] :
                  \A i, j \in Slots : s[i] = s[j] /\ s[i] # Hole => i = j}
  /\ dead = FALSE
  /\ ever = Present
  /\ touched = {}

-----------------------------------------------------------------------------
Init ==
  /\ InitDir
  /\ pos = 1
  /\ pending = <<>>
  /\ seen = <<>>
  /\ status = "reading"

Others ==
  /\ Change
  /\ UNCHANGED <<pos, pending, seen, status>>

Fetch ==
  /\ status = "reading"
  /\ pos \in Slots
  /\ pending' = IF slots[pos] = Hole THEN pending ELSE Append(pending, Entry(slots[pos]))
  /\ pos' = pos + 1
  /\ UNCHANGED <<slots, dead, seen, status, ever, touched>>

Visit ==
  /\ status = "reading"
  /\ pending # <<>>
  /\ seen' = Append(seen, Head(pending))
  /\ pending' = Tail(pending)
  /\ UNCHANGED <<slots, dead, pos, status, ever, touched>>

End ==
  /\ status = "reading"
  /\ pos = NSlots + 1
  /\ pending = <<>>
  /\ status' = "ok"
  /\ UNCHANGED <<slots, dead, pos, pending, seen, ever, touched>>

\* The entries fetched by a call that ends in an error are not visited.
Fail ==
  /\ status = "reading"
  /\ status' \in {"ENOENT", "EIO"}
  /\ status' = "ENOENT" => dead /\ pending = <<>>
  /\ pending' = <<>>
  /\ UNCHANGED <<slots, dead, pos, seen, ever, touched>>

Next == Others \/ Fetch \/ Visit \/ End \/ Fail

Spec == Init /\ [][Next]_vars

-----------------------------------------------------------------------------
(***************************************************************************)
(* The entry e is at exactly one place of the sequence s.                  *)
(***************************************************************************)
OccursOnce(s, e) == \E k \in DOMAIN s : \A j \in DOMAIN s : s[j] = e <=> j = k

(***************************************************************************)
(* A scan that ends without an error has visited every name that stayed in *)
(* the directory exactly once, with its own type, whatever else was        *)
(* created or unlinked meanwhile.                                          *)
(***************************************************************************)
StableVisitedOnce ==
  status = "ok" => \A name \in Stable : OccursOnce(seen, Entry(name))

\* Every visited entry is, letter by letter and type included, an entry the
\* directory had at some time during the scan.
NothingInvented == \A k \in DOMAIN seen : \E name \in ever : seen[k] = Entry(name)

=============================================================================
