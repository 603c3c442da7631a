----------------------------- MODULE DirEntries -----------------------------
(***************************************************************************)
(* How search_directory reads one directory (linux/fs/read_write.c): the   *)
(* loop around vfs_readdir, the callback search_filldir that packs entries *)
(* into ds->dirs[n].entries, and the walk over the packed bytes.           *)
(*                                                                         *)
(* The buffer is modelled byte by byte, since packing is what can go       *)
(* wrong: kmalloc leaves stale bytes in it and every round leaves those of *)
(* the round before.  The bytes above SEARCH_BUF are outside the array.    *)
(***************************************************************************)
EXTENDS Integers, Sequences, FiniteSets, FiniteSetsExt

CONSTANTS
  Names, DirNames, NSlots, MaxChanges,   \* see DirStream
  SEARCH_BUF,                            \* bytes in entries[]
  Tails        \* what may stand between a name and the next NUL in memory

NUL   == "nul"
Stale == "stale"     \* a byte nobody wrote: anything but NUL

\* Every name fits an empty array, and no name contains a NUL.
ASSUME PackAssumption ==
  /\ Names \subseteq Seq(STRING) \ {<<>>}
  /\ \A name \in Names : \A k \in DOMAIN name : name[k] # NUL
  /\ DirNames \subseteq Names
  /\ NSlots \in Nat
  /\ MaxChanges \in Nat
  /\ SEARCH_BUF \in Nat \ {0}
  /\ \A name \in Names : Len(name) + 3 <= SEARCH_BUF
  /\ Tails \subseteq Seq(STRING)

VARIABLES
  slots, dead, pos, seen, status, ever, touched,   \* see DirStream
  pc,      \* "readdir", "fill" (i_mutex is held), "batch", "walk" or "done"
  buf,     \* the bytes of entries[], and Guard bytes above
  next,    \* ds->dirs[n].next - entries
  entry    \* ds->dirs[n].entry - entries

dirVars == <<slots, dead, ever, touched>>
vars == <<slots, dead, pos, seen, status, ever, touched, pc, buf, next, entry>>

Guard == 8
Bytes == 0 .. SEARCH_BUF + Guard - 1

\* strlen of the string at byte i; the last guard byte ends every string.
strlen(i) ==
  Min({j \in Bytes : j >= i /\ (buf[j] = NUL \/ j = SEARCH_BUF + Guard - 1)}) - i
StringAt(i) == [k \in 1 .. strlen(i) |-> buf[i + k - 1]]

(***************************************************************************)
(* The packed entries from byte i on, as the walk would read them, and     *)
(* what was fetched and not yet visited: the refinement mapping.           *)
(***************************************************************************)
Parsed ==
  LET P[i \in 0 .. SEARCH_BUF + Guard] ==
        IF i >= SEARCH_BUF + Guard - 1 \/ buf[i] = NUL THEN <<>>
        ELSE <<[type |-> buf[i], name |-> StringAt(i + 1)]>> \o P[i + 2 + strlen(i + 1)]
  IN  P

Pending ==
  CASE pc \in {"fill", "batch"} /\ next > 0 -> Parsed[0]
    [] pc = "walk" -> Parsed[entry]
    [] OTHER -> <<>>

Dir == INSTANCE DirStream WITH pending <- Pending

-----------------------------------------------------------------------------
Init ==
  /\ Dir!InitDir
  /\ pos = 1
  /\ seen = <<>>
  /\ status = "reading"
  /\ pc = "readdir"
  /\ buf = [i \in Bytes |-> Stale]
  /\ next = 0
  /\ entry = 0

\* Other processes change the directory whenever i_mutex is free.
Others ==
  /\ pc # "fill"
  /\ Dir!Change
  /\ UNCHANGED <<pos, seen, status, pc, buf, next, entry>>

(***************************************************************************)
(* One round of the loop: ds->dirs[n].next = entries, then vfs_readdir.    *)
(***************************************************************************)
StartRound ==
  /\ pc = "readdir"
  /\ next' = 0
  /\ IF dead THEN pc' = "done" /\ status' = "ENOENT"
             ELSE pc' = "fill" /\ UNCHANGED status
  /\ UNCHANGED <<dirVars, pos, seen, buf, entry>>

(***************************************************************************)
(* search_filldir: a type character, the name and its NUL by strcpy, which *)
(* copies the tail too, and a NUL that ends the list so far.               *)
(***************************************************************************)
\* Variant with a bug: the NUL that ends the list is not counted.
RoomWithoutEnd(name) == SEARCH_BUF - next >= Len(name) + 2

\* Variant with a bug: the size test is gone.
RoomUnchecked(name) == TRUE

Room(name) == SEARCH_BUF - next >= Len(name) + 3

\* Variant with a bug: the list is not ended after the entry.
PackedOpenEnded(name, tail) ==
  LET text == <<Dir!TypeChar(name)>> \o name \o tail \o <<NUL>>
  IN  [i \in Bytes |-> IF i - next + 1 \in DOMAIN text THEN text[i - next + 1] ELSE buf[i]]

\* Variant with a bug: every entry is marked as something else.
PackedUntyped(name, tail) ==
  LET text == <<"o">> \o name \o tail \o <<NUL>>
  IN  [i \in Bytes |->
         IF i = next + Len(name) + 2 THEN NUL
         ELSE IF i - next + 1 \in DOMAIN text THEN text[i - next + 1]
         ELSE buf[i]]

Packed(name, tail) ==
  LET text == <<Dir!TypeChar(name)>> \o name \o tail \o <<NUL>>
  IN  [i \in Bytes |->
         IF i = next + Len(name) + 2 THEN NUL
         ELSE IF i - next + 1 \in DOMAIN text THEN text[i - next + 1]
         ELSE buf[i]]

\* Variant with a bug: an entry without room is accepted and dropped.
search_filldir_drops(name, tail) ==
  IF Room(name)
  THEN buf' = Packed(name, tail) /\ next' = next + Len(name) + 2
  ELSE UNCHANGED <<buf, next>>

search_filldir(name, tail) ==
  /\ Room(name)
  /\ buf' = Packed(name, tail)
  /\ next' = next + Len(name) + 2

\* The file system's readdir: offer the entry at f_pos, skip a hole, ...
Fill ==
  /\ pc = "fill"
  /\ pos \in Dir!Slots
  /\ IF slots[pos] = Dir!Hole
     THEN UNCHANGED <<buf, next>>
     ELSE \E tail \in Tails : search_filldir(slots[pos], tail)
  /\ pos' = pos + 1
  /\ UNCHANGED <<dirVars, seen, status, pc, entry>>

\* ... and return 0: at the end, when the callback refused an entry, or at
\* the end of a block that delivered something (ext4_readdir's `stored').
EndReaddir ==
  /\ pc = "fill"
  /\ \/ pos = NSlots + 1
     \/ pos \in Dir!Slots /\ slots[pos] # Dir!Hole /\ ~ Room(slots[pos])
     \/ next > 0
  /\ pc' = "batch"
  /\ UNCHANGED <<dirVars, pos, seen, status, buf, next, entry>>

ReaddirFails ==
  /\ pc = "fill"
  /\ pc' = "done"
  /\ status' = "EIO"
  /\ UNCHANGED <<dirVars, pos, seen, buf, next, entry>>

(***************************************************************************)
(* The two tests of next > entries, and the walk over the packed strings.  *)
(***************************************************************************)
\* Variant with a bug: an empty round does not end the loop.
StartWalkForever ==
  /\ pc = "batch"
  /\ entry' = 0
  /\ IF next > 0 THEN pc' = "walk" ELSE pc' = "readdir"
  /\ UNCHANGED <<dirVars, pos, seen, status, buf, next>>

StartWalk ==
  /\ pc = "batch"
  /\ IF next > 0 THEN pc' = "walk" /\ entry' = 0 /\ UNCHANGED status
                 ELSE pc' = "done" /\ status' = "ok" /\ UNCHANGED entry
  /\ UNCHANGED <<dirVars, pos, seen, buf, next>>

TakeEntry ==
  /\ pc = "walk"
  /\ buf[entry] # NUL
  /\ entry < SEARCH_BUF + Guard - 1
  /\ seen' = Append(seen, [type |-> buf[entry], name |-> StringAt(entry + 1)])
  /\ entry' = entry + 2 + strlen(entry + 1)
  /\ UNCHANGED <<dirVars, pos, status, pc, buf, next>>

EndWalk ==
  /\ pc = "walk"
  /\ buf[entry] = NUL \/ entry = SEARCH_BUF + Guard - 1
  /\ pc' = "readdir"
  /\ UNCHANGED <<dirVars, pos, seen, status, buf, next, entry>>

Scan ==
  StartRound \/ Fill \/ EndReaddir \/ ReaddirFails \/ StartWalk \/ TakeEntry \/ EndWalk

Next == Scan \/ Others

\* The searching thread keeps running; the other processes may stop.
Spec == Init /\ [][Next]_vars /\ WF_vars(Scan)

-----------------------------------------------------------------------------
\* Offsets stay inside the modelled bytes.
TypeOK ==
  /\ pc \in {"readdir", "fill", "batch", "walk", "done"}
  /\ pos \in 1 .. NSlots + 1
  /\ next \in 0 .. SEARCH_BUF
  /\ entry \in Bytes
  /\ DOMAIN buf = Bytes
  /\ status \in {"reading", "ok", "ENOENT", "EIO"}

\* search_filldir never stores past entries[], however the names add up:
\* the size test counts the type, the NUL and the list's end exactly.
FillInBounds == \A i \in Bytes : i >= SEARCH_BUF => buf[i] = Stale

\* A scan that ends with status 0 visited every name that stayed in the
\* directory exactly once and with its type, although f_pos, the batches
\* and other processes' changes interleave (search_directory, the readdir
\* loop).
StableVisitedOnce == Dir!StableVisitedOnce

\* The walk over entries[] only yields names and types the directory had:
\* no stale byte, no rest of an earlier round, no two entries run together.
NothingInvented == Dir!NothingInvented

\* Packing and walking the bytes is an implementation of the stream of
\* entries search_directory relies on.
ImplementsStream == Dir!Spec

\* The loop ends, although other processes keep changing the directory: an
\* empty round is the only exit and f_pos gets there.
ScanEnds == <>(pc = "done")

=============================================================================
