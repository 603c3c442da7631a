------------------------------- MODULE Search -------------------------------
(***************************************************************************)
(* The search system call (sys_search and search_directory in              *)
(* linux/fs/read_write.c): for every top directory of a '|'-separated list *)
(* it walks the tree below, matches the path of every entry against a      *)
(* pattern, and copies what matched to the caller's buffer.                *)
(*                                                                         *)
(* The recursion of search_directory is a stack of frames, one for each    *)
(* element of ds->dirs in use; pc is the place in the innermost call.  The *)
(* bytes of the caller's buffer are those of ResultBuffer, the verdicts    *)
(* those of MatchPathname, and a batch of entries is one call of           *)
(* vfs_readdir as DirEntries describes it.                                 *)
(***************************************************************************)
EXTENDS FileTree

CONSTANTS
  Trees,        \* trees before the call: records of parent and name
  PathLists,    \* first argument: sequences of absolute paths
  Patterns,     \* second argument
  FlagSets,     \* third argument: sets of flags
  BufLen,       \* fifth argument, the length of the buffer
  TREE_DEPTH,   \* elements of ds->dirs
  MaxNest,      \* see MatchPathname
  BatchSize,    \* entries that fit in entries[]
  StatLen,      \* length of the metadata of a record
  NativeDirs,   \* directories whose file system has its own search
  Answers,      \* lengths of what it may be answered
  CanFail       \* may allocations, user memory and the file system fail?

ASSUME SearchAssumption ==
  /\ NNodes \in Nat \ {0}
  /\ DirNodes \subseteq Nodes /\ Root \in DirNodes
  /\ \A c \in NewNames : IsName(c)
  /\ \A t \in Trees : /\ IsTree(t.parent) /\ AreApart(t.parent, t.name)
                      /\ t.name \in [Nodes -> Seq(STRING)]
                      /\ \A x \in Nodes \ {Root} : IsName(t.name[x])
  /\ PathLists \subseteq Seq(Seq(STRING)) \ {<<>>}
  /\ Patterns \subseteq Seq(STRING) \ {<<>>}
  /\ \A p \in Patterns : \A i \in DOMAIN p : p[i] # "NUL"
  /\ BufLen \in Nat
  /\ TREE_DEPTH \in Nat /\ MaxNest \in Nat
  /\ BatchSize \in Nat \ {0}
  /\ StatLen \in Nat
  /\ Answers \subseteq Nat
  /\ CanFail \in BOOLEAN

VARIABLES
  paths, pattern, flags,         \* the arguments
  pc,                            \* where the call is
  status,                        \* ds->status, and status of sys_search
  label,                         \* the label of the exit ladder jumped to
  held,                          \* memory allocated and not freed
  shift,                         \* ds->pattern minus what getname returned
  files,                         \* struct files open
  pathbufs,                      \* pathbuf allocations not freed
  rest,                          \* paths strsep has still to return
  path, base,                    \* ds->path, ds->base
  stack,                         \* the frames ds->dirs[0] .. ds->dirs[n]
  psearch,                       \* ds->psearch.path[0]
  mem, nxt, left, results,       \* see ResultBuffer
  reported                       \* what was copied: top and whole path

argVars  == <<paths, pattern, flags>>
bufVars  == <<mem, nxt, left, results>>
heapVars == <<held, shift, pathbufs>>
sysVars  == <<rest, psearch, label>>
vars == <<treeVars, argVars, bufVars, heapVars, sysVars, reported,
          pc, status, files, path, base, stack>>

Match == INSTANCE MatchPathname

Ended == pc \in {"unwind", "returned"}

\* The buffer's view of the call: it fails when the error happens, long
\* before the stack of frames is unwound.  All records longer than the whole
\* buffer are alike to it.
Buf == INSTANCE ResultBuffer WITH
  CanFault    <- CanFail,
  native      <- pathbufs > 0,
  ResultLens  <- 5 .. BufLen + 5,
  OtherErrors <- {1, -ENOENT, -EIO, -ENOMEM, -EACCES, -ENOTDIR, -ENFILE,
                   -ENAMETOOLONG, -EFAULT},
  phase       <- IF Ended /\ (label = "success" \/ status = 0) THEN "returned"
                 ELSE IF status # 0 THEN "failed" ELSE "filling",
  ret         <- status

STOPATFIRST == "STOPATFIRST" \in flags
isrecursive == Match!isrecursive(pattern)
ispattern   == Match!ispattern(pattern)
fp    == stack[Len(stack)].fp
frame == stack[Len(stack)]
Tops  == Len(paths) - Len(rest)   \* number of the current top directory

Init ==
  /\ \E t \in Trees : parent = t.parent /\ name = t.name
  /\ gone = {}
  /\ changes = 0
  /\ paths \in PathLists
  /\ pattern \in Patterns
  /\ flags \in FlagSets
  /\ pc = "enter"
  /\ status = 0
  /\ label = "none"
  /\ held = {}
  /\ shift = 0
  /\ files = 0
  /\ pathbufs = 0
  /\ rest = <<>>
  /\ path = <<>>
  /\ base = 0
  /\ stack = <<>>
  /\ psearch = 0
  /\ mem = [i \in Buf!Bytes |-> "user"]
  /\ nxt = 0
  /\ left = BufLen
  /\ results = 0
  /\ reported = <<>>

\* Other processes run between any two steps of the call.
Others ==
  /\ pc # "returned"
  /\ Change
  /\ UNCHANGED <<argVars, bufVars, heapVars, sysVars, reported, pc, status, files, path, base, stack>>

-----------------------------------------------------------------------------
(***************************************************************************)
(* sys_search: acquire, then visit each top directory.                     *)
(***************************************************************************)
Exit(code, l) ==
  /\ pc' = "unwind"
  /\ status' = code
  /\ label' = l

\* One allocation of the prologue, or the jump its failure takes.
Acquire(at, what, errors, failLabel, to) ==
  /\ pc = at
  /\ \/ /\ held' = held \cup {what}
        /\ pc' = to
        /\ UNCHANGED <<status, label>>
     \/ /\ CanFail
        /\ \E code \in errors : Exit(code, failLabel)
        /\ UNCHANGED held
  /\ UNCHANGED <<treeVars, argVars, bufVars, shift, pathbufs, rest, psearch, reported,
                 files, path, base, stack>>

AllocDs    == Acquire("enter", "ds", {-EFAULT, -ENOMEM}, "exit0", "getpaths")

\* getname refuses an empty string, if nothing fails before.
EmptyPaths == paths = << <<>> >>
GetPaths   ==
  \/ /\ ~ EmptyPaths
     /\ Acquire("getpaths", "paths", {-EFAULT, -ENOMEM, -ENAMETOOLONG}, "exit1", "getpattern")
  \/ /\ pc = "getpaths"
     /\ EmptyPaths
     /\ \/ Exit(-ENOENT, "exit1")
        \/ CanFail /\ \E code \in {-EFAULT, -ENOMEM} : Exit(code, "exit1")
     /\ UNCHANGED <<treeVars, argVars, bufVars, heapVars, rest, psearch, reported,
                    files, path, base, stack>>

GetPattern == Acquire("getpattern", "pattern", {-EFAULT, -ENOMEM, -ENAMETOOLONG}, "exit2", "setup")

\* ds->dirs for a pattern; the failure leaves status at 0.  Without special
\* characters ds->pattern moves over its leading slashes instead.
AllocDirs ==
  /\ ispattern
  /\ Acquire("setup", "dirs", {0}, "exit3", "split")

LeadingSlashes == CHOOSE k \in DOMAIN pattern :
                    /\ \A i \in 1 .. k : pattern[i] = "/"
                    /\ Match!At(pattern, k + 1) # "/"

StripSlashes ==
  /\ pc = "setup"
  /\ ~ ispattern
  /\ shift' = LeadingSlashes
  /\ pc' = "split"
  /\ UNCHANGED <<treeVars, argVars, bufVars, held, pathbufs, sysVars, reported,
                 status, files, path, base, stack>>

Split ==
  /\ pc = "split"
  /\ rest' = paths
  /\ pc' = "nextpath"
  /\ UNCHANGED <<treeVars, argVars, bufVars, heapVars, psearch, label, reported,
                 status, files, path, base, stack>>

NextPath ==
  /\ pc = "nextpath"
  /\ rest # <<>>
  /\ path' = Head(rest)
  /\ rest' = Tail(rest)
  /\ IF ispattern THEN base' = 0 /\ pc' = "open"
                  ELSE UNCHANGED base /\ pc' = "kern_path"
  /\ UNCHANGED <<treeVars, argVars, bufVars, heapVars, psearch, label, reported,
                 status, files, stack>>

(***************************************************************************)
(* copy_search_result for the path s, and the count.                       *)
(***************************************************************************)
RecordLen(s) == Len(s) + 4 + (IF "METADATA" \in flags THEN StatLen ELSE 0)

\* Variant with a bug: the record is copied and not counted.
CopyUncounted(s) ==
  /\ Buf!copy_search_result(RecordLen(s))
  /\ reported' = Append(reported, [top |-> Tops, path |-> path])
  /\ UNCHANGED results

Copy(s) ==
  /\ Buf!copy_search_result(RecordLen(s))
  /\ results' = results + 1
  /\ reported' = Append(reported, [top |-> Tops, path |-> path])

CopyFails(s, code) ==
  /\ \/ code = -EFAULT /\ Buf!copy_search_result_EFAULT(RecordLen(s))
     \/ code = -ERANGE /\ Buf!copy_search_result_ERANGE(RecordLen(s))
  /\ UNCHANGED <<results, reported>>

GetattrFails(code) ==
  /\ CanFail
  /\ "METADATA" \in flags
  /\ code = -EIO
  /\ UNCHANGED <<bufVars, reported>>

(***************************************************************************)
(* A pattern without special characters: look the file up directly.        *)
(***************************************************************************)
Literal == SubSeq(pattern, shift + 1, Len(pattern))

KernPath ==
  /\ pc = "kern_path"
  /\ LET r == Lookup(Root, path) IN
     \/ /\ r = -ENOENT
        /\ pc' = "nextpath"
        /\ UNCHANGED <<status, label, psearch, base, path>>
     \/ /\ r < 0 /\ r # -ENOENT
        /\ Exit(r, "exit")
        /\ UNCHANGED <<psearch, base, path>>
     \/ /\ r > 0
        /\ psearch' = r
        /\ base' = Len(path)
        /\ path' = path \o Slash \o Literal
        /\ pc' = "psearch"
        /\ UNCHANGED <<status, label>>
  /\ UNCHANGED <<treeVars, argVars, bufVars, heapVars, rest, reported, files, stack>>

PsearchText == IF "INCLUDEROOT" \in flags THEN path ELSE SubSeq(path, base + 1, Len(path))

Psearch ==
  /\ pc = "psearch"
  /\ LET r == Lookup(psearch, Literal) IN
     \/ /\ r = -ENOENT
        /\ pc' = "nextpath"
        /\ UNCHANGED <<bufVars, reported, status, label>>
     \/ /\ r < 0 /\ r # -ENOENT
        /\ Exit(r, "exit")
        /\ UNCHANGED <<bufVars, reported>>
     \/ /\ r > 0
        /\ Copy(PsearchText)
        /\ pc' = IF STOPATFIRST THEN "finish" ELSE "nextpath"
        /\ UNCHANGED <<status, label>>
     \/ /\ r > 0
        /\ \E code \in {-EFAULT, -ERANGE, -EIO} :
             /\ CopyFails(PsearchText, code) \/ GetattrFails(code)
             /\ Exit(code, "exit")
  /\ UNCHANGED <<treeVars, argVars, heapVars, rest, psearch, files, path, base, stack>>

-----------------------------------------------------------------------------
(***************************************************************************)
(* search_directory(ds, n) with n = Len(stack).                            *)
(***************************************************************************)
\* Variant with a bug: a missing directory is an error.
SkippedUnlessMissing(code) == code \in {-EPERM, -EACCES, -ENODEV}

\* Errors of filp_open that skip the directory.
Skipped(code) == code \in {-ENOENT, -EPERM, -EACCES, -ENODEV}

\* Variant with a bug: one element more than ds->dirs has.
TooDeepByOne == Len(stack) > TREE_DEPTH

TooDeep == Len(stack) >= TREE_DEPTH

\* The file system or a security module may refuse an open, too.
OpenSkipped ==
  /\ pc = "open"
  /\ \/ TooDeep
     \/ Skipped(OpenDir(path))
     \/ CanFail /\ \E code \in {-EPERM, -ENODEV} : Skipped(code)
  /\ status' = 0
  /\ pc' = "back"
  /\ UNCHANGED <<treeVars, argVars, bufVars, heapVars, sysVars, reported, files, path, base, stack>>

\* Variant with a bug: the directory that was not opened is closed.
OpenFailsAndCloses ==
  /\ pc = "open"
  /\ ~ TooDeep
  /\ \/ OpenDir(path) < 0 /\ ~ Skipped(OpenDir(path)) /\ status' = OpenDir(path)
     \/ CanFail /\ status' = -ENFILE
  /\ pc' = "close"
  /\ UNCHANGED <<treeVars, argVars, bufVars, heapVars, sysVars, reported, files, path, base, stack>>

OpenFails ==
  /\ pc = "open"
  /\ ~ TooDeep
  /\ \/ OpenDir(path) < 0 /\ ~ Skipped(OpenDir(path)) /\ status' = OpenDir(path)
     \/ CanFail /\ status' = -ENFILE
  /\ pc' = "back"
  /\ UNCHANGED <<treeVars, argVars, bufVars, heapVars, sysVars, reported, files, path, base, stack>>

Open ==
  /\ pc = "open"
  /\ ~ TooDeep
  /\ OpenDir(path) \in DirNodes
  /\ files' = files + 1
  /\ stack' = Append(stack, [fp |-> OpenDir(path), dir |-> 0, pos |-> -2,
                             pending |-> <<>>, entry |-> <<>>, type |-> "o", how |-> Match!FAILURE])
  /\ status' = 0
  /\ pc' = "abspath"
  /\ UNCHANGED <<treeVars, argVars, bufVars, heapVars, sysVars, reported, path, base>>

\* The path is made canonical; the top directory sets ds->base.
abspath ==
  /\ pc = "abspath"
  /\ path' = AbsPath(fp)
  /\ base' = IF base = 0 THEN Len(AbsPath(fp)) ELSE base
  /\ pc' = IF fp \in NativeDirs THEN "driver" ELSE "readdir"
  /\ UNCHANGED <<treeVars, argVars, bufVars, heapVars, sysVars, reported, status, files, stack>>

\* The file system searches on its own, with a pathbuf nothing frees; its
\* error goes past filp_close.
Driver(n) ==
  /\ pc = "driver"
  /\ pathbufs' = pathbufs + 1
  /\ \/ /\ Buf!driver_search(n)
        /\ pc' = "close"
        /\ UNCHANGED <<status, stack>>
     \/ /\ Buf!driver_search_ERANGE(n)
        /\ status' = -ERANGE
        /\ pc' = "back"
        /\ stack' = SubSeq(stack, 1, Len(stack) - 1)
  /\ UNCHANGED <<treeVars, argVars, held, shift, sysVars, reported, files, path, base>>

(***************************************************************************)
(* One call of vfs_readdir, and the walk over the entries it delivered.    *)
(***************************************************************************)
With(f) == [stack EXCEPT ![Len(stack)] = f]

\* Variant with a bug: f_pos goes back to the start of the directory.
LastIdRewound(batch) == -2

LastId(batch) == batch[Len(batch)].id

Readdir ==
  /\ pc = "readdir"
  /\ fp \notin gone
  /\ LET due   == EntriesFrom(fp, frame.pos)
         batch == SubSeq(due, 1, IF Len(due) < BatchSize THEN Len(due) ELSE BatchSize)
     IN  IF batch = <<>>
         THEN pc' = "close" /\ UNCHANGED stack
         ELSE /\ pc' = "walk"
              /\ stack' = With([frame EXCEPT !.pos = LastId(batch),
                                             !.pending = batch, !.dir = Len(path)])
  /\ UNCHANGED <<treeVars, argVars, bufVars, heapVars, sysVars, reported, status, files, path, base>>

\* abspath, vfs_readdir on a removed directory, or the file system fails.
\* At a damaged block ext4_readdir returns the positive number of entries it
\* has stored (ret = stored); it stands for all of them as 1.
DirectoryFails ==
  /\ \/ pc = "abspath" /\ CanFail /\ status' = -ENAMETOOLONG
     \/ pc = "readdir" /\ fp \in gone /\ status' = -ENOENT
     \/ pc = "readdir" /\ fp \notin gone /\ CanFail /\ status' \in {-EIO, 1}
  /\ pc' = "close"
  /\ UNCHANGED <<treeVars, argVars, bufVars, heapVars, sysVars, reported, files, path, base, stack>>

\* Variant with a bug: the matcher gets the whole path.
VerdictsOfWholePath(p) == {Match!match_pathname(p, pattern)}

\* When an ancestor was moved up, ds->path + ds->base may be behind the end
\* of ds->path: the matcher then reads whatever an older path left there.
VerdictsOf(p) ==
  IF base < Len(p) THEN {Match!match_pathname(SubSeq(p, base + 1, Len(p)), pattern)}
                   ELSE Match!Verdicts

NextEntry ==
  /\ pc = "walk"
  /\ frame.pending # <<>>
  /\ LET e == Head(frame.pending) IN
       /\ path' = path \o Slash \o e.name
       /\ \E how \in VerdictsOf(path \o Slash \o e.name) :
            /\ stack' = With([frame EXCEPT !.pending = Tail(@), !.entry = e.name,
                                           !.type = e.type, !.how = how])
            /\ pc' = IF how = Match!SUCCESS THEN "report" ELSE "descend"
  /\ UNCHANGED <<treeVars, argVars, bufVars, heapVars, sysVars, reported, status, files, base>>

EndWalk ==
  /\ pc = "walk"
  /\ frame.pending = <<>>
  /\ pc' = "readdir"
  /\ UNCHANGED <<treeVars, argVars, bufVars, heapVars, sysVars, reported, status, files, path, base, stack>>

\* The entry matched: look it up, get its attributes, copy the record.
ReportText == IF "INCLUDEROOT" \in flags THEN path ELSE frame.entry

Report ==
  /\ pc = "report"
  /\ Lookup(fp, frame.entry) > 0
  /\ Copy(ReportText)
  /\ pc' = IF STOPATFIRST THEN "close" ELSE "descend"
  /\ UNCHANGED <<treeVars, argVars, heapVars, sysVars, status, files, path, base, stack>>

ReportFails ==
  /\ pc = "report"
  /\ \/ /\ Lookup(fp, frame.entry) < 0
        /\ status' = Lookup(fp, frame.entry)
        /\ UNCHANGED <<bufVars, reported>>
     \/ /\ Lookup(fp, frame.entry) > 0
        /\ \E code \in {-EFAULT, -ERANGE, -EIO} :
             /\ CopyFails(ReportText, code) \/ GetattrFails(code)
             /\ status' = code
  /\ pc' = "close"
  /\ UNCHANGED <<treeVars, argVars, heapVars, sysVars, files, path, base, stack>>

\* Variant with a bug: the path keeps the entry.
PathKept == path

\* *ds->dirs[n].dir = '\0': a NUL behind the end changes nothing.
Restored == IF frame.dir < Len(path) THEN SubSeq(path, 1, frame.dir) ELSE path

\* Variant with a bug: only directories on the way of a match are entered.
DescendsIfPartial ==
  /\ frame.type = "d"
  /\ frame.entry \notin {Dot, DotDot}
  /\ frame.how = Match!PARTIAL

Descends ==
  /\ frame.type = "d"
  /\ frame.entry \notin {Dot, DotDot}
  /\ frame.how = Match!PARTIAL \/ isrecursive

Descend ==
  /\ pc = "descend"
  /\ IF Descends THEN pc' = "open" /\ UNCHANGED path
                 ELSE pc' = "walk" /\ path' = Restored
  /\ UNCHANGED <<treeVars, argVars, bufVars, heapVars, sysVars, reported, status, files, base, stack>>

\* Variant with a bug: what a nested call found does not end the search.
NeverEnough == FALSE

\* Variant with a bug: a nested call that found nothing ends the search.
EnoughWithoutResult == STOPATFIRST

\* The nested call returned: on an error, and when it was to stop at the
\* first result, the directory is closed too.
FoundEnough == results > 0 /\ STOPATFIRST

BackInDirectory ==
  /\ pc = "back"
  /\ stack # <<>>
  /\ IF status # 0 \/ FoundEnough
     THEN pc' = "close" /\ UNCHANGED path
     ELSE pc' = "walk" /\ path' = Restored
  /\ UNCHANGED <<treeVars, argVars, bufVars, heapVars, sysVars, reported, status, files, base, stack>>

\* Variant with a bug: an error leaves the directory open.
CloseUnlessError ==
  /\ pc = "close"
  /\ files' = IF status = 0 THEN files - 1 ELSE files
  /\ stack' = SubSeq(stack, 1, Len(stack) - 1)
  /\ pc' = "back"
  /\ UNCHANGED <<treeVars, argVars, bufVars, heapVars, sysVars, reported, status, path, base>>

Close ==
  /\ pc = "close"
  /\ files' = files - 1
  /\ stack' = SubSeq(stack, 1, Len(stack) - 1)
  /\ pc' = "back"
  /\ UNCHANGED <<treeVars, argVars, bufVars, heapVars, sysVars, reported, status, path, base>>

-----------------------------------------------------------------------------
(***************************************************************************)
(* sys_search again: after a top directory, and the end of the call.       *)
(***************************************************************************)
BackInSearch ==
  /\ pc = "back"
  /\ stack = <<>>
  /\ IF status # 0 THEN Exit(status, "exit")
     ELSE /\ pc' = IF FoundEnough THEN "finish" ELSE "nextpath"
          /\ UNCHANGED <<status, label>>
  /\ UNCHANGED <<treeVars, argVars, bufVars, heapVars, rest, psearch, reported, files, path, base, stack>>

Finish ==
  /\ pc = "finish" \/ (pc = "nextpath" /\ rest = <<>>)
  /\ \/ Buf!terminate /\ Exit(results, "success")
     \/ \E k \in 1 .. 2 : Buf!terminate_uncopied(k) /\ Exit(k, "exit")
  /\ UNCHANGED <<treeVars, argVars, results, heapVars, rest, psearch, reported, files, path, base, stack>>

\* What each label of the exit ladder frees, by the pointer ds has now:
\* putname of a pattern that moved is not the pointer getname returned.
Freed(l) ==
  CASE l \in {"exit", "success"} -> {"dirs", "pattern", "paths", "ds"}
    [] l = "exit3" -> {"pattern", "paths", "ds"}
    [] l = "exit2" -> {"paths", "ds"}
    [] l = "exit1" -> {"ds"}
    [] OTHER -> {}

Unwind ==
  /\ pc = "unwind"
  /\ held' = held \ {x \in Freed(label) : x = "pattern" => shift = 0}
  /\ pc' = "returned"
  /\ UNCHANGED <<treeVars, argVars, bufVars, shift, pathbufs, sysVars, reported,
                 status, files, path, base, stack>>

SysStep ==
  \/ AllocDs \/ GetPaths \/ GetPattern \/ AllocDirs \/ StripSlashes \/ Split
  \/ NextPath \/ KernPath \/ Psearch \/ BackInSearch \/ Finish \/ Unwind

DirectoryStep ==
  \/ OpenSkipped \/ OpenFails \/ Open \/ abspath \/ Readdir \/ DirectoryFails
  \/ \E n \in Answers : Driver(n)
  \/ NextEntry \/ EndWalk \/ Report \/ ReportFails \/ Descend \/ BackInDirectory \/ Close

Next == SysStep \/ DirectoryStep \/ Others

\* The calling thread keeps running; other processes may do nothing.
Spec == Init /\ [][Next]_vars /\ WF_vars(SysStep \/ DirectoryStep)

-----------------------------------------------------------------------------
Pcs == {"enter", "getpaths", "getpattern", "setup", "split", "nextpath", "kern_path", "psearch",
        "open", "abspath", "driver", "readdir", "walk", "report", "descend", "close", "back",
        "finish", "unwind", "returned"}

\* The call is at one of its places, with a frame wherever one is used.
TypeOK ==
  /\ pc \in Pcs
  /\ pc \in {"abspath", "driver", "readdir", "walk", "report", "descend", "close"} => stack # <<>>
  /\ \A k \in DOMAIN stack : stack[k].fp \in DirNodes
  /\ held \subseteq {"ds", "paths", "pattern", "dirs"}
  /\ files \in Nat /\ pathbufs \in Nat /\ shift \in Nat
  /\ base \in Nat
  /\ status \in Int /\ results \in Int

\* search_directory never uses an element behind the TREE_DEPTH ones that
\* ds->dirs has, however deep the tree is and however it is rearranged.
DepthBound == Len(stack) <= TREE_DEPTH

\* A native search failed: its error was added to ds->next, and ds->len kept.
DriverFailed == nxt + left # BufLen

\* What is open and allocated after every way out of the call, exactly: the
\* directory whose native search failed stays open, and only that one; the
\* pattern stays allocated if leading slashes were skipped in it, and only
\* then.  All else the nested calls of search_directory and the exit ladder
\* undo.  The pathbuf of a native search is not part of this: none is freed.
ReleasesAll ==
  pc = "returned" =>
    /\ files = (IF DriverFailed THEN 1 ELSE 0)
    /\ held  = (IF shift = 0 THEN {} ELSE {"pattern"})

\* Every way out of the call closes all directories and frees all memory.
AlwaysReleasesAll == pc = "returned" => files = 0 /\ held = {} /\ pathbufs = 0

\* In a tree at rest, ds->path is the directory of the frame and the entry,
\* after any number of descents and returns, and ds->base its top.
PathTracks ==
  changes = 0 /\ pc \in {"report", "descend"} =>
    /\ path = AbsPath(fp) \o Slash \o frame.entry
    /\ base = Len(AbsPath(stack[1].fp))

\* The call fails with ENOENT only if another process changed the tree, or if
\* it was given no path at all: a path that does not exist is skipped.
MissingIsSkipped == status = -ENOENT => changes > 0 \/ EmptyPaths

-----------------------------------------------------------------------------
(***************************************************************************)
(* What a search is to find in a tree at rest.                             *)
(***************************************************************************)
TopDir(t) == Lookup(Root, paths[t])

DepthOf(d) ==
  LET D[x \in Nodes] == IF x = Root THEN 0 ELSE D[parent[x]] + 1
  IN  D[d]

\* The directories a recursive search below the top reads.  One whose entry
\* has no type is not entered.
Scope(t) ==
  {d \in DirNodes :
     /\ OpenDir(paths[t]) > 0
     /\ Below(TopDir(t), d)
     /\ DepthOf(d) - DepthOf(TopDir(t)) < TREE_DEPTH
     /\ \A x \in DirNodes :
          Below(TopDir(t), x) /\ Below(x, d) =>
            /\ x \notin NoRead
            /\ x # d => x \notin NoExec
            /\ x # TopDir(t) => x \notin Untyped}

Candidates(t) ==
  UNION {{AbsPath(d) \o Slash \o EntryName(x) : x \in {-1, 0} \cup Children(d)} : d \in Scope(t)}

\* The path of the root ends in a slash: its own entries have two.
Relative(t, s) ==
  IF TopDir(t) # Root THEN SubSeq(s, Len(AbsPath(TopDir(t))) + 1, Len(s))
  ELSE IF s[2] = "/" THEN Tail(s) ELSE s

\* The leading slash of the root belongs to ds->base, so that below the root
\* the first component of a nested path is not matched, but what is behind
\* its first character is: b/x matches /ab/x.  What is promised there is what
\* a pattern of one component, from anywhere, matches.  A literal is looked up
\* from the top as it is and loses nothing.
Promised(t) == TopDir(t) = Root /\ ispattern => \A i \in DOMAIN pattern : pattern[i] # "/"

\* An anchored pattern is to match from the top, another one from anywhere.
ToFind(t) ==
  {s \in Candidates(t) :
     /\ Promised(t)
     /\ IF isrecursive THEN Match!RefVerdict(Relative(t, s), pattern) = Match!SUCCESS
                       ELSE Match!Matches(Relative(t, s), pattern, 1)}

\* The path a file is reported with: a literal keeps the top as it was given.
Shown(t, s) == IF ispattern THEN s ELSE paths[t] \o Relative(t, s)

OneAlternative == Match!NoBar(pattern) /\ Match!Wildcards(pattern) < MaxNest
Succeeded == pc = "returned" /\ label = "success" /\ changes = 0

\* A search that succeeds in a tree at rest has reported every file its
\* pattern matches, in every top directory, exactly once: no batch, descent
\* or return loses or repeats an entry.
FindsAllOnce ==
  Succeeded /\ OneAlternative /\ ~ STOPATFIRST =>
    \A t \in DOMAIN paths : \A s \in ToFind(t) :
      Cardinality({k \in DOMAIN reported : reported[k] = [top |-> t, path |-> Shown(t, s)]}) = 1

\* Whatever it reports exists below the top directory it belongs to and
\* matches one of the alternatives, or is the literal below the top.
IsMatch(t, s) ==
  \E alt \in Match!Alternatives(pattern) : Match!RefVerdict(Relative(t, s), alt) = Match!SUCCESS

FindsOnlyMatches ==
  changes = 0 =>
    \A k \in DOMAIN reported :
      LET t == reported[k].top
          s == reported[k].path
      IN  IF ispattern
          THEN /\ s \in Candidates(t)
               /\ Promised(t) /\ Match!IsPattern(pattern) /\ (Match!NoBar(s) \/ Match!NoBar(pattern)) => IsMatch(t, s)
          ELSE s = paths[t] \o Slash \o Literal /\ Lookup(TopDir(t), Literal) > 0

\* SEARCH_STOPATFIRST gives at most one result over all nested directories
\* and all tops, however the call ends.
AtMostOne == STOPATFIRST => Len(reported) <= 1

\* It gives one if there is one, from the first such top.
StopsAtFirst ==
  STOPATFIRST /\ Succeeded /\ OneAlternative =>
    \A t \in DOMAIN paths :
      ToFind(t) # {} => Len(reported) = 1 /\ reported[1].top <= t

\* The count that is returned is the number of records in the buffer, until a
\* native search adds to it.
RecordsCounted == Buf!RecordsCounted

\* The call uses the caller's buffer only in the ways ResultBuffer allows.
UsesBuffer == Buf!Spec

\* The call returns, in every tree and whatever other processes do.
Returns == <>(pc = "returned")

=============================================================================
