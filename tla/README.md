# The search system call and the file I/O around it, specified in TLA+

The repository is a Linux 3.4 tree with one addition of its own: a system call
`search(paths, pattern, flags, buf, len)` that walks directory trees in the
kernel and copies the paths that match a pattern to the caller. It is in
`linux/fs/read_write.c` (lines 1015-1545), with a hook in `file_operations`
(`linux/include/linux/fs.h:1637`), an implementation of the hook in the NFS
version 3 client (`fs/nfs/dir.c:198-207`, `fs/nfs/nfs3proc.c:235-272`) that passes
the search to the server, and the entries in the system call tables.
This project models that call and what it touches, and the rest of that file:
the system calls that read, write, seek and send, with the parts of
`fs/splice.c`, `fs/aio.c` and `mm/filemap.c` they run through.

## Inventory

| Part | State | Operations | What makes it correct |
|---|---|---|---|
| Result buffer | `ds->next`, `ds->len`, `ds->results`, the caller's memory | `copy_search_result`, the answer of a native search, the terminator of `sys_search` | what is stored outside the buffer, and what never is; what is inside is always one string, of whole records as far as the call itself made it; the count is the number of records |
| Reading a directory | `entries[]`, `next`, `entry`, `f_pos` | `vfs_readdir`, `search_filldir`, the walk over the packed strings | every entry that stays is visited once, nothing is invented, the loop ends |
| Pattern matcher | none | `ispattern`, `isrecursive`, `__match_pathname`, `match_pathname` | the verdict is that of the pattern's language; a directory on the way to a match is recognised |
| Tree walk | `ds->path`, `ds->base`, `ds->dirs[0..n]` | `search_directory` | all matches are found once, the depth is bounded, every directory is closed |
| System call | `ds`, `paths`, `pattern`, `dirs`, the exit ladder | `sys_search` | everything is released on every exit; it returns |
| VFS tree | the dentry tree | lookup, `filp_open`, `d_absolute_path`; unlink, rmdir, rename by others | environment |
| Native search | the server's | `nfs_search`, `nfs3_proc_search` | the answer it stores stays in the room it was given |
| Range check | none | `rw_verify_area` | a range is refused exactly when it is not addressable |
| Vector I/O | the kernel's `iovec`, the running total | `rw_copy_check_uvector`, `do_readv_writev`, `do_loop_readv_writev`, `iov_shorten` | a prefix of the caller's vector is moved, at most `MAX_RW_COUNT` bytes, and the position does not wrap |
| File position | `f_pos`, `f_lock`, `i_mutex`, `i_size` | `read`, `write`, `pread`, `pwrite`, their vector forms, `lseek` | no byte is skipped, relative seeks and appends do not lose each other, positions stay valid |
| Synchronous kiocb | `ki_users`, `ki_user_data`, the Kicked flag, the task state | `do_sync_read`, `wait_on_retry_sync_kiocb`, `wait_on_sync_kiocb`, `kick_iocb`, `aio_complete` | no wake-up is lost, none is taken for another |
| sendfile | both files' `f_pos`, the internal pipe | `do_sendfile`, `do_splice_direct`, `splice_direct_to_actor`, `generic_file_splice_write` | the input's position stays behind what the output took |

`sys_search` calls `search_directory` for each top directory, which calls itself
for nested ones, `vfs_readdir` (which calls back `search_filldir` under the
directory's `i_mutex`) for each batch of entries, `match_pathname` for each
entry and `copy_search_result` for each match. There is one thread in the call
and no lock of its own. What is hard is everything that happens to the tree
between two steps of it (no lock is held from one step to the next), the errors
of each step with several directories open, strings packed into and cut out of
fixed buffers, and paths kept as offsets into one shared string that nested
calls rewrite. `PROJECT.json` lists these hazards line by line.

The rest of `read_write.c` is upstream code that shares the file. It meets
search nowhere but in `struct file`; what is hard there is that threads share
one `f_pos` which `read` and `write` load before and store after the transfer
without a lock, that the thread sleeps for a driver's completion, and the
arithmetic of positions in signed and unsigned words. The rest of the kernel,
the build scripts and the three test programs in `tests/` are not modelled.

## Modules

| Module | Models | Uses |
|---|---|---|
| `ResultBuffer` | the caller's buffer, byte by byte | |
| `DirStream` | the abstract promise of reading one directory | |
| `DirEntries` | `search_filldir` and the loop around `vfs_readdir`, byte by byte | `DirStream` as what it implements |
| `MatchPathname` | the matcher, and a reference semantics of patterns | |
| `MatchCall` | one call of the matcher, and its properties | `MatchPathname` |
| `FileTree` | the part of the VFS the call observes, and other processes | |
| `Search` | `sys_search` and `search_directory` | `FileTree`, `MatchPathname`, `ResultBuffer` |
| `RwVerify` | the words `loff_t` and `size_t`, and `rw_verify_area` | |
| `VectorIO` | one vector call, an iteration of its loops a step | `RwVerify` |
| `FileIO` | threads sharing open files | `RwVerify` |
| `MC*` | constants of the runs | |
| `*Proofs` | the theorems about the module of that name (`MatchProofs`: about `MatchCall`) | the module |

**ResultBuffer.** `mem` maps offsets from `buf` to one of four kinds of byte
(the caller's, text, a bar, NUL); one byte below the buffer and two behind it are
included so that a store outside shows. `nxt` is `ds->next - ds->buf`, `left` is `ds->len`.
A record is known by its length: nothing depends on its text but the final bar,
which the terminator replaces. `copy_to_user` may stop at any byte. A native
search is that of the NFS client: the answer is any string (`Answers` are its
lengths; a failed RPC, whose status `nfs3_proc_search` ignores, leaves one too),
it is refused only when it is longer than `ds->len`, and `strcpy` stores it with
one NUL and no bar of its own. `native` is a history variable: has one run?

**DirStream / DirEntries.** A directory is an array of slots as in a block of
ext4: unlinking leaves a hole, creating takes one, `f_pos` is the next slot. In
`DirEntries`, `buf` is `entries[]` with every byte, including the ones a former
round or `kmalloc` left there; `Tails` is what follows a name in memory before
the next NUL. `vfs_readdir` holds `i_mutex` while it fills, so the others'
steps wait; they come between rounds and during the walk. A round may end at
any point once it delivered something, as `ext4_readdir` does at a block's end.
The refinement mapping takes as fetched-but-unvisited entries what the walk
would still read from the bytes.

**MatchPathname.** Strings are sequences of characters. `__match_pathname` is a
recursive function of a position in the pattern, whose value has an answer for
every nesting level and every position in the pathname: `Answer` is one turn of
the code's loop, which needs those of the next position of the pattern only. The
reference (`Reached`, `RefVerdict`) computes sets of reachable positions, without
backtracking, for each alternative. What a single character of a pattern means is
taken from the code, and is not what the comment at `read_write.c:1019-1023`
says in two cases: `?`, there "any char", may match nothing wherever it stands,
so that `/a?b` matches `/ab` (1069-1076); and `[`, there "collating", matches nothing
at all (1077). `ExactForOneAlternative` shows that the backtracking is complete
for the language with these meanings, and is silent about the documented one. The loop runs over a bar between two
alternatives when the pathname has one there, so a file name with a bar can match
`a|b` as it stands; the statements about several alternatives are about pathnames
without bars.

**FileTree / Search.** Nodes are numbers and a directory delivers its children
in that order. The recursion of `search_directory` is the sequence `stack`, one
record per element of `ds->dirs` in use; `pc` is the place in the innermost
call. `path`, `base` and `dir` are the code's string and its offsets, so a stale
offset has the effect it has in the code: if `ds->path + ds->base` is behind the
end, the matcher may answer anything. `held`, `files` and `pathbufs` count what
is allocated; `shift` is how far `ds->pattern` was moved. `getname` refuses an
empty `paths` with `-ENOENT`. Others change the tree
between any two steps. `reported` is a history variable for the properties.

An entry of a directory in `Untyped` is reported as `DT_UNKNOWN`, which
`search_filldir` turns into `'o'`: the search matches it and does not enter it.
For the root `AbsPath` is `"/"`, so its own entries have two slashes and the path
of a nested entry is matched from behind its first slash on: the first component
can only be skipped, or matched from its second character (`b/x` matches
`/ab/x`). `Promised` limits what is to be found there to patterns of one
component. A literal is looked up below the top as the caller wrote it and is
reported with that path (`Shown`). A positive result of
`vfs_readdir` (`ext4_readdir` at a damaged block) is one of `DirectoryFails`.

**RwVerify / VectorIO.** A word has `2 * Half` values; `Signed` and `Unsigned`
are the conversions, and sums wrap where the code's do. `Addressable` says in
plain integers what the comparisons of `rw_verify_area` are for. In `VectorIO`
the vector is the sequence of its lengths; `filled` records what each segment
got. The aio method moves any prefix of what it was given, and may fail
afterwards: `generic_file_aio_write` returns the error of the sync when the bytes
and `ki_pos` have moved, and `do_sync_readv_writev` stores `ki_pos` all the same. A
plain method, external, moves a prefix of its segment or fails. `CallMethod` lets
the aio method find a lower limit first, as
`generic_file_direct_write` does, and then `iov_shorten` runs on the vector.

**FileIO.** `sys` is what is open and which calls are made; it is chosen in
`Init` and never changes, so that one run asks several questions. `th[t]` holds
the local variables of thread `t`'s call with the place it is at; `f_pos` is
loaded and stored in steps of their own. A read or write takes the position and
verifies it (`sys_rw`), runs the file's method, and stores the position again
(`Return`), after an error too. A write of a regular file takes `i_mutex`,
computes its offset (`generic_write_checks`, `i_size` in append mode), copies
some bytes and may then fail to sync them. An asynchronous method may answer
`-EIOCBRETRY` or `-EIOCBQUEUED`; `owed` is what it then promised. `kick_iocb` and
`aio_complete` change the kiocb first and wake the task in a later step
(`wake_up_process`): when the waiter has seen the change and gone, the kiocb on
its stack is dead and the wake-up may reach any task. `lseek` computes, tests
and stores under the lock the file's method uses. `sendfile` loads the input's
position at each place the code does, writes at the output's and adds to it.
`touched`, `bases`, `moved`, `only_cur` and `grown` are history variables.

Definitions named in a comment `Variant with a bug` are not part of any
specification: they are single faults that show each property can fail.

## Runs

| Run | Shows | Bounds |
|---|---|---|
| `ResultBuffer` | `TypeOK`, `AtMostOneNulBehind`, `AlwaysFramed`, `FinalString` | 20 bytes, records of 5 and 6: one to three records, every remainder around `result_len + 2`; answers of 0, 4, 6 and 20 characters, among them the ones that just fit and just do not |
| `ResultBufferDriver` | violated: an answer as long as the room left puts its NUL behind the buffer (`InBounds`) | the same |
| `ResultBufferReturn` | violated: a fault in the terminator is returned as 1 or 2 | the same |
| `DirEntries` | `FillInBounds`, `StableVisitedOnce`, `NothingInvented`, refinement `ImplementsStream`, liveness `ScanEnds` | 7 bytes, 3 slots, 3 names, 2 names changed: the buffer is filled exactly, an entry is refused, several rounds |
| `DirEntriesUnterminated` | violated: names without NUL | tails of up to two bytes |
| `Match` | exact for one alternative, sound for several, descent reaches, limit safe | paths to 6, patterns to 5 characters, nesting limit 3 so that it is exceeded |
| `MatchAlternatives` | violated: a PARTIAL hides a later match | paths to 5, patterns to 4 |
| `SearchQuiet` | `PathTracks`, `FindsAllOnce`, `FindsOnlyMatches`, `AtMostOne`, `StopsAtFirst`, `RecordsCounted` | all trees of six nodes with names a and b, 7 patterns, 3 flag sets, one or three tops, depth limit 2, batches of 2, one unreadable directory, one of unknown type; the root as top |
| `SearchBusy` | `DepthBound`, `ReleasesAll`, `MissingIsSkipped`, refinement `UsesBuffer`, liveness `Returns` | one tree of six nodes, two changes by others, all failures, a native directory with answers that fit, that fill the buffer and that are too long, a pattern and a literal, an empty `paths` |
| `SearchLiteral` | violated: `putname` of a moved pointer | one tree |
| `VectorIO` | `CutToLimit`, `TransfersPrefix`, `NeverWraps`, `RefusesExactly`, `ShortensExactly` | 4-bit words, limit 4, vectors of up to three of seven lengths and one that is too long, eight positions, signed and unsigned |
| `FileIO` | `NoGap`, `SeeksAddUp`, `AppendsDisjoint`, `PositionValid`, `ReturnsWhatMoved`, liveness `CallsReturn` | 5-bit words, two threads, two files, eleven systems, one or two calls a thread |

The bounds `TREE_DEPTH`, `MaxNest`, `SEARCH_BUF` and `BatchSize` are made small
so that the limits are met by small trees and names; `MaxChanges` bounds only
the environment. `Search` instantiates the abstract buffer with the record lengths
5 to `BufLen + 5`: longer ones are refused like the longest of these.
In `VectorIO` the lengths are zero, small, and around the sign bit, the
positions around both ends of the signed and the unsigned range, so that every
comparison of `rw_verify_area` meets its boundary. In `FileIO` a race needs two
calls, of two threads or of one; `MaxRetries` lets a method ask for a retry twice
in a call, so that a Kicked flag left over from the first is met by the second,
`budget` is the number of calls, and `MAX_RW_COUNT` is 4. The eleven systems are listed with their purpose in
`MCFileIO`. Deadlock is not checked: a system call ends, and the last state of a
bounded number of them has no successor.

`NoGap` is about what sharing a position promises at all: bytes may be read or
written twice, but from some position that was asked for up to the current one
none was passed over. The one place where the code adds to a position that
another call may have moved, `*ppos += ret` of `generic_file_splice_write`,
counts as asking for the sum; for the same reason `PositionValid` leaves out the
outputs of `sendfile`. `SeeksAddUp` is the comment at `read_write.c:68-71` that
`SEEK_CUR` is synchronized against other `SEEK_CUR`s.

`FindsAllOnce` and `StopsAtFirst` are stated for one alternative, since
`MatchAlternatives` shows that with more the matcher itself misses files; and
for a tree at rest, since what a search of a changing tree should report is not
defined anywhere. `RecordsCounted` is stated until a native search has run, since
the code adds the length of its answer to the number of records.

`ReleasesAll` says exactly what is left over, bad as it is: after a native search
that failed its directory stays open (`goto out` at 1345 passes by `filp_close`),
and the pattern stays allocated when slashes were skipped in it. It does not speak
of `pathbuf` (1323), of which every native search leaves one: no line frees it.
`MissingIsSkipped` needs its exception for an empty `paths`. `AtMostOneNulBehind` is
what is true in place of `InBounds`.

**Fairness.** Weak fairness of the searching thread's steps only: the kernel
keeps scheduling a thread that can run, and there is no lock in the call that it
could wait for for ever (`i_mutex` is taken and left inside `vfs_readdir`).
Other processes may stop or go on. In `FileIO` it is weak fairness of all steps
inside calls together, and of the promises of drivers and of the scheduler: the
machine does not idle while some thread can go on, `aio.h:78-85` obliges a method
that answered `-EIOCBRETRY` or `-EIOCBQUEUED` to kick or complete, and a woken
task is scheduled. Nobody has to make a call, and no thread is promised more
than that: as calls are bounded, this is enough for all of them to return. `Returns` and `ScanEnds` hold because `f_pos`
only grows and the depth is bounded.

## Proofs

All theorems hold for every value of the constants that satisfies the named
assumptions (`BufferAssumption`, `PackAssumption`, `MatchAssumption`, `SearchAssumption`,
`RwAssumption`, `VectorAssumption`, `FileIOAssumption`), which the runs evaluate.
Four of these say more than that a constant has its type. `MatchAssumption` says
that a pathname starts with a slash, that no string has a NUL inside, and that no
alternative of a pattern is empty. `SearchAssumption`
says that the files are a tree, that the files of a directory have different
names, that names are not empty, not `.` or `..` and have no slash, and that a
pattern is not empty (`getname` refuses an empty one, with the `-ENOENT` that the
model has for empty paths).
`FileIOAssumption` says that the output of a `sendfile` is a regular file and that
no regular file has unsigned offsets: `FMODE_UNSIGNED_OFFSET` is set in
`drivers/char/mem.c:891` and `fs/proc/base.c:702` only. `PackAssumption` says that
every name, with its type and two NULs, fits an empty `entries[]`.

| Module | Theorems | Inductive invariant |
|---|---|---|
| `ResultBufferProofs` | `BufferTyped`, `ResultsStayInBounds`, `OwnResultsInBounds`, `ResultsStayFramed`, `FinalStringTerminated`, `CountIsRecords` | `IInv`, with `Accounting` |
| `DirStreamProofs` | `StreamVisitsOnce`, `StreamInventsNothing` | `IInv`, `Origin` |
| `DirEntriesProofs` | `FillStaysInBounds`, `ScanTyped`, `PackingImplementsStream`, `ScanVisitsOnce`, `ScanInventsNothing` | `IInv`, `ScanInv` |
| `MatchProofs` | `AlternativesSound`, `LimitSafe`, `OneAlternativeExact`, `DescentComplete` | |
| `SearchProofs` | `DepthBounded`, `AllReleased`, `SearchTyped`, `MissingSkipped`, `PathFollows`, `AtMostOneResult`, `CallUsesBuffer`, `CallStaysInBounds`, `CallLeavesString`, `CallCountsRecords`, `OnlyMatchesFound`, `AllFoundOnce`, `StopsAtFirstFound` | `StackInv`, `HeapInv`, `LeakInv`, `TreeInv`, `DataInv`, `KnownInv`, `PathInv`, `OneInv`, `RoomInv`, `RestInv`, `WalkInv`, `OnlyInv`, `OnceInv`, `DrainInv`, `FoundInv` |
| `RwVerifyProofs` | `RangeErrorExact` | |
| `VectorIOProofs` | `VectorTyped`, `VectorCut`, `VectorRefusal`, `VectorTransfersPrefix`, `VectorNeverWraps`, `VectorShortens` | `VectorInv`, `SumInv` |
| `FileIOProofs` | `FileIOTyped`, `ReportsAreTrue`, `AppendsAddUp`, `RelativeSeeksAddUp`, `PositionsStayValid`, `NothingSkipped` | `Globals`, `LocalsInv`, `LockInv`, `PositionInv`, `GapInv` |

**Result buffer.** `AtMostOneNulBehind` is not inductive: it needs that
`nxt + left = BufLen`, and that before any native search two more bytes are free
once one is stored (`Accounting`), since each record writes two NULs behind the
place the next one starts. This holds only while the buffer is being filled; a
failed native search breaks it and ends the filling. Until a native search runs,
nothing is stored outside (`OwnResultsInBounds`) and the count is the number of
bars (`CountIsRecords`).

**Directories.** In the stream each stable name sits in one slot and is, once
`pos` has passed that slot, at exactly one place of `seen` followed by `pending`;
`Origin` says that all of these entries were in the directory at some time. The packed
representation adds `WholeEntries`: there is a set of offsets, with 0 and `next`,
from each of which below `next` a type, a name and a NUL lead to the following
one. With it every step of `DirEntries` is a step of `DirStream` or none
(`PackingImplementsStream`), and the two theorems of the stream carry over. All
of this is under the assumption that names are terminated (`Tails = {<<>>}`);
without it the run `DirEntriesUnterminated` shows what happens.

**Matcher.** The code backtracks, the reference does not; both are brought to
*trails*, the positions through which a part of the pattern leads in the
pathname. A set of `Reached` holds the ends of the trails. `Right` says what an
answer means: SUCCESS that a trail covers the rest of the alternative and ends
with the pathname, PARTIAL that one ends with it at a slash, FAILURE that there is
neither; it goes from the end of an alternative to its start, position by
position, and gives up (OVERFLOW) only behind more wildcards than the limit. What
is left is that the first answer may stand for all: between two starts, and
between the places where a `*` may stop, the code takes the first that does not
fail, while the reference prefers a match to a PARTIAL. A trail crosses as many
slashes of the pathname as the pattern has, so a trail that covers the
whole alternative starts before one that ends at a slash inside it, and no
start gives both. `DescentComplete` cuts the trail of a match at the slash
where a directory above it ends.

**Search.** `StackInv` says which places have a frame, and `LeakInv` that the open
files are the frames, and one more after a failed native search, which is known
by `ds->next` and `ds->len` not adding up any more. `HeapInv` relates what is held to
the place in the prologue or the label of the exit ladder. Together they are
`AllReleased`. `TreeInv` keeps the
parents acyclic under every rename, so that there is induction down the tree
(`TreeDown`), on which absolute paths, lookups and the types in `DataInv` rest.
While nobody changed the tree, `KnownInv` says that every fetched entry still
exists, hence that opening it does not fail with `-ENOENT` (`MissingSkipped`), and `PathInv` that the offsets
`dir` of the frames are the lengths of the directories' paths and each of these a
prefix of `ds->path`, hence `PathFollows`. `OneInv` says that after a report
with `SEARCH_STOPATFIRST` only returning is left. `RoomInv` gives the facts about
record lengths with which every step of the call is one of `ResultBuffer`
(`CallUsesBuffer`); with that the buffer's theorems hold of whole calls.

The last three theorems compare a whole search with the reference. In a tree
`AtRest` siblings have different names, so that a path is that of one node, a
lookup of `AbsPath(d)` is `d` or an error, and what the matcher sees (`Seen`, the
path behind `ds->base`) is the reference's `Relative` path. `RestInv` says that
`strsep` hands out the tops in order, `WalkInv` that the frames are a chain: the
first is the open top, each further one the entry the frame below it is at, every
one in `Scope`, with its fetched entries in order, and `how` the verdict of the
current path. `OnlyInv`, from these and the matcher's theorems, is
`OnlyMatchesFound`.

For the other two, `IsAhead(d, x)` says that entry `x` of directory `d` is still to
come: it, or the directory above it through which the walk will enter, is among
what some frame has left, or is the current one. No step puts an entry ahead
that was not, so `OnceInv`, that what was reported for this top is not ahead and
no record occurs twice, is inductive. The other way round, a step takes an entry
from what is ahead only by reporting it, by finding that it does not match, or by
not entering a directory: `FoundInv` says that a wanted entry is ahead or reported,
which needs `DescentComplete` for the directories not entered, `DrainInv` (a
directory is closed with nothing left, after an error, or after the one result)
for the ones that are, and the bounds of `Scope` for those too deep or
unreadable. At the end nothing is ahead. These two theorems assume that nothing
fails (`~ CanFail`) and that no file system searches on its own (`NativeDirs = {}`):
an open refused with `-EPERM` or `-ENODEV` skips a directory of a call that
succeeds, and a native search reports what it likes.

**Vectors.** `RangeErrorExact` rests on what `Signed` and `Unsigned` do within one
wrap. `VectorInv` says what the kernel's vector is while it is checked (cut before
`seg`, the caller's from `seg` on) and that the position is the start until the
first byte is moved; `SumInv` adds the partial sums: how far the loop came is how
many bytes were moved, and at the end the position is behind the bytes that were
moved, whatever is returned.

**Threads.** `LocalsInv` lists, for each place of a call, what its local variables
and its kiocb hold, which gives `ReportsAreTrue`. `LocksHeld` says which lock a
place implies; from there `AppendInv` (between `generic_write_checks` and the
copy, an append's offset is `i_size`) and `SeekInv` (the sum computed under
`f_lock` is that of the current position) are inductive. `f_pos` itself is loaded
and stored without a lock, so `PositionValid` and `NoGap` are not inductive:
`PositionInv` and `GapInv` say the same of every position that some call holds and
may yet store.

**Induction.** The library's rules take an operator, which the provers cannot
instantiate. The lemmas here take a set instead: one that has 0 and with every
number the next has all of them, since otherwise there is a least number that it
lacks (`LeastNat`, `NatUp`). That a recursive function has its defining equation is
proved the same way.

Every safety property that a passing run checks is a theorem. Only model-checked
are the liveness properties `ScanEnds`, `Returns` and `CallsReturn`, since fairness
is outside the prover's reach, and the five violations, which need an instance
and not a proof.

## Not modelled

* Symbolic links, mounts, relative paths, a rename onto an existing name.
* The bound of `ds->path` (`PATH_MAX`); empty alternatives, where `strchrskip`
  starts behind the NUL.
* The RPC of a native search and its decoding (`nfs3xdr.c`), a fault in its
  `strcpy` to the caller's memory, which nothing handles, and NFS versions 2 and 4,
  whose clients share the hook and have no search to call (`NFS_PROTO(inode)->search`
  is NULL there).
* What the count means after a native search: the code adds the length of the
  answer to the number of records.
* Whether a call should succeed when `dirs` cannot be allocated: it returns 0
  without having searched (`AllocDirs`), and no property judges it.
* Direct I/O but for its call of `iov_shorten`, the page cache, `RLIMIT_FSIZE`,
  `MAX_NON_LFS`, and the asynchronous interface of `fs/aio.c`.
* `noop_llseek` and `no_llseek`, which change nothing, and `llseek`, which differs
  from `lseek` in how the offset is passed.
* A wake-up through a dead kiocb whose word is no task: the kernel crashes then.
* `SEARCH_PERIOD`, `SEARCH_R_OK`, `SEARCH_W_OK`, `SEARCH_X_OK`: defined, used
  nowhere.
* The test programs: two of them use system call 380, another argument order and
  `:` between paths.

## Plan

1. Done: result buffer, directory reading with its abstract stream, matcher,
   tree walk and system call; vector I/O, file positions, synchronous kiocbs and
   sendfile; a theorem for every safety property of the runs, with both
   refinements.
2. Left in the model: a length bound for `ds->path`, and empty alternatives of a
   pattern.
3. Left in the proofs: `FindsAllOnce` with directories that a security module
   refuses, once it is settled what a search should report then.
