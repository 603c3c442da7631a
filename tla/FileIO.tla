------------------------------- MODULE FileIO -------------------------------
(***************************************************************************)
(* Threads that share open files: read, write and their vector and         *)
(* positioned forms, lseek and sendfile of linux/fs/read_write.c, with the *)
(* parts of fs/splice.c, fs/aio.c and mm/filemap.c that they run through.  *)
(*                                                                         *)
(* file->f_pos is one word that read, write and sendfile load and store    *)
(* without a lock; every load and every store of it is a step of its own.  *)
(* A transfer is a file's method: "regular" files have the generic aio     *)
(* methods and generic_file_llseek, "async" files an aio method that may   *)
(* ask for a retry or queue the request, "plain" files only read and       *)
(* write; the last two seek with default_llseek.  Data is abstracted to    *)
(* the offsets that were transferred.                                      *)
(***************************************************************************)
EXTENDS RwVerify, Sequences

CONSTANTS
  Threads,
  Files,
  NoThread,
  Systems,     \* what is open, which calls each thread makes, and how many
  MaxRetries   \* bound: times a method asks for a retry in one call

SEEK_SET  == 0
SEEK_CUR  == 1
SEEK_END  == 2
SEEK_DATA == 3
SEEK_HOLE == 4

\* The system calls.  A vector call has several segs; pread, pwrite, preadv,
\* pwritev and sendfile with an offset pointer are "positioned" at "at".
RW(dir, f, segs)       == [op |-> "rw", dir |-> dir, f |-> f, segs |-> segs,
                           positioned |-> FALSE, at |-> 0]
PRW(dir, f, segs, at)  == [op |-> "rw", dir |-> dir, f |-> f, segs |-> segs,
                           positioned |-> TRUE, at |-> at]
Seek(f, off, origin)   == [op |-> "seek", f |-> f, off |-> off, origin |-> origin]
Send(f, out, count)    == [op |-> "send", f |-> f, out |-> out, count |-> count,
                           positioned |-> FALSE, at |-> 0]
PSend(f, out, count, at) == [op |-> "send", f |-> f, out |-> out, count |-> count,
                             positioned |-> TRUE, at |-> at]

Total(segs) == LET sum[k \in 0 .. Len(segs)] == IF k = 0 THEN 0 ELSE sum[k - 1] + segs[k]
               IN  sum[Len(segs)]

RwCalls   == [op : {"rw"}, dir : {"r", "w"}, f : Files, segs : Seq(size_t),
              positioned : BOOLEAN, at : loff_t]
SeekCalls == [op : {"seek"}, f : Files, off : loff_t, origin : SEEK_SET .. SEEK_HOLE]
SendCalls == [op : {"send"}, f : Files, out : Files, count : size_t,
              positioned : BOOLEAN, at : loff_t]

\* A vector is what rw_copy_check_uvector left of the caller's.  A sendfile's
\* output is a regular file, and no regular file has unsigned offsets.
SystemOK(s) ==
  /\ s.kind \in [Files -> {"regular", "async", "plain"}]
  /\ s.append \subseteq Files /\ s.unsigned \subseteq Files
  /\ \A f \in s.unsigned : s.kind[f] # "regular"
  /\ s.budget \in [Threads -> Nat]
  /\ s.maxbytes \in [Files -> 0 .. Half - 1]
  /\ s.size \in [Files -> 0 .. Half - 1] /\ s.start \in [Files -> loff_t]
  /\ \A f \in Files : /\ s.size[f] <= s.maxbytes[f]
                      /\ f \in s.unsigned \/ s.start[f] \in 0 .. s.maxbytes[f]
  /\ \A t \in Threads : \A c \in s.calls[t] :
       /\ c \in RwCalls \cup SeekCalls \cup SendCalls
       /\ c.op = "rw" /\ Len(c.segs) # 1 => Total(c.segs) <= MAX_RW_COUNT
       /\ c.op = "send" => s.kind[c.out] = "regular"

ASSUME FileIOAssumption ==
  /\ NoThread \notin Threads
  /\ MaxRetries \in Nat
  /\ \A s \in Systems : SystemOK(s)

VARIABLES
  sys,      \* the system chosen at the start
  f_pos,    \* file->f_pos
  i_size,   \* inode->i_size
  holder,   \* who holds a file's f_lock, its inode's i_mutex
  th,       \* the local variables of each thread's call
  kiocb,    \* the kiocb on the stack of each thread's call
  task,     \* each thread's scheduler state
  wakes,    \* wake_up_process calls about to be made for each thread
  left,     \* bound: calls each thread may still make
  touched,  \* history: the offsets of each file that were transferred
  bases,    \* history: the positions a file was set to, not advanced to
  moved,    \* history: the sum of the successful SEEK_CURs
  only_cur, \* history: the files that saw no other calls
  grown     \* history: bytes written to each file in append mode

history == <<touched, bases, moved, only_cur, grown>>
vars == <<sys, f_pos, i_size, holder, th, kiocb, task, wakes, left, history>>
Least(a, b)    == IF a <= b THEN a ELSE b
Greatest(a, b) == IF a <= b THEN b ELSE a

Kind(f)      == sys.kind[f]
Offset(f, p) == IF f \in sys.unsigned THEN Unsigned(p) ELSE p
Offsets(f, from, n) == {Offset(f, Signed(from + i)) : i \in 0 .. n - 1}

Idle == [pc |-> "idle", call |-> [op |-> "none"], pos |-> 0, segs |-> <<>>, ret |-> 0,
         got |-> 0, n |-> 0, from |-> 0, val |-> 0, old |-> 0, len |-> 0, sd |-> 0, tries |-> 0]
NewKiocb == [users |-> 1, kicked |-> FALSE, data |-> 0, owed |-> "nothing"]

At(t, label) == th[t].pc = label
File(t)      == th[t].call.f
Go(t, label) == th' = [th EXCEPT ![t].pc = label]

Init ==
  /\ sys \in Systems
  /\ f_pos = sys.start /\ i_size = sys.size
  /\ holder = [l \in {"f_lock", "i_mutex"} \X Files |-> NoThread]
  /\ th = [t \in Threads |-> Idle]
  /\ kiocb = [t \in Threads |-> NewKiocb]
  /\ task = [t \in Threads |-> "running"]
  /\ wakes = [t \in Threads |-> 0]
  /\ left = sys.budget
  /\ touched = [f \in Files |-> {}]
  /\ bases = [f \in Files |-> {Offset(f, sys.start[f])}]
  /\ moved = [f \in Files |-> 0] /\ grown = [f \in Files |-> 0]
  /\ only_cur = Files

\* Thread t enters a call: it is not in another.
Enter(t, c) ==
  /\ At(t, "idle") /\ left[t] > 0 /\ c \in sys.calls[t]
  /\ left' = [left EXCEPT ![t] = @ - 1]
  /\ only_cur' = IF c.op = "seek" /\ c.origin = SEEK_CUR THEN only_cur ELSE
                 IF c.op = "send" THEN only_cur \ {c.f, c.out} ELSE only_cur \ {c.f}
  /\ UNCHANGED <<sys, f_pos, i_size, holder, kiocb, task, wakes, touched, bases, moved, grown>>

(***************************************************************************)
(* sys_read, sys_write, sys_readv, sys_writev and their positioned forms,  *)
(* through vfs_read, vfs_write and do_readv_writev: the position is loaded *)
(* once and verified; after an error the call goes on to store it again.   *)
(***************************************************************************)
\* A file without an aio method gets a vector segment by segment.
Segments(c, count) ==
  IF Kind(c.f) = "plain" /\ Len(c.segs) > 1 THEN c.segs ELSE <<count>>

sys_rw(t, c) ==
  LET p     == IF c.positioned THEN c.at ELSE f_pos[c.f]
      count == Total(c.segs)
  IN  /\ c.op = "rw"
      /\ Enter(t, c)
      /\ \E v \in IF c.positioned /\ c.at < 0 THEN {EINVAL}
                  ELSE VerifyOutcomes(c.f \in sys.unsigned, p, count) :
           th' = [th EXCEPT ![t] =
             [Idle EXCEPT !.call = c, !.pos = p,
                          !.ret  = IF v < 0 THEN v ELSE 0,
                          !.segs = IF v < 0 THEN <<>> ELSE Segments(c, v),
                          !.pc   = IF v < 0 \/ (count = 0 /\ Len(c.segs) # 1) THEN "done" ELSE "call"]]

\* The method has returned n for the first segment, having moved m bytes at
\* offset "from" (an n < 0 with m > 0 is a write whose sync failed).
\* do_loop_readv_writev goes on when the segment was filled.
Returned(l, n, from, m) ==
  LET more == n = Head(l.segs) /\ Len(l.segs) > 1
  IN  [l EXCEPT !.pc   = IF more THEN "call" ELSE "done",
                !.segs = IF more THEN Tail(@) ELSE @,
                !.ret  = IF n >= 0 THEN @ + n ELSE IF @ = 0 THEN n ELSE @,
                !.pos  = IF m > 0 THEN Signed(from + m) ELSE @,
                !.got  = @ + m]

Record(f, from, m) == touched' = [touched EXCEPT ![f] = @ \cup Offsets(f, from, m)]

\* The step of a method that ends with n after moving m bytes at the position.
MethodReturns(t, n, m) ==
  /\ th' = [th EXCEPT ![t] = Returned(@, n, @.pos, m)]
  /\ Record(File(t), th[t].pos, m)
  /\ UNCHANGED <<bases, moved, only_cur, grown>>

\* A file system's or driver's method, external: n bytes or an error.
MethodResults(t) == {EIO} \cup 0 .. Head(th[t].segs)
Bytes(n) == Greatest(n, 0)

\* generic_file_aio_read stops at the end of the file.
generic_file_aio_read(t) ==
  /\ At(t, "call") /\ Kind(File(t)) = "regular" /\ th[t].call.dir = "r"
  /\ LET room == Greatest(i_size[File(t)] - th[t].pos, 0)
         n    == Least(Head(th[t].segs), room)
     IN  \E m \in 0 .. n : MethodReturns(t, IF m = 0 /\ n > 0 THEN EIO ELSE m, m)
  /\ UNCHANGED <<sys, f_pos, i_size, holder, kiocb, task, wakes, left>>

plain_method(t) ==
  /\ At(t, "call") /\ Kind(File(t)) = "plain"
  /\ \E n \in MethodResults(t) : MethodReturns(t, n, Bytes(n))
  /\ UNCHANGED <<sys, f_pos, i_size, holder, kiocb, task, wakes, left>>

\* Variant with a bug: the inode is not locked while it is written.
lock_inode_unlocked(t) ==
  /\ At(t, "call") /\ Kind(File(t)) = "regular" /\ th[t].call.dir = "w"
  /\ Go(t, "checks")
  /\ UNCHANGED <<sys, f_pos, i_size, holder, kiocb, task, wakes, left, history>>

\* generic_file_aio_write writes under i_mutex.
lock_inode(t) ==
  /\ At(t, "call") /\ Kind(File(t)) = "regular" /\ th[t].call.dir = "w"
  /\ holder[<<"i_mutex", File(t)>>] = NoThread
  /\ holder' = [holder EXCEPT ![<<"i_mutex", File(t)>>] = t]
  /\ Go(t, "checks")
  /\ UNCHANGED <<sys, f_pos, i_size, kiocb, task, wakes, left, history>>

\* In append mode the write begins at the end of the file, wherever the
\* position is; the file system's limit cuts it.
generic_write_checks(t) ==
  LET f     == File(t)
      from  == IF f \in sys.append THEN i_size[f] ELSE th[t].pos
      count == Head(th[t].segs)
      full  == from >= sys.maxbytes[f] /\ (count > 0 \/ from > sys.maxbytes[f])
  IN  /\ At(t, "checks")
      /\ IF full \/ count = 0
           THEN /\ th' = [th EXCEPT ![t] = Returned(@, IF full THEN EFBIG ELSE 0, from, 0)]
                /\ holder' = [holder EXCEPT ![<<"i_mutex", f>>] = NoThread]
           ELSE /\ th' = [th EXCEPT ![t].pc = "copy", ![t].from = from,
                                    ![t].n = Least(count, sys.maxbytes[f] - from)]
                /\ UNCHANGED holder
      /\ UNCHANGED <<sys, f_pos, i_size, kiocb, task, wakes, left, history>>

\* Some of the bytes are copied, the inode is unlocked; generic_write_sync
\* may still fail, although the kiocb's position has moved.
generic_file_buffered_write(t) ==
  LET f    == File(t)
      from == th[t].from
  IN  /\ At(t, "copy")
      /\ \E m \in 0 .. th[t].n :
           /\ \E n \in IF m = 0 THEN {EFAULT} ELSE {m, EIO} :
                th' = [th EXCEPT ![t] = Returned(@, n, from, m)]
           /\ i_size' = [i_size EXCEPT ![f] = IF m > 0 THEN Greatest(@, from + m) ELSE @]
           /\ Record(f, from, m)
           /\ grown' = [grown EXCEPT ![f] = IF f \in sys.append THEN @ + m ELSE @]
      /\ bases' = [bases EXCEPT ![f] = IF f \in sys.append THEN @ \cup {from} ELSE @]
      /\ holder' = [holder EXCEPT ![<<"i_mutex", f>>] = NoThread]
      /\ UNCHANGED <<sys, f_pos, kiocb, task, wakes, left, moved, only_cur>>

\* The end of a call: read, write, readv and writev store the position
\* (file_pos_write), after success and after failure.
Return(t) ==
  LET l == th[t]
  IN  /\ At(t, "done")
      /\ f_pos' = IF l.call.op = "rw" /\ ~ l.call.positioned
                    THEN [f_pos EXCEPT ![l.call.f] = l.pos] ELSE f_pos
      /\ th' = [th EXCEPT ![t] = Idle]
      /\ kiocb' = [kiocb EXCEPT ![t] = NewKiocb]    \* the kiocb is gone
      /\ UNCHANGED <<sys, i_size, holder, task, wakes, left, history>>

(***************************************************************************)
(* do_sync_read, do_sync_write and do_sync_readv_writev with a method that *)
(* does not finish at once: the thread retries or waits, and the method    *)
(* keeps its promise to kick or to complete the kiocb later.               *)
(***************************************************************************)
async_method(t) ==
  /\ At(t, "call") /\ Kind(File(t)) = "async"
  /\ \/ /\ \E n \in MethodResults(t) : MethodReturns(t, n, Bytes(n))
        /\ kiocb' = [kiocb EXCEPT ![t].owed = "nothing"]
     \/ /\ th[t].tries < MaxRetries                       \* -EIOCBRETRY
        /\ th' = [th EXCEPT ![t].pc = "retry", ![t].tries = @ + 1]
        /\ kiocb' = [kiocb EXCEPT ![t].owed = "kick"]
        /\ UNCHANGED history
     \/ /\ Go(t, "wait")                                  \* -EIOCBQUEUED
        /\ kiocb' = [kiocb EXCEPT ![t].owed = "complete"]
        /\ UNCHANGED history
  /\ UNCHANGED <<sys, f_pos, i_size, holder, task, wakes, left>>

\* kick_iocb and aio_complete change the kiocb, then wake its task.
kick_iocb(t) ==
  /\ kiocb[t].owed = "kick"
  /\ kiocb' = [kiocb EXCEPT ![t].owed = "nothing", ![t].kicked = TRUE]
  /\ wakes' = [wakes EXCEPT ![t] = @ + 1]
  /\ UNCHANGED <<sys, f_pos, i_size, holder, th, task, left, history>>

\* Variant with a bug: the method completes the kiocb more than once.
aio_complete_again(t) ==
  /\ kiocb[t].owed = "complete"
  /\ \E n \in MethodResults(t) :
       kiocb' = [kiocb EXCEPT ![t].data = n, ![t].users = @ - 1]
  /\ UNCHANGED <<sys, f_pos, i_size, holder, th, task, wakes, left, history>>

aio_complete(t) ==
  /\ kiocb[t].owed = "complete"
  /\ \E n \in MethodResults(t) :
       /\ kiocb' = [kiocb EXCEPT ![t].owed = "nothing", ![t].data = n, ![t].users = 0]
       /\ Record(File(t), th[t].pos, Bytes(n))
       /\ th' = [th EXCEPT ![t].pos = Signed(@ + Bytes(n)), ![t].got = @ + Bytes(n)]
  /\ wakes' = [wakes EXCEPT ![t] = @ + 1]
  /\ UNCHANGED <<sys, f_pos, i_size, holder, task, left, bases, moved, only_cur, grown>>

\* The task to wake is read from the kiocb.  When its owner has seen the
\* kiocb change and left the wait, the word may name any task.
wake_up_process(t) ==
  /\ wakes[t] > 0
  /\ wakes' = [wakes EXCEPT ![t] = @ - 1]
  /\ \E u \in IF th[t].pc \in {"retry", "retry_test", "retry_sleep", "wait", "wait_test", "wait_sleep"}
              THEN {t} ELSE Threads :
       task' = [task EXCEPT ![u] = "running"]
  /\ UNCHANGED <<sys, f_pos, i_size, holder, th, kiocb, left, history>>

\* wait_on_retry_sync_kiocb: set_current_state, then the test, then sleep.
retry_prepare(t) ==
  /\ At(t, "retry") /\ Go(t, "retry_test")
  /\ task' = [task EXCEPT ![t] = "uninterruptible"]
  /\ UNCHANGED <<sys, f_pos, i_size, holder, kiocb, wakes, left, history>>

retry_test(t) ==
  /\ At(t, "retry_test")
  /\ IF kiocb[t].kicked
       THEN /\ Go(t, "call")
            /\ kiocb' = [kiocb EXCEPT ![t].kicked = FALSE]
            /\ task' = [task EXCEPT ![t] = "running"]
       ELSE Go(t, "retry_sleep") /\ UNCHANGED <<kiocb, task>>
  /\ UNCHANGED <<sys, f_pos, i_size, holder, wakes, left, history>>

\* schedule returns once the task was woken; the kick's flag stays set.
retry_wake(t) ==
  /\ At(t, "retry_sleep") /\ task[t] = "running"
  /\ Go(t, "call")
  /\ UNCHANGED <<sys, f_pos, i_size, holder, kiocb, task, wakes, left, history>>

\* wait_on_sync_kiocb returns ki_user_data.
Completed(t) ==
  /\ task' = [task EXCEPT ![t] = "running"]
  /\ th' = [th EXCEPT ![t] = Returned(@, kiocb[t].data, @.pos, 0)]

wait_on_sync_kiocb(t) ==
  /\ At(t, "wait")
  /\ IF kiocb[t].users = 0 THEN Completed(t)
     ELSE Go(t, "wait_test") /\ task' = [task EXCEPT ![t] = "uninterruptible"]
  /\ UNCHANGED <<sys, f_pos, i_size, holder, kiocb, wakes, left, history>>

\* Variant with a bug: ki_users is not tested again once the state is set.
wait_test_missing(t) ==
  /\ At(t, "wait_test")
  /\ Go(t, "wait_sleep") /\ task' = [task EXCEPT ![t] = "uninterruptible"]
  /\ UNCHANGED <<sys, f_pos, i_size, holder, kiocb, wakes, left, history>>

wait_test(t) ==
  /\ At(t, "wait_test")
  /\ IF kiocb[t].users = 0 THEN Completed(t)
     ELSE Go(t, "wait_sleep") /\ UNCHANGED task
  /\ UNCHANGED <<sys, f_pos, i_size, holder, kiocb, wakes, left, history>>

\* Variant with a bug: a wake-up is taken for the completion.
wait_wake_trusting(t) ==
  /\ At(t, "wait_sleep") /\ task[t] = "running"
  /\ Completed(t)
  /\ UNCHANGED <<sys, f_pos, i_size, holder, kiocb, wakes, left, history>>

\* io_schedule returns; the loop tests ki_users again.
wait_wake(t) ==
  /\ At(t, "wait_sleep") /\ task[t] = "running"
  /\ Go(t, "wait")
  /\ UNCHANGED <<sys, f_pos, i_size, holder, kiocb, task, wakes, left, history>>

(***************************************************************************)
(* lseek: vfs_llseek, then generic_file_llseek_size (regular files), which *)
(* locks f_lock around a SEEK_CUR that moves, or default_llseek, which     *)
(* holds i_mutex throughout.                                               *)
(***************************************************************************)
SeekLock(c) ==
  CASE Kind(c.f) # "regular"                                    -> <<"i_mutex", c.f>>
    [] Kind(c.f) = "regular" /\ c.origin = SEEK_CUR /\ c.off # 0 -> <<"f_lock", c.f>>
    [] OTHER                                                    -> <<>>

sys_lseek(t, c) ==
  /\ c.op = "seek"
  /\ Enter(t, c)
  /\ th' = [th EXCEPT ![t] = [Idle EXCEPT !.call = c,
                                !.pc = IF SeekLock(c) = <<>> THEN "target" ELSE "lock"]]

\* Variant with a bug: SEEK_CUR does not wait for the lock.
seek_lock_ignored(t) ==
  /\ At(t, "lock") /\ Go(t, "target")
  /\ UNCHANGED <<sys, f_pos, i_size, holder, kiocb, task, wakes, left, history>>

seek_lock(t) ==
  /\ At(t, "lock") /\ holder[SeekLock(th[t].call)] = NoThread
  /\ holder' = [holder EXCEPT ![SeekLock(th[t].call)] = t]
  /\ Go(t, "target")
  /\ UNCHANGED <<sys, f_pos, i_size, kiocb, task, wakes, left, history>>

\* The seek is over, with its lock released.
SeekEnds(t) ==
  /\ th' = [th EXCEPT ![t] = Idle]
  /\ holder' = [l \in DOMAIN holder |-> IF l = SeekLock(th[t].call) THEN NoThread ELSE holder[l]]
  /\ UNCHANGED <<sys, i_size, kiocb, task, wakes, left>>

\* The offset asked for is computed; SEEK_CUR by 0 only returns the position,
\* SEEK_DATA and SEEK_HOLE behind the end of the file fail.
seek_target(t) ==
  LET c    == th[t].call
      size == i_size[c.f]
  IN  /\ At(t, "target")
      /\ \/ /\ \/ c.origin = SEEK_CUR /\ c.off = 0
               \/ c.origin \in {SEEK_DATA, SEEK_HOLE} /\ c.off >= size
            /\ SeekEnds(t)
            /\ UNCHANGED <<f_pos, history>>
         \/ /\ c.origin = SEEK_CUR => c.off # 0
            /\ c.origin \in {SEEK_DATA, SEEK_HOLE} => c.off < size
            /\ th' = [th EXCEPT ![t].pc = "execute",
                                ![t].val = CASE c.origin \in {SEEK_SET, SEEK_DATA} -> c.off
                                             [] c.origin = SEEK_CUR -> Signed(f_pos[c.f] + c.off)
                                             [] c.origin = SEEK_END -> Signed(size + c.off)
                                             [] c.origin = SEEK_HOLE -> size]
            /\ UNCHANGED <<sys, f_pos, i_size, holder, kiocb, task, wakes, left, history>>

\* Variant with a bug: the largest offset of the file system is not looked at.
SeekRefusedLate(f, offset) == offset < 0 /\ f \notin sys.unsigned

\* default_llseek knows no largest offset.
SeekRefused(f, offset) ==
  \/ offset < 0 /\ f \notin sys.unsigned
  \/ Kind(f) = "regular" /\ offset > sys.maxbytes[f]

\* A seek that succeeds without a store: the position is the target already.
SeekSucceeds(c, offset) ==
  /\ bases' = [bases EXCEPT ![c.f] = @ \cup {Offset(c.f, offset)}]
  /\ moved' = [moved EXCEPT ![c.f] = IF c.origin = SEEK_CUR THEN @ + c.off ELSE @]
  /\ UNCHANGED <<touched, only_cur, grown>>

\* lseek_execute, and the end of default_llseek: test, then store.
lseek_execute(t) ==
  LET c      == th[t].call
      offset == th[t].val
  IN  /\ At(t, "execute")
      /\ \/ SeekRefused(c.f, offset) /\ SeekEnds(t) /\ UNCHANGED <<f_pos, history>>
         \/ ~ SeekRefused(c.f, offset) /\ offset = f_pos[c.f]
            /\ SeekEnds(t) /\ SeekSucceeds(c, offset) /\ UNCHANGED f_pos
         \/ /\ ~ SeekRefused(c.f, offset) /\ offset # f_pos[c.f]
            /\ Go(t, "seek_store")
            /\ UNCHANGED <<sys, f_pos, i_size, holder, kiocb, task, wakes, left, history>>

seek_store(t) ==
  /\ At(t, "seek_store")
  /\ f_pos' = [f_pos EXCEPT ![File(t)] = th[t].val]
  /\ SeekSucceeds(th[t].call, th[t].val)
  /\ SeekEnds(t)

(***************************************************************************)
(* sendfile: do_sendfile, do_splice_direct and splice_direct_to_actor.     *)
(* *ppos is the caller's offset, or f_pos of the input itself, which is    *)
(* loaded again by each of the tests.                                      *)
(***************************************************************************)
InPos(l) == IF l.call.positioned THEN l.pos ELSE f_pos[l.call.f]
MaxSend(c) == Least(sys.maxbytes[c.f], sys.maxbytes[c.out])

SendStep(t, from) == At(t, from) /\ UNCHANGED <<sys, i_size, holder, kiocb, task, wakes, left>>

sys_sendfile(t, c) ==
  /\ c.op = "send"
  /\ Enter(t, c)
  /\ LET p == IF c.positioned THEN c.at ELSE f_pos[c.f]
     IN  \E v \in VerifyOutcomes(c.f \in sys.unsigned, p, c.count) :
           th' = [th EXCEPT ![t] = [Idle EXCEPT !.call = c, !.pos = c.at, !.len = v, !.ret = v,
                                                !.pc = IF v < 0 THEN "done" ELSE "verify_out"]]

\* An error before anything was spliced
SendFails(t, error) == th' = [th EXCEPT ![t].pc = "done", ![t].ret = error]

verify_out(t) ==
  /\ SendStep(t, "verify_out")
  /\ \E v \in VerifyOutcomes(th[t].call.out \in sys.unsigned, f_pos[th[t].call.out], th[t].len) :
       IF v < 0 THEN SendFails(t, v)
       ELSE th' = [th EXCEPT ![t].pc = "limit", ![t].len = v]
  /\ UNCHANGED <<f_pos, history>>

\* pos + count > max is an unsigned comparison, pos >= max a signed one.
limit(t) ==
  LET p   == InPos(th[t])
      max == MaxSend(th[t].call)
  IN  /\ SendStep(t, "limit")
      /\ IF Unsigned(p + th[t].len) > max
           THEN IF p >= max THEN SendFails(t, EOVERFLOW)
                ELSE th' = [th EXCEPT ![t].pc = "direct", ![t].len = Unsigned(max - p)]
           ELSE Go(t, "direct")
      /\ UNCHANGED <<f_pos, history>>

\* The loop ends; an error counts only when nothing was moved before it.
SpliceEnds(l, code) ==
  [l EXCEPT !.pc = "store_in", !.ret = IF l.got > 0 THEN l.got ELSE code]

\* do_splice_direct loads the position that the data is read from;
\* splice_direct_to_actor needs a regular file and a pipe.
do_splice_direct(t) ==
  LET l == [th[t] EXCEPT !.pc = "splice", !.sd = InPos(th[t]), !.ret = 0]
  IN  /\ SendStep(t, "direct")
      /\ \E code \in IF Kind(l.call.f) # "regular" THEN {EINVAL} ELSE {0, ENOMEM} :
           th' = [th EXCEPT ![t] = IF code < 0 THEN SpliceEnds(l, code) ELSE l]
      /\ UNCHANGED <<f_pos, history>>

\* do_splice_to: n bytes of the input, or fewer, are in the pipe.
do_splice_to(t) ==
  LET l    == th[t]
      f    == l.call.f
      room == Greatest(i_size[f] - l.sd, 0)
  IN  /\ SendStep(t, "splice")
      /\ IF l.len = 0 THEN th' = [th EXCEPT ![t] = SpliceEnds(l, 0)]
         ELSE \E v \in VerifyOutcomes(f \in sys.unsigned, l.sd, l.len) :
                IF v < 0 THEN th' = [th EXCEPT ![t] = SpliceEnds(l, v)]
                ELSE \E n \in {EIO} \cup 0 .. Least(l.len, room) :
                       th' = [th EXCEPT ![t] = IF n <= 0 THEN SpliceEnds(l, n)
                                               ELSE [l EXCEPT !.pc = "splice_from", !.n = n]]
      /\ UNCHANGED <<f_pos, history>>

\* do_splice_from verifies the position of the output; in append mode it fails.
do_splice_from(t) ==
  LET l   == th[t]
      out == l.call.out
  IN  /\ SendStep(t, "splice_from")
      /\ \E v \in VerifyOutcomes(out \in sys.unsigned, f_pos[out], l.n) :
           th' = [th EXCEPT ![t] = IF out \in sys.append THEN SpliceEnds(l, EINVAL)
                                   ELSE IF v < 0 THEN SpliceEnds(l, v)
                                   ELSE [l EXCEPT !.pc = "splice_write"]]
      /\ UNCHANGED <<f_pos, history>>

\* generic_file_splice_write loads the output's position again and writes m
\* bytes there; when the sync fails it reports none of them.
splice_write(t) ==
  LET l   == th[t]
      out == l.call.out
  IN  /\ At(t, "splice_write")
      /\ \E m \in 0 .. l.n, synced \in BOOLEAN :
           /\ m = 0 => synced
           /\ i_size' = [i_size EXCEPT ![out] = IF m > 0 THEN Greatest(@, Signed(f_pos[out] + m)) ELSE @]
           /\ touched' = [touched EXCEPT ![out] = @ \cup Offsets(out, f_pos[out], m),
                            ![l.call.f] = @ \cup Offsets(l.call.f, l.sd, IF synced THEN m ELSE 0)]
           /\ th' = [th EXCEPT ![t] = IF m = 0 \/ ~ synced THEN SpliceEnds(l, EIO)
                                      ELSE [l EXCEPT !.pc = "add", !.from = f_pos[out], !.val = m]]
      /\ UNCHANGED <<sys, f_pos, holder, kiocb, task, wakes, left, bases, moved, only_cur, grown>>

\* *ppos += ret is a load ...
load_out(t) ==
  /\ SendStep(t, "add")
  /\ th' = [th EXCEPT ![t].pc = "add_store", ![t].old = f_pos[th[t].call.out]]
  /\ UNCHANGED <<f_pos, history>>

\* Variant with a bug: what the output did not take is skipped in the input.
AfterActorSkipping(l) == l.sd + l.n

\* sd->pos behind the bytes that the output took
AfterActor(l) == l.sd + l.val

\* ... and a store.  When the output took less than was read the loop ends,
\* and the rest of the pipe is dropped.
store_out(t) ==
  LET l   == th[t]
      out == l.call.out
      new == Signed(l.old + l.val)
      l2  == [l EXCEPT !.got = @ + l.val, !.len = @ - l.val, !.sd = AfterActor(l), !.pc = "splice"]
  IN  /\ SendStep(t, "add_store")
      /\ f_pos' = [f_pos EXCEPT ![out] = new]
      /\ bases' = [bases EXCEPT ![out] = IF l.old # l.from \/ new # l.from + l.val
                                          THEN @ \cup {Offset(out, new)} ELSE @]
      /\ th' = [th EXCEPT ![t] = IF l.val < l.n THEN SpliceEnds(l2, 0) ELSE l2]
      /\ UNCHANGED <<touched, moved, only_cur, grown>>

\* do_splice_direct stores the input's position when bytes were moved.
store_in(t) ==
  LET l == th[t]
  IN  /\ SendStep(t, "store_in")
      /\ IF l.ret > 0 /\ ~ l.call.positioned
           THEN f_pos' = [f_pos EXCEPT ![l.call.f] = l.sd] ELSE UNCHANGED f_pos
      /\ th' = [th EXCEPT ![t].pc = "check_max", ![t].pos = IF l.ret > 0 THEN l.sd ELSE @]
      /\ UNCHANGED history

check_max(t) ==
  /\ SendStep(t, "check_max")
  /\ th' = [th EXCEPT ![t].pc = "done",
                      ![t].ret = IF InPos(th[t]) > MaxSend(th[t].call) THEN EOVERFLOW ELSE @]
  /\ UNCHANGED <<f_pos, history>>

(***************************************************************************)
(* The specification                                                       *)
(***************************************************************************)
Call(t) == \E c \in sys.calls[t] : sys_rw(t, c) \/ sys_lseek(t, c) \/ sys_sendfile(t, c)

Step(t) ==
  \/ generic_file_aio_read(t) \/ plain_method(t) \/ async_method(t)
  \/ lock_inode(t) \/ generic_write_checks(t) \/ generic_file_buffered_write(t)
  \/ retry_prepare(t) \/ retry_test(t) \/ retry_wake(t)
  \/ wait_on_sync_kiocb(t) \/ wait_test(t) \/ wait_wake(t)
  \/ seek_lock(t) \/ seek_target(t) \/ lseek_execute(t) \/ seek_store(t)
  \/ verify_out(t) \/ limit(t) \/ do_splice_direct(t) \/ do_splice_to(t)
  \/ do_splice_from(t) \/ splice_write(t) \/ load_out(t) \/ store_out(t)
  \/ store_in(t) \/ check_max(t)
  \/ Return(t)

\* The driver and the scheduler
Promise(t) == kick_iocb(t) \/ aio_complete(t) \/ wake_up_process(t)

Next == \E t \in Threads : Call(t) \/ Step(t) \/ Promise(t)

\* While a thread inside a call can go on, or a promise is open, one of them
\* does: the scheduler does not idle and drivers keep their promises.  Nobody
\* has to make a call.
Spec == Init /\ [][Next]_vars /\ WF_vars(\E t \in Threads : Step(t) \/ Promise(t))

(***************************************************************************)
(* Properties                                                              *)
(***************************************************************************)
\* Positions are words, locks have one holder, and a kiocb is completed once:
\* ki_users is what the BUG_ON of aio_complete expects.
TypeOK ==
  /\ sys \in Systems
  /\ f_pos \in [Files -> loff_t]
  /\ i_size \in [Files -> 0 .. Half - 1]
  /\ holder \in [{"f_lock", "i_mutex"} \X Files -> Threads \cup {NoThread}]
  /\ \A t \in Threads :
       /\ DOMAIN th[t] = DOMAIN Idle
       /\ th[t].pos \in loff_t /\ th[t].got \in Nat /\ th[t].len \in Int
       /\ th[t].call.op = "rw" => th[t].got <= MAX_RW_COUNT
       /\ kiocb[t].users \in {0, 1} /\ kiocb[t].owed \in {"nothing", "kick", "complete"}
       /\ task[t] \in {"running", "uninterruptible"}
       /\ wakes[t] \in Nat /\ left[t] \in 0 .. sys.budget[t]
  /\ \A f \in Files : touched[f] \subseteq Int /\ bases[f] \subseteq Int

\* Sharing a position without a lock repeats data but never skips any: from
\* some position that was asked for (by open, by a seek, by append mode) up to
\* the position, every byte was transferred, although sys_read, sys_write and
\* do_splice_direct store positions that are out of date.  An addition in
\* store_out to a position that another call moved, or one that wraps, counts
\* as a seek.
NoGap ==
  \A f \in Files : \E b \in bases[f] :
    /\ b <= Offset(f, f_pos[f])
    /\ b .. Offset(f, f_pos[f]) - 1 \subseteq touched[f]

\* SEEK_CURs are synchronized against each other by f_lock or i_mutex: while
\* nothing else uses the file, its position is the sum of those that succeeded.
SeeksAddUp ==
  \A f \in only_cur : f_pos[f] = Signed(sys.start[f] + moved[f])

\* No append overwrites another, positioned or not: i_mutex is held from the
\* load of i_size in generic_write_checks to its update.
AppendsDisjoint ==
  \A f \in sys.append : i_size[f] = sys.size[f] + grown[f]

\* The position of a file with signed offsets is one its file system has,
\* however calls interleave, unless the file is the output of a sendfile.
PositionValid ==
  \A f \in Files \ sys.unsigned :
    (\A c \in UNION {sys.calls[t] : t \in Threads} : c.op = "send" => c.out # f) =>
      /\ f_pos[f] >= 0
      /\ Kind(f) = "regular" => f_pos[f] <= sys.maxbytes[f]

\* A call that reports success reports the bytes it moved: a wake-up left over
\* from an earlier call is not taken for the completion of this one, and no
\* segment or chunk is counted twice.
ReturnsWhatMoved ==
  \A t \in Threads : At(t, "done") /\ th[t].ret >= 0 => th[t].ret = th[t].got

\* Every call returns: no wake-up is lost between a test of the kiocb and the
\* sleep, and no lock is kept.  (As each thread makes finitely many calls, this
\* is that all threads are out of their calls again and again.)
CallsReturn == []<>(\A t \in Threads : At(t, "idle"))
=============================================================================
