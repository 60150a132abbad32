-------------------------------- MODULE Pipe --------------------------------
(***************************************************************************)
(* Pipes: fs/pipe.c, the STREAMS pipes and the pipe(2) of every emulated   *)
(* system.  Processes read, write, poll and close the two ends of one pipe *)
(* that do_pipe() made; the processes of a side share the struct file.     *)
(*                                                                         *)
(* The inode semaphore serialises the bodies of pipe_readv, pipe_writev    *)
(* and pipe_release.  An iteration of a loop body is one step, taken with  *)
(* the semaphore held; the wake-ups after up() and pipe_poll() run without *)
(* it.  SIGIO through kill_fasync() is one of the signals of Signal.       *)
(***************************************************************************)
EXTENDS Integers, FiniteSets, Sequences

CONSTANTS
    Readers,        \* processes with the read end
    Writers,        \* processes with the write end
    NonBlock,       \* the processes whose file has O_NONBLOCK
    ReadSizes,      \* lengths of read calls
    WriteSizes,     \* lengths of write calls
    PIPE_BUFFERS,
    PAGE_SIZE,
    Polling,        \* the processes that also call select(2)
    Signalled,      \* the processes that others send signals to
    ByteMod,        \* bytes are numbered per writer, modulo ByteMod
    NoProc

Procs == Readers \cup Writers

ASSUME PipeAssumption ==
    /\ Readers \cap Writers = {} /\ NoProc \notin Procs
    /\ IsFiniteSet(Readers) /\ IsFiniteSet(Writers)
    /\ Readers # {} /\ Writers # {}
    /\ NonBlock \subseteq Procs /\ Polling \subseteq Procs /\ Signalled \subseteq Procs
    /\ ReadSizes \subseteq Nat \ {0} /\ WriteSizes \subseteq Nat \ {0}
    /\ PIPE_BUFFERS \in Nat \ {0} /\ PAGE_SIZE \in Nat \ {0} /\ ByteMod \in Nat \ {0}

VARIABLES
    bufs,           \* info->bufs: ops is set, offset, and the len bytes from there
    curbuf,         \* info->curbuf
    nrbufs,         \* info->nrbufs
    tmp_page,       \* info->tmp_page is set
    pages,          \* how many pages are allocated for the pipe
    readers,        \* PIPE_READERS
    writers,        \* PIPE_WRITERS
    waiting,        \* PIPE_WAITING_WRITERS
    sem,            \* who holds PIPE_SEM
    waitq,          \* the tasks on PIPE_WAIT that nobody has woken yet
    open,           \* the processes that still have their end open
    pc,             \* where a process is
    left,           \* total_len
    ret,            \* bytes transferred so far
    do_wakeup,
    signals,        \* the processes with a signal pending
    sent, rcvd      \* the next byte each writer writes, and the next one read

bufVars  == <<bufs, curbuf, nrbufs, tmp_page, pages>>
endVars  == <<readers, writers, open>>
callVars == <<left, ret, do_wakeup>>
histVars == <<sent, rcvd>>
vars == <<bufs, curbuf, nrbufs, tmp_page, pages, readers, writers, waiting, sem,
          waitq, open, pc, left, ret, do_wakeup, signals, sent, rcvd>>

PCs == {"user", "down", "read", "write0", "write", "prepared", "sleep",
        "out", "wake", "poll", "pollsleep"}

NoBuf == [ops |-> FALSE, offset |-> 0, data |-> <<>>]

(* The state after do_pipe(), and fork() calls that share the two files.   *)
Init ==
    /\ bufs = [i \in 0 .. PIPE_BUFFERS - 1 |-> NoBuf]
    /\ curbuf = 0 /\ nrbufs = 0 /\ tmp_page = FALSE /\ pages = 0
    /\ readers = 1 /\ writers = 1 /\ waiting = 0
    /\ sem = NoProc /\ waitq = {} /\ open = Procs
    /\ pc = [p \in Procs |-> "user"]
    /\ left = [p \in Procs |-> 0] /\ ret = [p \in Procs |-> 0]
    /\ do_wakeup = [p \in Procs |-> FALSE]
    /\ signals = {}
    /\ sent = [w \in Writers |-> 0] /\ rcvd = [w \in Writers |-> 0]

-----------------------------------------------------------------------------
Goto(p, l) == pc' = [pc EXCEPT ![p] = l]

(* The queue after `if (do_wakeup) wake_up_interruptible(PIPE_WAIT)'.      *)
Woken_one(p) ==
    IF do_wakeup[p] /\ waitq # {} THEN waitq \ {CHOOSE q \in waitq : TRUE} ELSE waitq
Woken(p) == IF do_wakeup[p] THEN {} ELSE waitq

(* read(2) or write(2) is called; zero lengths return at once.             *)
Call(p) ==
    /\ pc[p] = "user" /\ p \in open
    /\ \E n \in IF p \in Readers THEN ReadSizes ELSE WriteSizes :
          left' = [left EXCEPT ![p] = n]
    /\ Goto(p, "down")
    /\ UNCHANGED <<bufVars, endVars, waiting, sem, waitq, ret, do_wakeup, signals, histVars>>

(* down(PIPE_SEM) at the start of pipe_readv() and pipe_writev().          *)
Down(p) ==
    /\ pc[p] = "down" /\ sem = NoProc
    /\ sem' = p
    /\ Goto(p, IF p \in Readers THEN "read" ELSE "write0")
    /\ UNCHANGED <<bufVars, endVars, waiting, waitq, callVars, signals, histVars>>

(* pipe_wait(), first half: on the queue before the semaphore is released. *)
pipe_wait(p) ==
    /\ pc[p] = "prepared"
    /\ sem' = NoProc
    /\ Goto(p, "sleep")
    /\ UNCHANGED <<bufVars, endVars, waiting, waitq, callVars, signals, histVars>>

(* schedule() returns once the task was woken; down(), and the writer no   *)
(* longer counts as waiting.                                               *)
pipe_wait_done(p) ==
    /\ pc[p] = "sleep" /\ p \notin waitq /\ sem = NoProc
    /\ sem' = p
    /\ Goto(p, IF p \in Readers THEN "read" ELSE "write")
    /\ waiting' = IF p \in Writers THEN waiting - 1 ELSE waiting
    /\ UNCHANGED <<bufVars, endVars, waitq, callVars, signals, histVars>>

(* up(PIPE_SEM) at the end of a call.                                      *)
Up(p) ==
    /\ pc[p] = "out"
    /\ sem' = NoProc
    /\ Goto(p, "wake")
    /\ UNCHANGED <<bufVars, endVars, waiting, waitq, callVars, signals, histVars>>

(* The wake-up after up(), and the return to user space, where a pending   *)
(* signal is delivered.                                                    *)
Return(p) ==
    /\ pc[p] = "wake"
    /\ waitq' = Woken(p)
    /\ Goto(p, "user")
    /\ left' = [left EXCEPT ![p] = 0]
    /\ ret' = [ret EXCEPT ![p] = 0]
    /\ do_wakeup' = [do_wakeup EXCEPT ![p] = FALSE]
    /\ signals' = signals \ {p}
    /\ UNCHANGED <<bufVars, endVars, waiting, sem, histVars>>

-----------------------------------------------------------------------------
(* pipe_readv().                                                           *)

Least(a, b) == IF a < b THEN a ELSE b

(* The next slot of the ring.                                              *)
NextBuf(i) == (i + 1) % PIPE_BUFFERS

(* anon_pipe_buf_release(): the page is freed, or kept as tmp_page.        *)
PagesReleased_keep == pages
PagesReleased == IF tmp_page THEN pages - 1 ELSE pages

(* The byte of w that a read of n bytes from the current buffer leaves as  *)
(* the next one.                                                           *)
Received(w, n) ==
    LET data == bufs[curbuf].data
        mine == {i \in 1 .. n : data[i].from = w}
        last == CHOOSE i \in mine : \A j \in mine : j <= i
    IN  IF mine = {} THEN rcvd[w] ELSE (data[last].num + 1) % ByteMod

(* One round with data: up to left bytes of the current buffer go to the   *)
(* user, and an emptied buffer is released; its page becomes tmp_page      *)
(* unless there is one.                                                    *)
read_buf(r) ==
    /\ pc[r] = "read" /\ nrbufs > 0
    /\ LET b == bufs[curbuf]
           chars == Least(Len(b.data), left[r])
           rest == SubSeq(b.data, chars + 1, Len(b.data))
           empty == rest = <<>>
       IN  /\ bufs' = [bufs EXCEPT ![curbuf] =
                          IF empty THEN NoBuf
                          ELSE [b EXCEPT !.offset = @ + chars, !.data = rest]]
           /\ curbuf' = IF empty THEN NextBuf(curbuf) ELSE curbuf
           /\ nrbufs' = IF empty THEN nrbufs - 1 ELSE nrbufs
           /\ tmp_page' = (tmp_page \/ empty)
           /\ pages' = IF empty THEN PagesReleased ELSE pages
           /\ do_wakeup' = [do_wakeup EXCEPT ![r] = @ \/ empty]
           /\ ret' = [ret EXCEPT ![r] = @ + chars]
           /\ left' = [left EXCEPT ![r] = @ - chars]
           /\ rcvd' = [w \in Writers |-> Received(w, chars)]
           /\ Goto(r, IF left[r] = chars THEN "out" ELSE "read")
    /\ UNCHANGED <<endVars, waiting, sem, waitq, signals, sent>>

(* copy_to_user() fails: the bytes stay in the buffer.                     *)
read_fault(r) ==
    /\ pc[r] = "read" /\ nrbufs > 0
    /\ Goto(r, "out")
    /\ UNCHANGED <<bufVars, endVars, waiting, sem, waitq, callVars, signals, histVars>>

(* A reader that has data or must not block waits all the same while a     *)
(* writer sleeps in the kernel: the two system calls are merged.           *)
read_must_return(r) ==
    \/ writers = 0
    \/ waiting = 0 /\ (ret[r] > 0 \/ r \in NonBlock)
    \/ r \in signals

(* One round without data.                                                 *)
read_empty(r) ==
    /\ pc[r] = "read" /\ nrbufs = 0
    /\ IF read_must_return(r)
       THEN Goto(r, "out") /\ UNCHANGED waitq
       ELSE /\ Goto(r, "prepared")
            /\ waitq' = Woken(r) \cup {r}
    /\ UNCHANGED <<bufVars, endVars, waiting, sem, callVars, signals, histVars>>

-----------------------------------------------------------------------------
(* pipe_writev().                                                          *)

(* The next n bytes of w.  A write of at most a page may not be cut, so    *)
(* all its bytes but the last are marked.                                  *)
Bytes(w, n) ==
    [i \in 1 .. n |-> [from |-> w, num |-> (sent[w] + i - 1) % ByteMod,
                       cut |-> ret[w] + left[w] > PAGE_SIZE \/ i = left[w]]]

Sent(w, n) == sent' = [sent EXCEPT ![w] = (@ + n) % ByteMod]

Last_current == curbuf
Last == (curbuf + nrbufs - 1) % PIPE_BUFFERS
FilledTo(b) == b.offset + Len(b.data)

(* How many bytes a write tries to append to the last buffer.              *)
MergeChars_greedy(w) == Least(PAGE_SIZE - FilledTo(bufs[Last]), left[w])
MergeChars(w) == left[w] % PAGE_SIZE

(* Nobody can read any more: SIGPIPE.                                      *)
write_no_readers(w) ==
    /\ pc[w] \in {"write0", "write"} /\ readers = 0
    /\ signals' = signals \cup {w}
    /\ Goto(w, "out")
    /\ UNCHANGED <<bufVars, endVars, waiting, sem, waitq, callVars, histVars>>

(* The odd bytes of a write are appended to the last buffer if they fit;   *)
(* else the loop is entered.                                               *)
write_merge(w) ==
    /\ pc[w] = "write0" /\ readers > 0
    /\ LET chars == MergeChars(w)
           fits == nrbufs > 0 /\ chars # 0 /\ FilledTo(bufs[Last]) + chars <= PAGE_SIZE
       IN  IF fits
           THEN \/ /\ bufs' = [bufs EXCEPT ![Last].data = @ \o Bytes(w, chars)]
                   /\ Sent(w, chars)
                   /\ left' = [left EXCEPT ![w] = @ - chars]
                   /\ ret' = [ret EXCEPT ![w] = chars]
                   /\ do_wakeup' = [do_wakeup EXCEPT ![w] = TRUE]
                   /\ Goto(w, IF left[w] = chars THEN "out" ELSE "write")
                \/ /\ do_wakeup' = [do_wakeup EXCEPT ![w] = TRUE]    \* EFAULT
                   /\ Goto(w, "out")
                   /\ UNCHANGED <<bufs, sent, left, ret>>
           ELSE Goto(w, "write") /\ UNCHANGED <<bufs, sent, callVars>>
    /\ UNCHANGED <<curbuf, nrbufs, tmp_page, pages, endVars, waiting, sem, waitq, signals, rcvd>>

(* One round with room: a page, tmp_page if there is one, is filled and    *)
(* becomes the last buffer.                                                *)
write_buf(w) ==
    /\ pc[w] = "write" /\ readers > 0 /\ nrbufs < PIPE_BUFFERS
    /\ LET chars == Least(PAGE_SIZE, left[w])
           new == (curbuf + nrbufs) % PIPE_BUFFERS
       IN  /\ bufs' = [bufs EXCEPT ![new] =
                          [ops |-> TRUE, offset |-> 0, data |-> Bytes(w, chars)]]
           /\ Sent(w, chars)
           /\ left' = [left EXCEPT ![w] = @ - chars]
           /\ ret' = [ret EXCEPT ![w] = @ + chars]
           /\ Goto(w, IF left[w] = chars THEN "out" ELSE "write")
    /\ nrbufs' = nrbufs + 1
    /\ tmp_page' = FALSE
    /\ pages' = IF tmp_page THEN pages ELSE pages + 1
    /\ do_wakeup' = [do_wakeup EXCEPT ![w] = TRUE]
    /\ UNCHANGED <<curbuf, endVars, waiting, sem, waitq, signals, rcvd>>

write_fault_silent(w) ==
    /\ pc[w] = "write" /\ readers > 0 /\ nrbufs < PIPE_BUFFERS
    /\ tmp_page' = TRUE
    /\ pages' = IF tmp_page THEN pages ELSE pages + 1
    /\ Goto(w, "out")
    /\ UNCHANGED <<bufs, curbuf, nrbufs, endVars, waiting, sem, waitq, callVars, signals, histVars>>

(* copy_from_user() fails: the page stays as tmp_page.                     *)
write_fault(w) ==
    /\ pc[w] = "write" /\ readers > 0 /\ nrbufs < PIPE_BUFFERS
    /\ tmp_page' = TRUE
    /\ pages' = IF tmp_page THEN pages ELSE pages + 1
    /\ do_wakeup' = [do_wakeup EXCEPT ![w] = TRUE]
    /\ Goto(w, "out")
    /\ UNCHANGED <<bufs, curbuf, nrbufs, endVars, waiting, sem, waitq, left, ret, signals, histVars>>

(* There is no tmp_page and alloc_page() fails, before do_wakeup is set.   *)
write_no_page(w) ==
    /\ pc[w] = "write" /\ readers > 0 /\ nrbufs < PIPE_BUFFERS /\ ~tmp_page
    /\ Goto(w, "out")
    /\ UNCHANGED <<bufVars, endVars, waiting, sem, waitq, callVars, signals, histVars>>

(* One round without room.                                                 *)
write_full(w) ==
    /\ pc[w] = "write" /\ readers > 0 /\ nrbufs = PIPE_BUFFERS
    /\ IF w \in NonBlock \cup signals
       THEN Goto(w, "out") /\ UNCHANGED <<waitq, waiting, do_wakeup>>
       ELSE /\ Goto(w, "prepared")
            /\ waitq' = Woken(w) \cup {w}
            /\ do_wakeup' = [do_wakeup EXCEPT ![w] = FALSE]
            /\ waiting' = waiting + 1
    /\ UNCHANGED <<bufVars, endVars, sem, left, ret, signals, histVars>>

-----------------------------------------------------------------------------
(* pipe_poll(), without the semaphore, in the loop of select(2): on the    *)
(* queue first, then the test, then to sleep.                              *)

pipe_poll(p) == IF p \in Readers THEN nrbufs > 0 \/ writers = 0
                                 ELSE nrbufs < PIPE_BUFFERS \/ readers = 0

poll_wait(p) ==
    /\ \/ pc[p] = "user" /\ p \in open \cap Polling
       \/ pc[p] = "pollsleep" /\ p \notin waitq
    /\ waitq' = waitq \cup {p}
    /\ Goto(p, "poll")
    /\ UNCHANGED <<bufVars, endVars, waiting, sem, callVars, signals, histVars>>

poll_check(p) ==
    /\ pc[p] = "poll"
    /\ IF pipe_poll(p) \/ p \in signals
       THEN Goto(p, "user") /\ waitq' = waitq \ {p} /\ signals' = signals \ {p}
       ELSE Goto(p, "pollsleep") /\ UNCHANGED <<waitq, signals>>
    /\ UNCHANGED <<bufVars, endVars, waiting, sem, callVars, histVars>>

(* Every page that a buffer or tmp_page refers to is freed with the pipe.  *)
free_pipe_info ==
    /\ bufs' = [i \in DOMAIN bufs |-> NoBuf]
    /\ curbuf' = 0 /\ nrbufs' = 0 /\ tmp_page' = FALSE
    /\ pages' = pages - Cardinality({i \in DOMAIN bufs : bufs[i].ops})
                     - (IF tmp_page THEN 1 ELSE 0)

(* pipe_release() wakes whoever sleeps on the pipe.                        *)
release_wakes_nobody == UNCHANGED waitq
release_wakes == waitq' = {}

(* close(2).  The last process of a side releases the file: pipe_release() *)
(* wakes the other side, or frees the pipe when that is closed too.        *)
pipe_release(p) ==
    /\ pc[p] = "user" /\ p \in open
    /\ open' = open \ {p}
    /\ IF \E q \in open \ {p} : q \in Readers <=> p \in Readers
       THEN UNCHANGED <<bufVars, readers, writers, waitq>>
       ELSE /\ sem = NoProc
            /\ readers' = IF p \in Readers THEN readers - 1 ELSE readers
            /\ writers' = IF p \in Writers THEN writers - 1 ELSE writers
            /\ IF readers' = 0 /\ writers' = 0
               THEN free_pipe_info /\ UNCHANGED waitq
               ELSE release_wakes /\ UNCHANGED bufVars
    /\ UNCHANGED <<waiting, sem, pc, callVars, signals, histVars>>

(* A signal arrives, from anywhere: the sleep is interruptible.            *)
Signal(p) ==
    /\ pc[p] # "user" /\ p \in Signalled \ signals
    /\ signals' = signals \cup {p}
    /\ waitq' = waitq \ {p}
    /\ UNCHANGED <<bufVars, endVars, waiting, sem, pc, callVars, histVars>>

-----------------------------------------------------------------------------
(* The steps of a process inside a system call that do not need to wait    *)
(* for the semaphore, and those that do.                                   *)
KernelStep(p) ==
    \/ pipe_wait(p) \/ Up(p) \/ Return(p)
    \/ read_buf(p) \/ read_fault(p) \/ read_empty(p)
    \/ write_no_readers(p) \/ write_merge(p) \/ write_buf(p) \/ write_fault(p)
    \/ write_no_page(p) \/ write_full(p)
    \/ poll_check(p) \/ (pc[p] = "pollsleep" /\ poll_wait(p))

LockStep(p) == Down(p) \/ pipe_wait_done(p)

Next == \E p \in Procs :
    \/ KernelStep(p) \/ LockStep(p)
    \/ Call(p) \/ poll_wait(p) \/ pipe_release(p) \/ Signal(p)

Spec == Init /\ [][Next]_vars

(* A process in the kernel runs, and down() is not starved.                *)
Fairness == \A p \in Procs : WF_vars(KernelStep(p)) /\ SF_vars(LockStep(p))

FairSpec == Spec /\ Fairness
-----------------------------------------------------------------------------
(* The buffers in use, oldest first, and the places of a writer's bytes in *)
(* them, in the order in which they are read.                              *)
RingIndex(k) == (curbuf + k) % PIPE_BUFFERS
Data(k) == bufs[RingIndex(k)].data

Places(w) ==
    {a \in (0 .. nrbufs - 1) \X (1 .. PAGE_SIZE) :
        a[2] <= Len(Data(a[1])) /\ Data(a[1])[a[2]].from = w}
Before(a, b) == a[1] < b[1] \/ (a[1] = b[1] /\ a[2] < b[2])
Nums(w) == [a \in Places(w) |-> Data(a[1])[a[2]].num]

Byte == [from : Writers, num : 0 .. ByteMod - 1, cut : BOOLEAN]

(* The types of the variables.                                             *)
TypeOK ==
    /\ bufs \in [0 .. PIPE_BUFFERS - 1 ->
                    [ops : BOOLEAN, offset : 0 .. PAGE_SIZE, data : Seq(Byte)]]
    /\ curbuf \in 0 .. PIPE_BUFFERS - 1 /\ nrbufs \in 0 .. PIPE_BUFFERS
    /\ tmp_page \in BOOLEAN /\ pages \in Nat
    /\ readers \in 0 .. 1 /\ writers \in 0 .. 1 /\ waiting \in Nat
    /\ sem \in Procs \cup {NoProc} /\ waitq \subseteq Procs /\ open \subseteq Procs
    /\ pc \in [Procs -> PCs]
    /\ left \in [Procs -> Nat] /\ ret \in [Procs -> Nat]
    /\ do_wakeup \in [Procs -> BOOLEAN] /\ signals \subseteq Procs
    /\ sent \in [Writers -> 0 .. ByteMod - 1] /\ rcvd \in [Writers -> 0 .. ByteMod - 1]

(* The ring of pipe_readv and pipe_writev and the pages behind it agree:   *)
(* the buffers in use are the nrbufs ones from curbuf on, none is empty or *)
(* runs over its page, and every page allocated for the pipe is in one of  *)
(* them or is tmp_page, so none leaks and none is used twice; once both    *)
(* ends are closed no page is left.                                        *)
RingOwnsPages ==
    /\ {i \in DOMAIN bufs : bufs[i].ops} = {RingIndex(k) : k \in 0 .. nrbufs - 1}
    /\ \A i \in DOMAIN bufs : bufs[i].ops =>
          /\ bufs[i].data # <<>>
          /\ FilledTo(bufs[i]) <= PAGE_SIZE
    /\ pages = nrbufs + (IF tmp_page THEN 1 ELSE 0)
    /\ readers = 0 /\ writers = 0 => pages = 0

(* The numbers at the places P run, without a gap, from lo up to the one   *)
(* before hi.                                                              *)
Inc(x) == (x + 1) % ByteMod
Consecutive(P, num, lo, hi) ==
    /\ P = {} => lo = hi
    /\ \A a \in P :
          /\ (\A b \in P : ~Before(b, a)) => num[a] = lo
          /\ (\A b \in P : ~Before(a, b)) => hi = Inc(num[a])
          /\ \A b \in P : Before(a, b) /\ (\A c \in P : ~(Before(a, c) /\ Before(c, b))) =>
                num[b] = Inc(num[a])

(* Through merged writes, failed copies, partial reads and sleeps in the   *)
(* middle of a call, the bytes of a writer leave the pipe in the order in  *)
(* which write(2) took them, none lost and none twice: those in the pipe   *)
(* run from the next one to be read to the last one sent.                  *)
StreamInOrder ==
    readers = 1 => \A w \in Writers : Consecutive(Places(w), Nums(w), rcvd[w], sent[w])

(* The byte that follows the i-th one of the k-th buffer: in the same      *)
(* buffer, or the first of the next one.                                   *)
Follows(k, i) == IF i < Len(Data(k)) THEN Data(k)[i + 1] ELSE Data(k + 1)[1]

(* A write of at most PAGE_SIZE bytes is never interleaved with the bytes  *)
(* of another writer, also when it is merged into a half-full buffer.      *)
SmallWritesAtomic ==
    \A k \in 0 .. nrbufs - 1 : \A i \in 1 .. Len(Data(k)) :
        /\ i < Len(Data(k)) \/ k < nrbufs - 1
        /\ Data(k)[i].from # Follows(k, i).from
        => Data(k)[i].cut

(* A wake-up that is still to come: the process has do_wakeup set and is   *)
(* on its way out of the call.                                             *)
WakeupPending == \E p \in Procs : pc[p] = "wake" /\ do_wakeup[p]

(* What a process asleep on PIPE_WAIT waits for has happened.  A reader    *)
(* that has data or O_NONBLOCK only waits for the sleeping writers.        *)
NeedsWakeup(p) ==
    \/ pc[p] \in {"sleep", "pollsleep"} /\ pipe_poll(p)
    \/ pc[p] = "sleep" /\ p \in Readers /\ waiting = 0 /\ (ret[p] > 0 \/ p \in NonBlock)

(* No wake-up is lost: when the semaphore is free and a process sleeps on  *)
(* the queue although it could go on (data, room, a closed other end, or   *)
(* no writer left for a reader that only sleeps because of the merging of  *)
(* system calls), somebody is about to wake it.  It answers the FIXME in   *)
(* pipe_writev: the wake-up after a failed copy is needed, and the missing *)
(* one after a failed alloc_page() is not.                                 *)
NoLostWakeup ==
    sem = NoProc /\ (\E p \in waitq : NeedsWakeup(p)) => WakeupPending

(* PIPE_WAITING_WRITERS, on which the merging of system calls relies, is   *)
(* the number of writers inside pipe_wait(), through signals and EPIPE.    *)
WaitingCounted ==
    waiting = Cardinality({w \in Writers : pc[w] \in {"prepared", "sleep"}})

InCall(p) == pc[p] \notin {"user", "poll", "pollsleep"}

(* After the last writer closed its end, every read call that is in        *)
(* progress returns (with the data left or end of file), also one that     *)
(* slept; after the last reader closed, every write call returns.          *)
CloseReleases ==
    /\ \A r \in Readers : (writers = 0 /\ InCall(r)) ~> ~InCall(r)
    /\ \A w \in Writers : (readers = 0 /\ InCall(w)) ~> ~InCall(w)

(* A reader asleep in a pipe with data returns, unless others empty it;    *)
(* a writer asleep in a pipe with room returns, unless others fill it.     *)
SleepersProgress ==
    /\ \A r \in Readers : (pc[r] = "sleep" /\ nrbufs > 0) ~> (~InCall(r) \/ nrbufs = 0)
    /\ \A w \in Writers :
          (pc[w] = "sleep" /\ nrbufs < PIPE_BUFFERS) ~> (~InCall(w) \/ nrbufs = PIPE_BUFFERS)
=============================================================================
