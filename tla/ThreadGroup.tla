----------------------------- MODULE ThreadGroup -----------------------------
(***************************************************************************)
(* Tasks and the structures they share: clone and vfork (kernel/fork.c),   *)
(* the part of execve that leaves the thread group, the shared tables and  *)
(* the old address space (de_thread, unshare_files and exec_mmap, called   *)
(* by flush_old_exec in fs/exec.c), and the core dump that stops every     *)
(* task of an address space (do_coredump in fs/exec.c).                    *)
(*                                                                         *)
(* A step is what happens under tasklist_lock, siglock or mmap_sem, or one *)
(* access to a shared count.  do_exit, wait4, exit_group and the delivery  *)
(* of signals are not in the repository; they are modelled by what this    *)
(* code relies on and marked external.                                     *)
(***************************************************************************)
EXTENDS Naturals, FiniteSets

CONSTANTS
    Tasks,          \* the tasks that are ever created (the bound of an instance)
    InitTask,       \* the task that exists at the start
    CloneFlags,     \* the sets of flags clone() is called with
    Objs,           \* numbers for the objects of each kind
    None            \* the null pointer

(* What tasks share, in the order in which copy_process() copies it.  A    *)
(* clone flag is the kind it shares (CLONE_FILES, CLONE_SIGHAND,           *)
(* CLONE_THREAD, CLONE_VM) or "vfork".                                     *)
Kinds == {"files", "sighand", "signal", "mm"}

ASSUME ConstantsAssumption ==
    /\ InitTask \in Tasks /\ None \notin Tasks /\ None \notin Objs
    /\ CloneFlags \subseteq SUBSET (Kinds \union {"vfork"})
    /\ Objs \subseteq Nat /\ IsFiniteSet(Objs) /\ IsFiniteSet(Tasks)

VARIABLES
    tstate,         \* "free", "embryo" in copy_process, "alive", "zombie", "dead"
    hold,           \* a task's pointer to its object of each kind
    leader,         \* group_leader
    killed,         \* SIGKILL is pending
    vfork_done,     \* the task that sleeps on this task's vfork_done
    count,          \* the reference count of every object
    group_exit,     \* SIGNAL_GROUP_EXIT in the flags of a signal_struct
    mmap_sem,       \* the task that holds the semaphore of an mm for writing
    dumpable,
    core_waiters,
    core_startup_done,
    core_done,
    pc,
    child,          \* local p of copy_process()
    flags,          \* local clone_flags
    ofiles          \* local files of flush_old_exec()

groupVars == <<tstate, hold, leader, killed, vfork_done>>
mmVars == <<mmap_sem, dumpable, core_waiters, core_startup_done, core_done>>
locals == <<child, flags, ofiles>>
vars == <<groupVars, count, group_exit, mmVars, pc, locals>>

Bare == [k \in Kinds |-> None]

Init ==
    LET o == CHOOSE o \in Objs : \A p \in Objs : o <= p
    IN  /\ tstate = [t \in Tasks |-> IF t = InitTask THEN "alive" ELSE "free"]
        /\ hold = [t \in Tasks |-> IF t = InitTask THEN [k \in Kinds |-> o] ELSE Bare]
        /\ leader = [t \in Tasks |-> IF t = InitTask THEN t ELSE None]
        /\ killed = [t \in Tasks |-> FALSE]
        /\ vfork_done = [t \in Tasks |-> None]
        /\ count = [k \in Kinds |-> [p \in Objs |-> IF p = o THEN 1 ELSE 0]]
        /\ group_exit = [p \in Objs |-> FALSE]
        /\ mmap_sem = [p \in Objs |-> None]
        /\ dumpable = [p \in Objs |-> TRUE]
        /\ core_waiters = [p \in Objs |-> 0]
        /\ core_startup_done = [p \in Objs |-> FALSE]
        /\ core_done = [p \in Objs |-> FALSE]
        /\ pc = [t \in Tasks |-> "user"]
        /\ child = [t \in Tasks |-> None]
        /\ flags = [t \in Tasks |-> {}]
        /\ ofiles = [t \in Tasks |-> None]

-----------------------------------------------------------------------------
(* Objects and their counts.                                               *)

(* A new object, with a count of one, from the slab of its kind.           *)
Fresh(k) == CHOOSE o \in Objs : /\ count[k][o] = 0
                                /\ \A p \in Objs : count[k][p] = 0 => o <= p
CanAlloc(k) == \E o \in Objs : count[k][o] = 0

Inc(c, k, o) == [c EXCEPT ![k][o] = @ + 1]
Dec(c, k, o) == [c EXCEPT ![k][o] = @ - 1]

Goto(t, l) == pc' = [pc EXCEPT ![t] = l]
Hold(t, k, o) == hold' = [hold EXCEPT ![t][k] = o]

(* mmput(): the last user frees the mm, and with it its flags.             *)
mmput(m) ==
    /\ count' = Dec(count, "mm", m)
    /\ dumpable' = [dumpable EXCEPT ![m] = @ \/ count["mm"][m] = 1]
    /\ core_done' = [core_done EXCEPT ![m] = @ /\ count["mm"][m] # 1]
    /\ core_startup_done' = [core_startup_done EXCEPT ![m] = @ /\ count["mm"][m] # 1]

(* The tasks on the thread list of t's group, t included.                  *)
Group(t) == {u \in Tasks : tstate[u] \in {"alive", "zombie"} /\ leader[u] = leader[t]}

(* SIGKILL to the tasks of ts that have not exited.                        *)
Kill(ts) == [u \in Tasks |-> killed[u] \/ (u \in ts /\ tstate[u] = "alive")]

(* mm_release(): wake the parent that waits for the mm in vfork().         *)
mm_release(t) == vfork_done' = [vfork_done EXCEPT ![t] = None]

-----------------------------------------------------------------------------
(* do_fork() and copy_process().                                           *)

(* Share t's object of kind k with the child c, or give it one of its own. *)
CopyTo(t, c, k, share, next) ==
    LET o == IF share THEN hold[t][k] ELSE Fresh(k)
    IN  /\ share \/ CanAlloc(k)
        /\ count' = Inc(count, k, o)
        /\ Hold(c, k, o)
        /\ Goto(t, next)

copy_files(t, c, f) == CopyTo(t, c, "files", "files" \in f, "sighand")

(* The checks of the flags, dup_task_struct() and the first copy; when one *)
(* of them fails nothing is left behind.                                   *)
do_fork(t) ==
    /\ pc[t] = "user" /\ tstate[t] = "alive" /\ ~killed[t]
    /\ \E c \in Tasks, f \in CloneFlags :
          /\ tstate[c] = "free"
          /\ "signal" \in f => "sighand" \in f
          /\ "sighand" \in f => "mm" \in f
          /\ tstate' = [tstate EXCEPT ![c] = "embryo"]
          /\ child' = [child EXCEPT ![t] = c]
          /\ flags' = [flags EXCEPT ![t] = f]
          /\ copy_files(t, c, f)
    /\ UNCHANGED <<leader, killed, vfork_done, group_exit, mmVars, ofiles>>

(* An allocation may fail, and then what was copied before is released.    *)
Copy(t, k, next, cleanup) ==
    /\ pc[t] = k
    /\ \/ CopyTo(t, child[t], k, k \in flags[t], next)
       \/ /\ k \notin flags[t]
          /\ Goto(t, cleanup)
          /\ UNCHANGED <<count, hold>>
    /\ UNCHANGED <<tstate, leader, killed, vfork_done, group_exit, locals>>

copy_sighand(t) == Copy(t, "sighand", "signal", "bad_fork_files") /\ UNCHANGED mmVars
copy_signal(t) == Copy(t, "signal", "mm", "bad_fork_sighand") /\ UNCHANGED mmVars

(* A new mm starts as a copy of the old one; dup_mmap() takes mmap_sem.    *)
copy_mm(t) ==
    LET m == hold[t]["mm"]
    IN  /\ Copy(t, "mm", "link", "bad_fork_signal")
        /\ "mm" \notin flags[t] => mmap_sem[m] = None
        /\ dumpable' = [o \in Objs |-> IF o = hold'[child[t]]["mm"] THEN dumpable[m] ELSE dumpable[o]]
        /\ UNCHANGED <<mmap_sem, core_waiters, core_startup_done, core_done>>

(* Under tasklist_lock: nothing is added for a task with SIGKILL pending,  *)
(* no thread to a group that is exiting.  do_fork() sets vfork_done before *)
(* it wakes the child, and sleeps on it.                                   *)
MayLink_noKill(t) == "signal" \in flags[t] => ~group_exit[hold[t]["signal"]]
MayLink(t) == ~killed[t] /\ ("signal" \in flags[t] => ~group_exit[hold[t]["signal"]])

link(t) ==
    /\ pc[t] = "link" /\ MayLink(t)
    /\ tstate' = [tstate EXCEPT ![child[t]] = "alive"]
    /\ leader' = [leader EXCEPT ![child[t]] = IF "signal" \in flags[t]
                                              THEN leader[t] ELSE child[t]]
    /\ vfork_done' = [vfork_done EXCEPT ![child[t]] = IF "vfork" \in flags[t] THEN t ELSE None]
    /\ Goto(t, IF "vfork" \in flags[t] THEN "vfork" ELSE "user")
    /\ child' = [child EXCEPT ![t] = None]
    /\ flags' = [flags EXCEPT ![t] = {}]
    /\ UNCHANGED <<hold, killed, count, group_exit, mmVars, ofiles>>

wait_for_vfork(t) ==
    /\ pc[t] = "vfork" /\ \A c \in Tasks : vfork_done[c] # t
    /\ Goto(t, "user")
    /\ UNCHANGED <<groupVars, count, group_exit, mmVars, locals>>

(* The labels at the end of copy_process(), in reverse order of the copies.*)
(* The first is reached when the task may not be linked, or when a copy    *)
(* after the mm fails.                                                     *)
Cleanup(t, k, l, next) ==
    /\ pc[t] = l
    /\ count' = Dec(count, k, hold[child[t]][k])
    /\ Hold(child[t], k, None)
    /\ Goto(t, next)
    /\ UNCHANGED <<leader, killed, vfork_done, group_exit, mmVars, ofiles>>

bad_fork_cleanup(t) ==
    /\ \/ Cleanup(t, "mm", "link", "bad_fork_signal")
       \/ Cleanup(t, "signal", "bad_fork_signal", "bad_fork_sighand")
       \/ Cleanup(t, "sighand", "bad_fork_sighand", "bad_fork_files")
    /\ UNCHANGED <<tstate, child, flags>>

bad_fork_files(t) ==
    /\ Cleanup(t, "files", "bad_fork_files", "user")
    /\ tstate' = [tstate EXCEPT ![child[t]] = "free"]
    /\ child' = [child EXCEPT ![t] = None]
    /\ flags' = [flags EXCEPT ![t] = {}]

-----------------------------------------------------------------------------
(* flush_old_exec(), from the call of de_thread() on.                      *)

(* Handlers that nobody shares are kept.  Otherwise a new table is         *)
(* allocated, which may fail; then execve returns.                         *)
de_thread(t) ==
    /\ pc[t] = "user" /\ tstate[t] = "alive" /\ ~killed[t]
    /\ IF count["sighand"][hold[t]["sighand"]] <= 1
       THEN Goto(t, "unshare_files")
       ELSE Goto(t, "zap") \/ Goto(t, "user")
    /\ UNCHANGED <<groupVars, count, group_exit, mmVars, locals>>

(* Kill the other threads, unless another group action is in progress.     *)
zap_others(t) ==
    /\ pc[t] = "zap"
    /\ \/ /\ Group(t) = {t}
          /\ Goto(t, "no_thread_group")
          /\ UNCHANGED <<killed, group_exit>>
       \/ /\ Group(t) # {t} /\ group_exit[hold[t]["signal"]]
          /\ Goto(t, "user")
          /\ UNCHANGED <<killed, group_exit>>
       \/ /\ Group(t) # {t} /\ ~group_exit[hold[t]["signal"]]
          /\ group_exit' = [group_exit EXCEPT ![hold[t]["signal"]] = TRUE]
          /\ killed' = Kill(Group(t) \ {t})
          /\ Goto(t, "wait_threads")
    /\ UNCHANGED <<tstate, hold, leader, vfork_done, count, mmVars, locals>>

(* Sleep until the signal_struct is used by this task only, and by the     *)
(* leader that hangs around.                                               *)
Remaining(t) == IF leader[t] = t THEN 1 ELSE 2

wait_threads(t) ==
    /\ pc[t] = "wait_threads"
    /\ count["signal"][hold[t]["signal"]] <= Remaining(t)
    /\ Goto(t, IF leader[t] = t THEN "flags" ELSE "wait_leader")
    /\ UNCHANGED <<groupVars, count, group_exit, mmVars, locals>>

(* release_task(): the last references of a dead task.                     *)
release_task(u) ==
    /\ tstate' = [tstate EXCEPT ![u] = "dead"]
    /\ hold' = [hold EXCEPT ![u] = Bare]
    /\ killed' = [killed EXCEPT ![u] = FALSE]
    /\ count' = Dec(Dec(count, "signal", hold[u]["signal"]), "sighand", hold[u]["sighand"])
    /\ group_exit' = [group_exit EXCEPT ![hold[u]["signal"]] =
                         @ /\ count["signal"][hold[u]["signal"]] # 1]

(* Take the place of the old leader, once it is a zombie.                  *)
wait_leader(t) ==
    /\ pc[t] = "wait_leader" /\ tstate[leader[t]] = "zombie"
    /\ release_task(leader[t])
    /\ leader' = [leader EXCEPT ![t] = t, ![leader[t]] = None]
    /\ Goto(t, "flags")
    /\ UNCHANGED <<vfork_done, mmVars, locals>>

clear_flags(t) ==
    /\ pc[t] = "flags"
    /\ group_exit' = [group_exit EXCEPT ![hold[t]["signal"]] = FALSE]
    /\ Goto(t, "no_thread_group")
    /\ UNCHANGED <<groupVars, count, mmVars, locals>>

(* Keep the table of handlers if nobody else has it, else take a copy.     *)
no_thread_group_shares(t) ==
    /\ pc[t] = "no_thread_group"
    /\ Goto(t, "unshare_files")
    /\ UNCHANGED <<groupVars, count, group_exit, mmVars, locals>>
no_thread_group(t) ==
    LET h == hold[t]["sighand"]
    IN  /\ pc[t] = "no_thread_group"
        /\ \/ /\ count["sighand"][h] = 1
              /\ UNCHANGED <<hold, count>>
           \/ /\ count["sighand"][h] # 1 /\ CanAlloc("sighand")
              /\ Hold(t, "sighand", Fresh("sighand"))
              /\ count' = Dec(Inc(count, "sighand", Fresh("sighand")), "sighand", h)
        /\ Goto(t, "unshare_files")
        /\ UNCHANGED <<tstate, leader, killed, vfork_done, group_exit, mmVars, locals>>

(* unshare_files(): a table of descriptors that is not shared gets a       *)
(* second reference, for the caller to drop; else it is copied.            *)
unshare_files_noref(t) ==
    /\ pc[t] = "unshare_files"
    /\ ofiles' = [ofiles EXCEPT ![t] = hold[t]["files"]]
    /\ Goto(t, "mm_release")
    /\ UNCHANGED <<groupVars, count, group_exit, mmVars, child, flags>>
unshare_files(t) ==
    LET f == hold[t]["files"]
    IN  /\ pc[t] = "unshare_files"
        /\ \/ /\ count["files"][f] = 1
              /\ count' = Inc(count, "files", f)
              /\ ofiles' = [ofiles EXCEPT ![t] = f]
              /\ Goto(t, "mm_release")
              /\ UNCHANGED hold
           \/ /\ count["files"][f] # 1 /\ CanAlloc("files")
              /\ count' = Inc(count, "files", Fresh("files"))
              /\ ofiles' = [ofiles EXCEPT ![t] = f]
              /\ Hold(t, "files", Fresh("files"))
              /\ Goto(t, "mm_release")
           \/ /\ count["files"][f] # 1
              /\ Goto(t, "user")
              /\ UNCHANGED <<count, hold, ofiles>>
        /\ UNCHANGED <<tstate, leader, killed, vfork_done, group_exit, mmVars, child, flags>>

(* exec_mmap(): release the old mm, and with mmap_sem held leave it unless *)
(* its core is being dumped.  The number of an mm that is freed by this is *)
(* the number of the new one.                                              *)
exec_mm_release(t) ==
    /\ pc[t] = "mm_release"
    /\ mm_release(t)
    /\ Goto(t, "exec_mmap")
    /\ UNCHANGED <<tstate, hold, leader, killed, count, group_exit, mmVars, locals>>

exec_mmap(t) ==
    LET m == hold[t]["mm"]
        new == IF count["mm"][m] = 1 THEN m ELSE Fresh("mm")
    IN  /\ pc[t] = "exec_mmap" /\ mmap_sem[m] = None /\ core_waiters[m] = 0
        /\ count["mm"][m] = 1 \/ CanAlloc("mm")
        /\ Hold(t, "mm", new)
        /\ count' = Inc(Dec(count, "mm", m), "mm", new)
        /\ Goto(t, "put_files")
        /\ UNCHANGED <<tstate, leader, killed, vfork_done, group_exit, mmVars, locals>>

mmap_failed(t) ==
    LET m == hold[t]["mm"]
    IN  /\ pc[t] = "exec_mmap" /\ mmap_sem[m] = None /\ core_waiters[m] # 0
        /\ count' = Dec(count, "files", hold[t]["files"])
        /\ Hold(t, "files", ofiles[t])
        /\ ofiles' = [ofiles EXCEPT ![t] = None]
        /\ Goto(t, "user")
        /\ UNCHANGED <<tstate, leader, killed, vfork_done, group_exit, mmVars, child, flags>>

(* The point of no return: drop the old descriptors ...                    *)
put_files_struct(t) ==
    /\ pc[t] = "put_files"
    /\ count' = Dec(count, "files", ofiles[t])
    /\ ofiles' = [ofiles EXCEPT ![t] = None]
    /\ dumpable' = [dumpable EXCEPT ![hold[t]["mm"]] = TRUE]
    /\ Goto(t, "flush")
    /\ UNCHANGED <<groupVars, group_exit, mmap_sem, core_waiters, core_startup_done,
                   core_done, child, flags>>

(* ... and reset the handlers and the descriptors, which are ours now.     *)
flush_handlers(t) ==
    /\ pc[t] = "flush"
    /\ Goto(t, "user")
    /\ UNCHANGED <<groupVars, count, group_exit, mmVars, locals>>

-----------------------------------------------------------------------------
(* do_coredump().                                                          *)

(* A signal whose default action is to dump core has been dequeued.        *)
FatalSignal(t) ==
    /\ pc[t] = "user" /\ tstate[t] = "alive" /\ ~killed[t]
    /\ Goto(t, "do_coredump")
    /\ UNCHANGED <<groupVars, count, group_exit, mmVars, locals>>

(* The format has no core_dump, or the mm is not dumpable.                 *)
coredump_refused(t) ==
    /\ pc[t] = "do_coredump"
    /\ Goto(t, "group_exit")
    /\ UNCHANGED <<groupVars, count, group_exit, mmVars, locals>>

(* mmap_sem is held until the tasks of the mm are counted; a parent in     *)
(* vfork() is let go.                                                      *)
do_coredump(t) ==
    LET m == hold[t]["mm"]
    IN  /\ pc[t] = "do_coredump" /\ mmap_sem[m] = None /\ dumpable[m]
        /\ mmap_sem' = [mmap_sem EXCEPT ![m] = t]
        /\ dumpable' = [dumpable EXCEPT ![m] = FALSE]
        /\ core_done' = [core_done EXCEPT ![m] = FALSE]
        /\ core_startup_done' = [core_startup_done EXCEPT ![m] = FALSE]
        /\ core_waiters' = [core_waiters EXCEPT ![m] = @ + 1]
        /\ group_exit' = [group_exit EXCEPT ![hold[t]["signal"]] = TRUE]
        /\ vfork_done' = [vfork_done EXCEPT ![t] = None]
        /\ Goto(t, "zap_threads")
        /\ UNCHANGED <<tstate, hold, leader, killed, count, locals>>

(* zap_threads(): kill and count every other task of the mm.               *)
zap_threads(t) ==
    LET m == hold[t]["mm"]
        users == {u \in Tasks \ {t} : tstate[u] = "alive" /\ hold[u]["mm"] = m}
        n == core_waiters[m] + Cardinality(users) - 1
    IN  /\ pc[t] = "zap_threads"
        /\ killed' = Kill(users)
        /\ core_waiters' = [core_waiters EXCEPT ![m] = n]
        /\ mmap_sem' = [mmap_sem EXCEPT ![m] = None]
        /\ Goto(t, IF n = 0 THEN "core_dump" ELSE "coredump_wait")
        /\ UNCHANGED <<tstate, hold, leader, vfork_done, count, group_exit, locals,
                       dumpable, core_startup_done, core_done>>

coredump_wait(t) ==
    /\ pc[t] = "coredump_wait" /\ core_startup_done[hold[t]["mm"]]
    /\ Goto(t, "core_dump")
    /\ UNCHANGED <<groupVars, count, group_exit, mmVars, locals>>

(* The core is written, or not, and the tasks that wait for it go on.      *)
core_dump(t) ==
    /\ pc[t] = "core_dump"
    /\ core_done' = [core_done EXCEPT ![hold[t]["mm"]] = TRUE]
    /\ Goto(t, "group_exit")
    /\ UNCHANGED <<groupVars, count, group_exit, locals, mmap_sem, dumpable,
                   core_waiters, core_startup_done>>

-----------------------------------------------------------------------------
(* External: exit, exit_group and wait4.                                   *)

(* A task leaves its mm: first mm_release() ...                            *)
do_exit(t) ==
    /\ pc[t] = "user" /\ tstate[t] = "alive"
    /\ mm_release(t)
    /\ Goto(t, "exit_mm")
    /\ UNCHANGED <<tstate, hold, leader, killed, count, group_exit, mmVars, locals>>

do_group_exit(t) ==
    LET s == hold[t]["signal"]
        zap == ~group_exit[s] /\ Group(t) # {t}
    IN  /\ pc[t] = "group_exit" \/ (pc[t] = "user" /\ tstate[t] = "alive" /\ ~killed[t])
        /\ group_exit' = [group_exit EXCEPT ![s] = @ \/ zap]
        /\ killed' = IF zap THEN Kill(Group(t) \ {t}) ELSE killed
        /\ mm_release(t)
        /\ Goto(t, "exit_mm")
        /\ UNCHANGED <<tstate, hold, leader, count, mmVars, locals>>

(* ... then, with mmap_sem held, a task whose core is being dumped checks  *)
(* in, the last one lets the dump start, and waits for its end.            *)
exit_mm(t) ==
    LET m == hold[t]["mm"]
    IN  /\ pc[t] = "exit_mm" /\ mmap_sem[m] = None
        /\ \/ /\ core_waiters[m] # 0
              /\ core_waiters' = [core_waiters EXCEPT ![m] = @ - 1]
              /\ core_startup_done' = [core_startup_done EXCEPT ![m] = core_waiters[m] = 1]
              /\ Goto(t, "core_done")
              /\ UNCHANGED <<hold, count, dumpable, core_done>>
           \/ /\ core_waiters[m] = 0
              /\ mmput(m)
              /\ Hold(t, "mm", None)
              /\ Goto(t, "exit_notify")
              /\ UNCHANGED core_waiters
        /\ UNCHANGED <<tstate, leader, killed, vfork_done, group_exit, mmap_sem, locals>>

wait_core_done(t) ==
    /\ pc[t] = "core_done" /\ core_done[hold[t]["mm"]]
    /\ mmput(hold[t]["mm"])
    /\ Hold(t, "mm", None)
    /\ Goto(t, "exit_notify")
    /\ UNCHANGED <<tstate, leader, killed, vfork_done, group_exit, mmap_sem, core_waiters, locals>>

(* The leader becomes a zombie; another thread is released by itself.      *)
exit_notify(t) ==
    LET c == Dec(count, "files", hold[t]["files"])
        s == hold[t]["signal"]
    IN  /\ pc[t] = "exit_notify"
        /\ Goto(t, "user")
        /\ killed' = [killed EXCEPT ![t] = FALSE]
        /\ \/ /\ leader[t] = t
              /\ tstate' = [tstate EXCEPT ![t] = "zombie"]
              /\ hold' = [hold EXCEPT ![t]["files"] = None]
              /\ count' = c
              /\ UNCHANGED <<leader, group_exit>>
           \/ /\ leader[t] # t
              /\ tstate' = [tstate EXCEPT ![t] = "dead"]
              /\ hold' = [hold EXCEPT ![t] = Bare]
              /\ leader' = [leader EXCEPT ![t] = None]
              /\ count' = Dec(Dec(c, "signal", s), "sighand", hold[t]["sighand"])
              /\ UNCHANGED group_exit
        /\ UNCHANGED <<vfork_done, mmVars, locals>>

(* wait4(): a zombie leader without threads is released.                   *)
wait4(t) ==
    /\ tstate[t] = "zombie" /\ Group(t) = {t}
    /\ release_task(t)
    /\ leader' = [leader EXCEPT ![t] = None]
    /\ UNCHANGED <<vfork_done, mmVars, pc, locals>>

-----------------------------------------------------------------------------
Fork(t) ==
    \/ copy_sighand(t) \/ copy_signal(t) \/ copy_mm(t) \/ link(t)
    \/ wait_for_vfork(t) \/ bad_fork_cleanup(t) \/ bad_fork_files(t)

Exec(t) ==
    \/ zap_others(t) \/ wait_threads(t) \/ wait_leader(t)
    \/ clear_flags(t) \/ no_thread_group(t) \/ unshare_files(t)
    \/ exec_mm_release(t) \/ exec_mmap(t) \/ mmap_failed(t)
    \/ put_files_struct(t) \/ flush_handlers(t)

Dump(t) ==
    \/ coredump_refused(t) \/ do_coredump(t) \/ zap_threads(t)
    \/ coredump_wait(t) \/ core_dump(t)

Exit(t) ==
    \/ do_group_exit(t) \/ exit_mm(t) \/ wait_core_done(t) \/ exit_notify(t)

(* What a program or the arrival of a signal starts.                       *)
Begin(t) == do_fork(t) \/ de_thread(t) \/ FatalSignal(t)

Next ==
    \E t \in Tasks : Begin(t) \/ do_exit(t) \/ Fork(t) \/ Exec(t) \/ Dump(t) \/ Exit(t) \/ wait4(t)

Spec == Init /\ [][Next]_vars

(* A task in the kernel is scheduled again, one with SIGKILL pending does  *)
(* not stay in user mode.  Nothing is assumed of programs, nor that a      *)
(* signal arrives or that a parent waits.                                  *)
FairSpec ==
    /\ Spec
    /\ \A t \in Tasks :
          /\ WF_vars(Fork(t)) /\ WF_vars(Exec(t)) /\ WF_vars(Dump(t))
          /\ WF_vars(pc[t] # "user" /\ Exit(t))
          /\ WF_vars(killed[t] /\ do_exit(t))

-----------------------------------------------------------------------------
TypeOK ==
    /\ tstate \in [Tasks -> {"free", "embryo", "alive", "zombie", "dead"}]
    /\ hold \in [Tasks -> [Kinds -> Objs \union {None}]]
    /\ leader \in [Tasks -> Tasks \union {None}] /\ killed \in [Tasks -> BOOLEAN]
    /\ vfork_done \in [Tasks -> Tasks \union {None}]
    /\ count \in [Kinds -> [Objs -> Nat]]
    /\ group_exit \in [Objs -> BOOLEAN] /\ dumpable \in [Objs -> BOOLEAN]
    /\ mmap_sem \in [Objs -> Tasks \union {None}] /\ core_waiters \in [Objs -> Nat]
    /\ core_startup_done \in [Objs -> BOOLEAN] /\ core_done \in [Objs -> BOOLEAN]
    /\ child \in [Tasks -> Tasks \union {None}] /\ flags \in [Tasks -> {{}} \union CloneFlags]
    /\ ofiles \in [Tasks -> Objs \union {None}]

(* The count of every object is the number of tasks that point to it, the  *)
(* ones under construction in copy_process() included, and of the locals   *)
(* of flush_old_exec() that will be dropped: a clone that fails halfway    *)
(* gives back exactly what it took, and so does an exec.                   *)
CountsExact ==
    \A k \in Kinds, o \in Objs :
        count[k][o] = Cardinality({t \in Tasks : hold[t][k] = o})
                      + (IF k = "files" THEN Cardinality({t \in Tasks : ofiles[t] = o}) ELSE 0)

(* When flush_old_exec() resets the signal handlers and closes the         *)
(* descriptors, no other task has the same table of handlers, of           *)
(* descriptors, the same mm or thread group: an exec disturbs nobody, and  *)
(* the task leads the group it is alone in.                                *)
ExecOwnsItsTables ==
    \A t \in Tasks : pc[t] = "flush" =>
        /\ leader[t] = t
        /\ \A u \in Tasks \ {t}, k \in Kinds : hold[u][k] # hold[t][k]

(* The BUG_ONs of de_thread() and coredump_wait() never fire: unshared     *)
(* handlers imply a task without threads, after the threads are gone the   *)
(* signal_struct has one user and the task leads, and when a dump starts   *)
(* nobody is left to check in.                                             *)
BugOnsHold ==
    \A t \in Tasks :
        LET users == count["signal"][hold[t]["signal"]]
        IN  /\ tstate[t] = "alive" /\ count["sighand"][hold[t]["sighand"]] <= 1 => users = 1
            /\ pc[t] = "no_thread_group" => users = 1 /\ leader[t] = t
            /\ pc[t] = "core_dump" => core_waiters[hold[t]["mm"]] = 0

(* While a core is written, every other task of the mm waits in exit for   *)
(* the end of the dump: clones in progress, execs and vforks included,     *)
(* nobody changes the memory that is being dumped.                         *)
DumpIsQuiet ==
    \A t, u \in Tasks :
        /\ pc[t] = "core_dump" /\ u # t /\ hold[u]["mm"] = hold[t]["mm"]
        => pc[u] = "core_done"

(* A task whose vfork_done points to the stack of its parent still runs on *)
(* the mm of the parent, and the parent is still in do_fork().             *)
VforkParentWaits ==
    \A c, p \in Tasks :
        vfork_done[c] = p => /\ pc[p] = "vfork" /\ tstate[p] = "alive"
                             /\ hold[c]["mm"] = hold[p]["mm"]

(* A task that dumps core does not wait for ever for the other tasks of    *)
(* the mm: the exec of one of them gets out and dies (exec_mmap()), a      *)
(* parent in vfork() is let go (zap_threads()).                            *)
DumpEnds == \A t \in Tasks : pc[t] = "coredump_wait" ~> pc[t] # "coredump_wait"
=============================================================================
