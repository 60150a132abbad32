------------------------------ MODULE MCTasks ------------------------------
(***************************************************************************)
(* Tasks and what they own, for TLC: ThreadGroup with three tasks, the     *)
(* memory of a forked process, the registers that a processor switches     *)
(* lazily, pipe(), signals, children and limits.  These share no state, so *)
(* a behaviour is one of one part, which Parts has, and the others are at  *)
(* rest.  The variables y1, y2, ... are those of the part, in the order of *)
(* its VARIABLES; ThreadGroup, which is extended, has its own.             *)
(***************************************************************************)
EXTENDS MCThreadGroup, RlimitConst, Sequences

CONSTANTS Parts,
          Areas, MapFiles, MaxAreas, CommitLimit,     \* fork
          Ports, Values, Excs, Addrs,                 \* traps
          Fds, Files, Inodes,                         \* pipe
          Pers, UserSignals, Handled, Masks, MaxFrames,
          Children, Exits, Hits, Kills                \* wait

VARIABLES part, y1, y2, y3, y4, y5, y6, y7, y8, y9, y10, y11, y12, y13

U == INSTANCE DupMmap WITH mmap <- y1, total_vm <- y2, child <- y3, ctotal_vm <- y4,
        committed <- y5, f_count <- y6, denied <- y7, objs <- y8, pc <- y9, rest <- y10,
        charge <- y11, raced <- y12
V == INSTANCE Traps WITH cur <- y1, cpu <- y2, th <- y3, sig <- y4, prog <- y5, uses <- y6,
        Tasks <- {t2, t3}
P == INSTANCE PipeCreate WITH fdt <- y1, file <- y2, inode <- y3, of <- y4, mnt <- y5,
        th <- y6, got <- y7, Threads <- {t2, t3}
G == INSTANCE SvrSignal WITH pers <- y1, pending <- y2, shared <- y3, blocked <- y4,
        action <- y5, pc <- y6, sig <- y7, vec <- y8, saved <- y9, frames <- y10,
        err <- y11, want <- y12, wantAct <- y13, Pers <- {"ibcs"}
W == INSTANCE SvrProc WITH per <- y1, proc <- y2, loc <- y3, said <- y4
R == INSTANCE Rlimit WITH rlim <- y1, cap <- y2, pc <- y3, arg <- y4, raced <- y5,
        loose <- y6, Threads <- {t2, t3}

MCAreas ==
    {[len |-> 2, file |-> 0, flags |-> {"account"}], [len |-> 1, file |-> 1, flags |-> {"denywrite"}],
     [len |-> 1, file |-> 1, flags |-> {"account"}], [len |-> 3, file |-> 0, flags |-> {"dontcopy"}]}
MCExcs == {{}, {0}, {1, 4}}
MCMasks == {{}, {2, 16}}
MCStart == {[cur |-> 1, max |-> 2], [cur |-> INFINITY, max |-> INFINITY]}

-----------------------------------------------------------------------------
Rest12 == y13 = 0
Rest7 == y8 = 0 /\ y9 = 0 /\ y10 = 0 /\ y11 = 0 /\ y12 = 0 /\ Rest12
Rest6 == y7 = 0 /\ Rest7
Rest4 == y5 = 0 /\ y6 = 0 /\ Rest6
Rest0 == y1 = 0 /\ y2 = 0 /\ y3 = 0 /\ y4 = 0 /\ Rest4
Same12 == UNCHANGED y13
Same7 == UNCHANGED <<y8, y9, y10, y11, y12>> /\ Same12
Same6 == UNCHANGED y7 /\ Same7
Same4 == UNCHANGED <<y5, y6>> /\ Same6
Same0 == UNCHANGED <<y1, y2, y3, y4>> /\ Same4

mcvars == <<vars, part, y1, y2, y3, y4, y5, y6, y7, y8, y9, y10, y11, y12, y13>>
MCInit == part \in Parts /\ Init /\ (
    \/ part = "group" /\ Rest0
    \/ part = "fork" /\ U!Init /\ Rest12
    \/ part = "traps" /\ V!Init /\ Rest6
    \/ part = "pipe" /\ P!Init /\ Rest7
    \/ part = "signal" /\ G!Init
    \/ part = "wait" /\ W!Init /\ Rest4
    \/ part = "rlimit" /\ R!Init /\ Rest6 )
MCNext ==
    \/ part = "group" /\ Next /\ Same0 /\ UNCHANGED part
    \/ part = "fork" /\ U!Next /\ Same12 /\ UNCHANGED <<vars, part>>
    \/ part = "traps" /\ V!Next /\ Same6 /\ UNCHANGED <<vars, part>>
    \/ part = "pipe" /\ P!Next /\ Same7 /\ UNCHANGED <<vars, part>>
    \/ part = "signal" /\ G!Next /\ UNCHANGED <<vars, part>>
    \/ part = "wait" /\ W!Next /\ Same4 /\ UNCHANGED <<vars, part>>
    \/ part = "rlimit" /\ R!Next /\ Same6 /\ UNCHANGED <<vars, part>>
MCSpec == MCInit /\ [][MCNext]_mcvars

-----------------------------------------------------------------------------
(* The states of every part have their types. *)
TypesOK ==
    /\ TypeOK
    /\ part = "fork" => U!TypeOK
    /\ part = "traps" => V!TypeOK
    /\ part = "pipe" => P!TypeOK
    /\ part = "signal" => G!TypeOK
    /\ part = "wait" => W!TypeOK
    /\ part = "rlimit" => R!TypeOK

(* Every count of a shared table is the number of its users, and a task    *)
(* that resets handlers and closes descriptors in flush_old_exec() shares  *)
(* its tables with nobody.                                                 *)
TablesAreOwned == CountsExact /\ ExecOwnsItsTables

(* Nobody disturbs an exec, a core dump or a vfork: the BUG_ONs of         *)
(* de_thread() and coredump_wait() hold, a dumped mm is quiet, and the     *)
(* parent of a vfork() waits.                                              *)
GroupActionsAreAlone == BugOnsHold /\ DumpIsQuiet /\ VforkParentWaits

(* Wherever copy_mm(), dup_mmap() or do_pipe() fails, it has undone what   *)
(* it did, and no more: charged pages, files and their denied writers,     *)
(* the child's size, the inode, the ends and the descriptors of a pipe.    *)
FailedCallsLeaveNothing ==
    /\ part = "fork" => U!ChargesAreOwed /\ U!MappedFilesAreCounted /\ U!ChildSizeIsItsOwn
                        /\ U!FailedForkFreesAll
    /\ part = "pipe" => P!NothingIsLeaked /\ P!EndsAreCounted /\ P!ReturnsBothEnds

(* What the processor holds or the saved image has of the FPU, the ports   *)
(* and the watchpoints is that of the task that runs, and a fault signal   *)
(* is for what its own task did (do_general_protection(),                  *)
(* math_state_restore(), math_error(), simd_math_error(), do_debug()).     *)
LazyStateIsTheTasksOwn ==
    part = "traps" => V!FpuIsTheTasksOwn /\ V!PortsAreTheTasksOwn /\ V!FaultsAreTheTasksOwn
                      /\ V!WatchpointsStaySet

(* Mask and handlers are those that the program asked for, whatever        *)
(* signals arrive between the steps of a call, and a call that reports an  *)
(* error has changed nothing (abi_sigfunc(), abi_sigprocmask(),            *)
(* abi_sigsuspend(), xnx_sigaction()).                                     *)
SignalsAreTheProgramsOwn ==
    /\ [](part = "signal" => G!MaskIsWhatTheProgramSet /\ G!HandlerIsWhatTheProgramSet)
    /\ [][part = "signal" => G!FailedCall]_mcvars

(* wait() and its kind tell how the child ended, a wait that finds none    *)
(* keeps the kind of an older status, and setpgrp() makes a group leader   *)
(* (abi_wait(), wyse_wait3(), svr4_waitid(), abi_procids()).               *)
ChildrenAreReported ==
    /\ [](part = "wait" => W!ReportedFate /\ W!SetpgrpMakesALeader)
    /\ [][part = "wait" => W!Poll]_mcvars

(* Without the capability hard limits only fall, and between calls soft    *)
(* limits are within them (svr4_ulimit(), uw7_check_rlimit64(),            *)
(* uw7_setrlimit64()).                                                     *)
LimitsHold ==
    /\ [](part = "rlimit" => R!SoftWithinHard)
    /\ [][part = "rlimit" => R!Falls]_mcvars
=============================================================================
