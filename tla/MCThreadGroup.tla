---------------------------- MODULE MCThreadGroup ----------------------------
(* Instances of ThreadGroup for TLC.                                       *)
EXTENDS ThreadGroup, TLC

CONSTANTS t1, t2, t3

fork == {}
vfork == {"mm", "vfork"}
thread == {"files", "sighand", "signal", "mm"}
sharing == {"sighand", "mm", "vfork"}   \* CLONE_SIGHAND, CLONE_VM and CLONE_VFORK

MCTasks == {t1, t2, t3}
MCFlags == {fork, vfork, thread, sharing}
Symmetry == Permutations({t2, t3})
MCObjs == 1 .. 4

(* For liveness: two threads of one process.                               *)
TwoTasks == {t1, t2}
Threads == {thread}
=============================================================================
