---------------------------- MODULE MCBinfmtExec ----------------------------
(* Two tasks that execute files of every format while modules come and go. *)
EXTENDS BinfmtExec, TLC

CONSTANTS t1, t2

Symmetric == Permutations(Tasks)
=============================================================================
