------------------------------- MODULE MCLive -------------------------------
(***************************************************************************)
(* What must eventually happen, for TLC: a pipe, and a task that executes  *)
(* files.  A behaviour is one of one of them, and fairness is that of the  *)
(* one that runs.                                                          *)
(***************************************************************************)
EXTENDS Pipe

CONSTANTS r1, r2, w1, Tasks, Coff, Xout, Elf, Mods, NoFmt, Images, Junk, MaxLibs

VARIABLES mstate, mref, formats, binfmt, bpc, image, cur, lib, try, retval, status,
          libs, held, space, filled, segv
VARIABLE part

B == INSTANCE BinfmtExec WITH pc <- bpc

execVars == <<mstate, mref, formats, binfmt, bpc, image, cur, lib, try, retval, status,
              libs, held, space, filled, segv>>

MCInit == part \in {"pipe", "exec"} /\ Init /\ B!Init

OfPipe(A) == part = "pipe" /\ A /\ UNCHANGED <<execVars, part>>
OfExec(A) == part = "exec" /\ A /\ UNCHANGED <<vars, part>>

MCNext ==
    \/ part = "pipe" /\ Next /\ UNCHANGED <<execVars, part>>
    \/ part = "exec" /\ B!Next /\ UNCHANGED <<vars, part>>

mcvars == <<vars, execVars, part>>

(* A process in the kernel runs, and down() is not starved. *)
MCFairness ==
    /\ \A p \in Procs : WF_mcvars(OfPipe(KernelStep(p))) /\ SF_mcvars(OfPipe(LockStep(p)))
    /\ \A t \in Tasks : WF_mcvars(OfExec(B!KernelStep(t)))

MCSpec == MCInit /\ [][MCNext]_mcvars /\ MCFairness

(* Every execve() and uselib() returns: the walk over the formats that     *)
(* search_binary_handler() starts again after request_module() ends.       *)
ExecReturns == B!ExecReturns
=============================================================================
