------------------------------- MODULE MCPipe -------------------------------
(***************************************************************************)
(* Two small pipes for TLC; a behaviour is one of one of them.  "writers": *)
(* two writers, of which one polls, and a reader that does not block.      *)
(* "order": one reader and one writer whose bytes are numbered, with       *)
(* writes of more than the pipe holds and signals on both sides.           *)
(***************************************************************************)
EXTENDS Pipe

CONSTANTS r1, w1, w2

VARIABLE part

ASSUME PartsAssumption == r1 # w1 /\ NoProc \notin {r1, w1}

O == INSTANCE Pipe WITH Readers <- {r1}, Writers <- {w1}, NonBlock <- {},
        ReadSizes <- {1, 3},
        WriteSizes <- {1, 3, 5}, Polling <- {}, Signalled <- {r1, w1}, ByteMod <- 5

MCInit == (part = "writers" /\ Init) \/ (part = "order" /\ O!Init)

MCNext ==
    \/ part = "writers" /\ Next /\ UNCHANGED part
    \/ part = "order" /\ O!Next /\ UNCHANGED part

MCSpec == MCInit /\ [][MCNext]_<<vars, part>>

-----------------------------------------------------------------------------
(* The ring and its pages agree, with every index and count in range       *)
(* (pipe_readv(), pipe_writev(), pipe_release()).                          *)
RingIsSound == part = "writers" => TypeOK /\ RingOwnsPages

(* A writer's bytes leave the pipe in the order in which pipe_writev()     *)
(* took them, also when writes of more than the pipe holds are cut by      *)
(* signals; its ring is sound too.                                         *)
StreamsInOrder == part = "order" => O!TypeOK /\ RingOwnsPages /\ O!StreamInOrder

(* A write of at most a page by one process is not interleaved with those  *)
(* of another (pipe_writev()).                                             *)
SmallWritesAreWhole == part = "writers" => SmallWritesAtomic

(* A process that sleeps in pipe_wait() or in select(2) though it could go *)
(* on is about to be woken, and PIPE_WAITING_WRITERS, which decides        *)
(* whether a reader sleeps, counts the writers inside pipe_wait().         *)
NoWakeupIsLost == part = "writers" => NoLostWakeup /\ WaitingCounted
=============================================================================
