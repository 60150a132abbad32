--------------------------- MODULE MCPipe_proofs ----------------------------
(***************************************************************************)
(* The properties of the two pipes of MCPipe.                              *)
(***************************************************************************)
EXTENDS MCPipe, Pipe_proofs

P == INSTANCE Pipe_proofs WITH Readers <- {r1}, Writers <- {w1}, NonBlock <- {},
        ReadSizes <- {1, 3},
        WriteSizes <- {1, 3, 5}, Polling <- {}, Signalled <- {r1, w1}, ByteMod <- 5

(* The pipe of the first part keeps its invariant.                         *)
LEMMA PartInv == MCSpec => [](part = "writers" => IInv)
<1>1. MCInit => (part = "writers" => IInv)
  BY InvInit, Zenon DEF MCInit
<1>2. (part = "writers" => IInv) /\ [MCNext]_<<vars, part>> => (part = "writers" => IInv)'
  <2> SUFFICES ASSUME part = "writers" => IInv, [MCNext]_<<vars, part>>, part' = "writers"
               PROVE  IInv'
    BY Zenon
  <2>1. part = "writers" /\ [Next]_vars
    BY Zenon DEF MCNext
  <2> QED BY <2>1, InvStep, Zenon
<1>3. QED
  BY <1>1, <1>2, PTL DEF MCSpec

(* The ring of pipe_readv() and pipe_writev() and the pages behind it      *)
(* agree, whatever the number of processes and the sizes: the buffers in   *)
(* use are the nrbufs ones from curbuf on, none is empty or runs over its  *)
(* page, no page leaks and none is used twice.                             *)
THEOREM RingSound == MCSpec => []RingIsSound
<1>1. (part = "writers" => IInv) => RingIsSound
  BY InvGives, Zenon DEF RingIsSound
<1>2. QED
  BY <1>1, PartInv, PTL

(* A write of at most a page is never interleaved with that of another     *)
(* process, merged into a half-full buffer or not (pipe_writev()).         *)
THEOREM SmallWritesWhole == MCSpec => []SmallWritesAreWhole
<1>1. (part = "writers" => IInv) => SmallWritesAreWhole
  BY InvGives, Zenon DEF SmallWritesAreWhole
<1>2. QED
  BY <1>1, PartInv, PTL

(* Whoever sleeps on PIPE_WAIT though it could go on is about to be woken  *)
(* by a process on its way out of pipe_readv() or pipe_writev(), with any  *)
(* number of readers, writers and pollers, O_NONBLOCK or not; and          *)
(* PIPE_WAITING_WRITERS counts the writers inside pipe_wait().             *)
THEOREM WakeupsArrive == MCSpec => []NoWakeupIsLost
<1>1. (part = "writers" => IInv) => NoWakeupIsLost
  BY InvGives, Zenon DEF NoWakeupIsLost
<1>2. QED
  BY <1>1, PartInv, PTL

-----------------------------------------------------------------------------
(* The constants of the second pipe are as PipeAssumption asks.            *)
LEMMA OAssumption == P!PipeAssumption
<1>1. IsFiniteSet({r1}) /\ IsFiniteSet({w1})
  BY FS_Singleton, Zenon
<1>2. /\ {r1} \cap {w1} = {} /\ NoProc \notin P!Procs /\ {r1} # {} /\ {w1} # {}
      /\ {} \subseteq P!Procs /\ {r1, w1} \subseteq P!Procs
  BY PartsAssumption, Zenon DEF P!Procs
<1>3. /\ {1, 3} \subseteq Nat \ {0} /\ {1, 3, 5} \subseteq Nat \ {0} /\ 5 \in Nat \ {0}
      /\ PIPE_BUFFERS \in Nat \ {0} /\ PAGE_SIZE \in Nat \ {0}
  BY PipeAssumption
<1>4. P!IsFiniteSet({r1}) /\ P!IsFiniteSet({w1})
  BY <1>1, Zenon DEF P!IsFiniteSet, IsFiniteSet
<1>5. QED
  BY <1>2, <1>3, <1>4, Zenon

(* The pipe of the second part is the one the generic proofs are           *)
(* instantiated for: it starts alike ...                                   *)
LEMMA SameInit == O!Init => P!Init
BY Zenon DEF P!Init, O!Init, P!NoBuf, O!NoBuf, P!Procs, O!Procs

(* ... and takes the same steps.                                           *)
LEMMA SameNext == [O!Next]_vars => [P!Next]_(P!vars)
<1>1. \A p : O!Call(p) => P!Call(p)
  BY Zenon DEF P!Call, O!Call, P!Goto, O!Goto, P!bufVars, O!bufVars, P!endVars, O!endVars, P!callVars, O!callVars, P!histVars, O!histVars
<1>2. \A p : O!Down(p) => P!Down(p)
  BY Zenon DEF P!Down, O!Down, P!Goto, O!Goto, P!bufVars, O!bufVars, P!endVars, O!endVars, P!callVars, O!callVars, P!histVars, O!histVars
<1>3. \A p : O!pipe_wait(p) => P!pipe_wait(p)
  BY Zenon DEF P!pipe_wait, O!pipe_wait, P!Goto, O!Goto, P!bufVars, O!bufVars, P!endVars, O!endVars, P!callVars, O!callVars, P!histVars, O!histVars
<1>4. \A p : O!pipe_wait_done(p) => P!pipe_wait_done(p)
  BY Zenon DEF P!pipe_wait_done, O!pipe_wait_done, P!Goto, O!Goto, P!bufVars, O!bufVars, P!endVars, O!endVars, P!callVars, O!callVars, P!histVars, O!histVars
<1>5. \A p : O!Up(p) => P!Up(p)
  BY Zenon DEF P!Up, O!Up, P!Goto, O!Goto, P!bufVars, O!bufVars, P!endVars, O!endVars, P!callVars, O!callVars, P!histVars, O!histVars
<1>6. \A p : O!Return(p) => P!Return(p)
  BY Zenon DEF P!Return, O!Return, P!Goto, O!Goto, P!Woken, O!Woken, P!bufVars, O!bufVars, P!endVars, O!endVars, P!callVars, O!callVars, P!histVars, O!histVars
<1>7. \A p : O!read_buf(p) => P!read_buf(p)
  BY DEF P!read_buf, O!read_buf, P!Goto, O!Goto, P!Least, O!Least, P!NextBuf, O!NextBuf, P!PagesReleased, O!PagesReleased, P!Received, O!Received, P!NoBuf, O!NoBuf, P!bufVars, O!bufVars, P!endVars, O!endVars, P!callVars, O!callVars, P!histVars, O!histVars
<1>8. \A p : O!read_fault(p) => P!read_fault(p)
  BY Zenon DEF P!read_fault, O!read_fault, P!Goto, O!Goto, P!bufVars, O!bufVars, P!endVars, O!endVars, P!callVars, O!callVars, P!histVars, O!histVars
<1>9. \A p : O!read_empty(p) => P!read_empty(p)
  BY Zenon DEF P!read_empty, O!read_empty, P!Goto, O!Goto, P!Woken, O!Woken, P!read_must_return, O!read_must_return, P!bufVars, O!bufVars, P!endVars, O!endVars, P!callVars, O!callVars, P!histVars, O!histVars
<1>10. \A p : O!write_no_readers(p) => P!write_no_readers(p)
  BY Zenon DEF P!write_no_readers, O!write_no_readers, P!Goto, O!Goto, P!bufVars, O!bufVars, P!endVars, O!endVars, P!callVars, O!callVars, P!histVars, O!histVars
<1>11. \A p : O!write_merge(p) => P!write_merge(p)
  BY Zenon DEF P!write_merge, O!write_merge, P!Goto, O!Goto, P!MergeChars, O!MergeChars, P!Last, O!Last, P!FilledTo, O!FilledTo, P!Bytes, O!Bytes, P!Sent, O!Sent, P!bufVars, O!bufVars, P!endVars, O!endVars, P!callVars, O!callVars, P!histVars, O!histVars
<1>12. \A p : O!write_buf(p) => P!write_buf(p)
  BY Zenon DEF P!write_buf, O!write_buf, P!Goto, O!Goto, P!Least, O!Least, P!Bytes, O!Bytes, P!Sent, O!Sent, P!bufVars, O!bufVars, P!endVars, O!endVars, P!callVars, O!callVars, P!histVars, O!histVars
<1>13. \A p : O!write_fault(p) => P!write_fault(p)
  BY Zenon DEF P!write_fault, O!write_fault, P!Goto, O!Goto, P!bufVars, O!bufVars, P!endVars, O!endVars, P!callVars, O!callVars, P!histVars, O!histVars
<1>14. \A p : O!write_no_page(p) => P!write_no_page(p)
  BY Zenon DEF P!write_no_page, O!write_no_page, P!Goto, O!Goto, P!bufVars, O!bufVars, P!endVars, O!endVars, P!callVars, O!callVars, P!histVars, O!histVars
<1>15. \A p : O!write_full(p) => P!write_full(p)
  BY Zenon DEF P!write_full, O!write_full, P!Goto, O!Goto, P!Woken, O!Woken, P!bufVars, O!bufVars, P!endVars, O!endVars, P!callVars, O!callVars, P!histVars, O!histVars
<1>16. \A p : O!poll_wait(p) => P!poll_wait(p)
  BY Zenon DEF P!poll_wait, O!poll_wait, P!Goto, O!Goto, P!bufVars, O!bufVars, P!endVars, O!endVars, P!callVars, O!callVars, P!histVars, O!histVars
<1>17. \A p : O!poll_check(p) => P!poll_check(p)
  BY Zenon DEF P!poll_check, O!poll_check, P!Goto, O!Goto, P!pipe_poll, O!pipe_poll, P!bufVars, O!bufVars, P!endVars, O!endVars, P!callVars, O!callVars, P!histVars, O!histVars
<1>18. \A p : O!pipe_release(p) => P!pipe_release(p)
  <2>1. O!free_pipe_info <=> P!free_pipe_info
    BY Zenon DEF P!free_pipe_info, O!free_pipe_info, P!NoBuf, O!NoBuf, P!Cardinality, O!Cardinality
  <2> QED BY <2>1, Zenon DEF P!pipe_release, O!pipe_release, P!release_wakes, O!release_wakes, P!bufVars, O!bufVars, P!endVars, O!endVars, P!callVars, O!callVars, P!histVars, O!histVars
<1>19. \A p : O!Signal(p) => P!Signal(p)
  BY Zenon DEF P!Signal, O!Signal, P!bufVars, O!bufVars, P!endVars, O!endVars, P!callVars, O!callVars, P!histVars, O!histVars
<1>20. O!Next => P!Next
  BY <1>1, <1>2, <1>3, <1>4, <1>5, <1>6, <1>7, <1>8, <1>9, <1>10, <1>11, <1>12, <1>13, <1>14, <1>15, <1>16, <1>17, <1>18, <1>19, Zenon DEF P!Next, O!Next, P!KernelStep, O!KernelStep, P!LockStep, O!LockStep, P!Procs, O!Procs
<1>21. QED
  BY <1>20, Zenon DEF vars, P!vars

(* The pipe of the second part keeps its invariant and the order of its    *)
(* bytes.                                                                  *)
LEMMA OrderInv == MCSpec => [](part = "order" => P!IInv /\ P!StreamInOrder)
<1>1. MCInit => (part = "order" => P!IInv /\ P!StreamInOrder)
  BY OAssumption, SameInit, P!InvInit, P!OrderInit, Zenon DEF MCInit
<1>2. P!IInv /\ P!StreamInOrder /\ [P!Next]_(P!vars) => P!IInv' /\ P!StreamInOrder'
  BY OAssumption, P!InvStep, P!OrderStep, Zenon
<1>3. (part = "order" => P!IInv /\ P!StreamInOrder) /\ [MCNext]_<<vars, part>>
        => (part = "order" => P!IInv /\ P!StreamInOrder)'
  <2> SUFFICES ASSUME part = "order" => P!IInv /\ P!StreamInOrder, [MCNext]_<<vars, part>>,
                      part' = "order"
               PROVE  P!IInv' /\ P!StreamInOrder'
    BY Zenon
  <2>1. part = "order" /\ [O!Next]_vars
    BY Zenon DEF MCNext
  <2> QED BY <2>1, <1>2, SameNext, Zenon
<1>4. QED
  BY <1>1, <1>3, PTL DEF MCSpec

(* A writer's bytes leave the pipe in the order in which pipe_writev()     *)
(* took them, none lost and none twice, whatever the sizes of the pages    *)
(* and the ring, and with signals that cut reads and writes short.         *)
THEOREM StreamOrdered == MCSpec => []StreamsInOrder
<1>1. P!IInv => O!TypeOK /\ RingOwnsPages
  <2> SUFFICES ASSUME P!IInv PROVE O!TypeOK /\ RingOwnsPages
    BY Zenon
  <2>1. P!TypeOK /\ P!RingOwnsPages
    BY OAssumption, P!InvGives, Zenon
  <2>2. O!TypeOK
    BY <2>1, Zenon DEF P!TypeOK, O!TypeOK, P!Byte, O!Byte, P!Procs, O!Procs, P!PCs, O!PCs
  <2>3. RingOwnsPages
    BY <2>1, Zenon DEF P!RingOwnsPages, RingOwnsPages, P!RingIndex, RingIndex, P!FilledTo, FilledTo
  <2> QED BY <2>2, <2>3, Zenon
<1>2. P!StreamInOrder => O!StreamInOrder
  BY Zenon DEF P!StreamInOrder, O!StreamInOrder, P!Consecutive, O!Consecutive, P!Places, O!Places,
     P!Nums, O!Nums, P!Inc, O!Inc, P!Before, O!Before, P!Data, O!Data, P!RingIndex, O!RingIndex
<1>3. (part = "order" => P!IInv /\ P!StreamInOrder) => StreamsInOrder
  BY <1>1, <1>2, Zenon DEF StreamsInOrder
<1>4. QED
  BY <1>3, OrderInv, PTL
=============================================================================
