---------------------------- MODULE Pipe_proofs -----------------------------
(***************************************************************************)
(* The pipe for every number of readers and writers, every size of the     *)
(* ring and of a page: the ring and its pages agree, no wake-up is lost,   *)
(* small writes stay in one piece, and the bytes of every writer leave the *)
(* pipe in the order in which pipe_writev() took them.                     *)
(***************************************************************************)
EXTENDS Pipe, FiniteSetTheorems, WellFoundedInduction, TLAPS

(* The process with the semaphore is inside one of the loops.              *)
Locked == {"read", "write0", "write", "prepared", "out"}

ProcOK(p) ==
    /\ sem = p <=> pc[p] \in Locked
    /\ pc[p] = "read" => p \in Readers
    /\ pc[p] \in {"write0", "write"} => p \in Writers
    /\ pc[p] # "user" => p \in open
    /\ pc[p] \in {"down", "read", "write0", "write", "prepared", "sleep"} => left[p] > 0

ProcInv == \A p \in Procs : ProcOK(p)

(* An end is open as long as a process has it open.                        *)
EndInv ==
    /\ readers = IF open \cap Readers = {} THEN 0 ELSE 1
    /\ writers = IF open \cap Writers = {} THEN 0 ELSE 1

(* The buffers in use, as an interval that may wrap around.                *)
InRing(i) ==
    \/ curbuf <= i /\ i < curbuf + nrbufs
    \/ i < curbuf + nrbufs - PIPE_BUFFERS

(* Every buffer in use ends where a write may be cut, and is atomic.       *)
BufOK(i) ==
    LET d == bufs[i].data IN
    /\ bufs[i].ops <=> InRing(i)
    /\ bufs[i].ops =>
          /\ d # <<>> /\ FilledTo(bufs[i]) <= PAGE_SIZE
          /\ d[Len(d)].cut
          /\ \A j \in 1 .. Len(d) - 1 : d[j].from # d[j + 1].from => d[j].cut

RingInv ==
    /\ \A i \in 0 .. PIPE_BUFFERS - 1 : BufOK(i)
    /\ Cardinality({i \in DOMAIN bufs : bufs[i].ops}) = nrbufs
    /\ pages = nrbufs + (IF tmp_page THEN 1 ELSE 0)
    /\ readers = 0 /\ writers = 0 => pages = 0

(* A writer that sleeps, or is about to, saw a full pipe; from then on     *)
(* there is a page for it when the pipe is empty again, because the reader *)
(* that emptied it left one as tmp_page.                                   *)
PageInv ==
    (\E w \in Writers : pc[w] \in {"prepared", "sleep"}) => nrbufs > 0 \/ tmp_page

(* Somebody who waits, or is about to, could go on.                        *)
Needs(p) ==
    \/ pc[p] \in {"prepared", "sleep", "pollsleep"} /\ pipe_poll(p)
    \/ pc[p] \in {"prepared", "sleep"} /\ p \in Readers
          /\ waiting = 0 /\ (ret[p] > 0 \/ p \in NonBlock)

(* q is going to wake everybody: it has do_wakeup set and will get to the  *)
(* wake-up, or it writes into a pipe with room for which it has a page.    *)
Wakes(q) ==
    \/ pc[q] \in {"read", "write", "out", "wake"} /\ do_wakeup[q]
    \/ pc[q] = "write" /\ readers > 0 /\ nrbufs < PIPE_BUFFERS /\ tmp_page

WakeInv == (\E p \in waitq : Needs(p)) => \E q \in Procs : Wakes(q)

(* The inductive invariant.                                                *)
IInv == TypeOK /\ ProcInv /\ EndInv /\ RingInv /\ WaitingCounted /\ PageInv /\ WakeInv

-----------------------------------------------------------------------------
(* The ring.                                                               *)

(* Indices modulo the size of the ring.                                    *)
LEMMA Wraps ==
    ASSUME NEW a \in 0 .. PIPE_BUFFERS - 1, NEW k \in 0 .. PIPE_BUFFERS
    PROVE  (a + k) % PIPE_BUFFERS = IF a + k < PIPE_BUFFERS THEN a + k ELSE a + k - PIPE_BUFFERS
<1>1. CASE a + k < PIPE_BUFFERS
  BY <1>1, PipeAssumption
<1>2. CASE a + k >= PIPE_BUFFERS
  BY <1>2, PipeAssumption
<1>3. QED
  BY <1>1, <1>2, PipeAssumption

(* The buffers from curbuf on.                                             *)
LEMMA InRingIs ==
    ASSUME TypeOK, NEW i \in 0 .. PIPE_BUFFERS - 1
    PROVE  InRing(i) <=> \E k \in 0 .. nrbufs - 1 : i = RingIndex(k)
<1>1. /\ curbuf \in 0 .. PIPE_BUFFERS - 1 /\ nrbufs \in 0 .. PIPE_BUFFERS
      /\ PIPE_BUFFERS \in Nat \ {0}
  BY PipeAssumption, Zenon DEF TypeOK
<1>2. \A k \in 0 .. nrbufs - 1 : k \in 0 .. PIPE_BUFFERS
      /\ RingIndex(k) = IF curbuf + k < PIPE_BUFFERS THEN curbuf + k
                                                      ELSE curbuf + k - PIPE_BUFFERS
  BY <1>1, Wraps DEF RingIndex
<1>3. ASSUME InRing(i) PROVE \E k \in 0 .. nrbufs - 1 : i = RingIndex(k)
  <2> DEFINE k == IF curbuf <= i THEN i - curbuf ELSE i + PIPE_BUFFERS - curbuf
  <2>1. k \in 0 .. nrbufs - 1 /\ (curbuf + k < PIPE_BUFFERS <=> curbuf <= i)
    BY <1>1, <1>3 DEF InRing
  <2>2. i = RingIndex(k)
    BY <1>1, <1>2, <2>1
  <2> QED BY <2>1, <2>2, Zenon
<1>4. ASSUME NEW k \in 0 .. nrbufs - 1, i = RingIndex(k) PROVE InRing(i)
  BY <1>1, <1>2, <1>4 DEF InRing
<1>5. QED
  BY <1>3, <1>4, Zenon

(* The k-th buffer in use is one of the ring.                              *)
LEMMA IndexInRange ==
    ASSUME TypeOK
    PROVE  \A k \in 0 .. nrbufs - 1 :
              RingIndex(k) \in 0 .. PIPE_BUFFERS - 1 /\ InRing(RingIndex(k))
<1>1. \A k \in 0 .. nrbufs - 1 : RingIndex(k) \in 0 .. PIPE_BUFFERS - 1
  BY PipeAssumption DEF RingIndex, TypeOK
<1>2. QED
  BY <1>1, InRingIs, Zenon

(* What the invariant says of the ring gives what the property says.       *)
LEMMA RingIsOwned ==
    ASSUME TypeOK, RingInv
    PROVE  RingOwnsPages
<1>1. DOMAIN bufs = 0 .. PIPE_BUFFERS - 1
  BY Zenon DEF TypeOK
<1>2. \A i \in 0 .. PIPE_BUFFERS - 1 : bufs[i].ops <=> \E k \in 0 .. nrbufs - 1 : i = RingIndex(k)
  BY InRingIs, Zenon DEF RingInv, BufOK
<1>3. \A k \in 0 .. nrbufs - 1 : RingIndex(k) \in 0 .. PIPE_BUFFERS - 1
  BY IndexInRange, Zenon
<1>4. {i \in DOMAIN bufs : bufs[i].ops} = {RingIndex(k) : k \in 0 .. nrbufs - 1}
  BY <1>1, <1>2, <1>3, Zenon
<1>5. \A i \in DOMAIN bufs : bufs[i].ops => bufs[i].data # <<>> /\ FilledTo(bufs[i]) <= PAGE_SIZE
  BY <1>1, Zenon DEF RingInv, BufOK
<1>6. QED
  BY <1>4, <1>5, Zenon DEF RingOwnsPages, RingInv

(* Small writes are in one piece because every buffer ends with a byte     *)
(* after which a write may be cut.                                         *)
LEMMA WritesAreAtomic ==
    ASSUME TypeOK, RingInv
    PROVE  SmallWritesAtomic
<1> SUFFICES ASSUME NEW k \in 0 .. nrbufs - 1, NEW i \in 1 .. Len(Data(k)),
                    Data(k)[i].from # Follows(k, i).from
             PROVE  Data(k)[i].cut
  BY Zenon DEF SmallWritesAtomic
<1>1. RingIndex(k) \in 0 .. PIPE_BUFFERS - 1
  BY IndexInRange, Zenon
<1>2. InRing(RingIndex(k))
  BY IndexInRange, Zenon
<1>3. /\ Data(k)[Len(Data(k))].cut
      /\ \A j \in 1 .. Len(Data(k)) - 1 : Data(k)[j].from # Data(k)[j + 1].from => Data(k)[j].cut
  BY <1>1, <1>2, Zenon DEF RingInv, BufOK, Data
<1>4. Len(Data(k)) \in Nat
  BY <1>1 DEF TypeOK, Data
<1>5. CASE i = Len(Data(k))
  BY <1>3, <1>5, Zenon
<1>6. CASE i # Len(Data(k))
  <2>1. i \in 1 .. Len(Data(k)) - 1 /\ i < Len(Data(k))
    BY <1>4, <1>6
  <2> QED BY <1>3, <2>1, Zenon DEF Follows
<1>7. QED
  BY <1>5, <1>6, Zenon

-----------------------------------------------------------------------------
(* What a step of one process leaves alone of another.                     *)
Same(q) == /\ pc'[q] = pc[q] /\ left'[q] = left[q] /\ ret'[q] = ret[q]
           /\ do_wakeup'[q] = do_wakeup[q]

(* The semaphore stays, or passes between p and nobody.                    *)
SemBy(p) == sem' = sem \/ (sem \in {p, NoProc} /\ sem' \in {p, NoProc})

Waits == {"prepared", "sleep"}

(* A step of p leaves the others where they are, so only p has to be       *)
(* looked at.                                                              *)
LEMMA OthersKeep ==
    ASSUME ProcInv, NEW p \in Procs, ProcOK(p)', UNCHANGED open, SemBy(p),
           \A q \in Procs \ {p} : Same(q)
    PROVE  ProcInv'
<1>1. ASSUME NEW q \in Procs PROVE ProcOK(q)'
  <2>1. CASE q = p
    BY <2>1, Zenon
  <2>2. CASE q # p
    <3>1. ProcOK(q) /\ Same(q) /\ q # NoProc
      BY <2>2, PipeAssumption, Zenon DEF ProcInv
    <3>2. sem' = q <=> sem = q
      BY <2>2, <3>1, Zenon DEF SemBy
    <3> QED BY <3>1, <3>2, Zenon DEF ProcOK, Same
  <2> QED BY <2>1, <2>2, Zenon
<1>2. QED
  BY <1>1, Zenon DEF ProcInv

(* A step that leaves the buffers and the ends alone.                      *)
LEMMA RingSame ==
    ASSUME RingInv, UNCHANGED <<bufs, curbuf, nrbufs, tmp_page, pages, readers, writers>>
    PROVE  RingInv'
BY Zenon DEF RingInv, BufOK, InRing, FilledTo

(* The waiting writers are as many as before.                              *)
LEMMA WaitingSame ==
    ASSUME WaitingCounted, NEW p \in Procs, UNCHANGED waiting,
           \A q \in Procs \ {p} : Same(q),
           p \in Writers => (pc'[p] \in Waits <=> pc[p] \in Waits)
    PROVE  WaitingCounted' /\ \A w \in Writers : pc'[w] \in Waits <=> pc[w] \in Waits
<1>1. ASSUME NEW w \in Writers PROVE pc'[w] \in Waits <=> pc[w] \in Waits
  <2>1. CASE w = p
    BY <2>1, Zenon
  <2>2. CASE w # p
    BY <2>2, Zenon DEF Same, Procs
  <2> QED BY <2>1, <2>2, Zenon
<1>2. {w \in Writers : pc[w] \in Waits}' = {w \in Writers : pc[w] \in Waits}
  BY <1>1, Zenon
<1>3. WaitingCounted'
  BY <1>2, Zenon DEF WaitingCounted, Waits
<1>4. QED
  BY <1>1, <1>3, Zenon

(* A step of p that touches neither the buffers nor the ends, and after    *)
(* which p does not need a wake-up nobody owes it.                         *)
LEMMA QuietStep ==
    ASSUME IInv, TypeOK', NEW p \in Procs,
           UNCHANGED <<bufs, curbuf, nrbufs, tmp_page, pages, readers, writers, open, waiting>>,
           \A q \in Procs \ {p} : Same(q),
           SemBy(p), ProcOK(p)',
           p \in Writers => (pc'[p] \in Waits <=> pc[p] \in Waits),
           waitq' \subseteq waitq \cup {p},
           p \in waitq' => ~Needs(p)' \/ (p \in waitq /\ Needs(p)),
           \/ waitq' \subseteq {p} /\ ~Needs(p)'
           \/ waitq' = {}
           \/ Wakes(p) => Wakes(p)'
    PROVE  IInv'
<1>1. ProcInv'
  BY OthersKeep, Zenon DEF IInv
<1>2. EndInv'
  BY Zenon DEF IInv, EndInv
<1>3. RingInv'
  BY RingSame, Zenon DEF IInv
<1>4. WaitingCounted' /\ \A w \in Writers : pc'[w] \in Waits <=> pc[w] \in Waits
  BY WaitingSame, Zenon DEF IInv
<1>5. PageInv'
  BY <1>4, Zenon DEF IInv, PageInv, Waits
<1>6. ASSUME NEW q \in Procs \ {p}
      PROVE  (Needs(q)' <=> Needs(q)) /\ (Wakes(q)' <=> Wakes(q))
  BY <1>6, Zenon DEF Needs, Wakes, Same, pipe_poll
<1>7. WakeInv'
  <2> SUFFICES ASSUME NEW x \in waitq', Needs(x)' PROVE \E q \in Procs : Wakes(q)'
    BY Zenon DEF WakeInv
  <2>1. x \in waitq /\ Needs(x)
    BY <1>6, Zenon DEF TypeOK
  <2>2. PICK q \in Procs : Wakes(q)
    BY <2>1, Zenon DEF IInv, WakeInv
  <2>3. CASE q # p
    BY <1>6, <2>2, <2>3, Zenon
  <2>4. CASE q = p
    BY <2>2, <2>4, Zenon
  <2> QED BY <2>3, <2>4, Zenon
<1>8. QED
  BY <1>1, <1>2, <1>3, <1>4, <1>5, <1>7, Zenon DEF IInv

(* A step of the process with the semaphore inside its loop, which may     *)
(* change the buffers: it sets do_wakeup, or gives nobody a reason to be   *)
(* woken.                                                                  *)
LEMMA LoopStep ==
    ASSUME IInv, TypeOK', RingInv', NEW p \in Procs,
           UNCHANGED <<readers, writers, open, waiting, waitq, sem>>,
           \A q \in Procs \ {p} : Same(q),
           sem = p, ProcOK(p)', pc[p] \notin Waits, pc'[p] \notin Waits \cup {"pollsleep"},
           nrbufs > 0 \/ tmp_page => nrbufs' > 0 \/ tmp_page',
           \/ Wakes(p)'
           \/ UNCHANGED nrbufs /\ (Wakes(p) => Wakes(p)')
    PROVE  IInv'
<1>0. SemBy(p)
  BY Zenon DEF SemBy
<1>1. ProcInv'
  BY <1>0, OthersKeep, Zenon DEF IInv
<1>2. EndInv'
  BY Zenon DEF IInv, EndInv
<1>4. WaitingCounted' /\ \A w \in Writers : pc'[w] \in Waits <=> pc[w] \in Waits
  BY WaitingSame, Zenon DEF IInv
<1>5. PageInv'
  BY <1>4, Zenon DEF IInv, PageInv, Waits
<1>6. ASSUME NEW q \in Procs \ {p}
      PROVE  /\ Wakes(q) => Wakes(q)'
             /\ UNCHANGED nrbufs => (Needs(q)' <=> Needs(q))
  <2>1. pc[q] \notin Locked
    BY Zenon DEF IInv, ProcInv, ProcOK
  <2>2. Wakes(q) => pc[q] = "wake" /\ do_wakeup[q]
    BY <2>1, Zenon DEF Wakes, Locked
  <2>3. Wakes(q) => Wakes(q)'
    BY <2>2, Zenon DEF Wakes, Same
  <2> QED BY <2>3, Zenon DEF Needs, Same, pipe_poll
<1>7. WakeInv'
  <2> SUFFICES ASSUME NEW x \in waitq', Needs(x)' PROVE \E q \in Procs : Wakes(q)'
    BY Zenon DEF WakeInv
  <2>1. CASE Wakes(p)'
    BY <2>1, Zenon
  <2>2. CASE ~Wakes(p)'
    <3>1. x # p
      BY Zenon DEF Needs, Waits
    <3>2. x \in waitq /\ Needs(x)
      BY <1>6, <2>2, <3>1, Zenon DEF TypeOK
    <3>3. PICK q \in Procs : Wakes(q)
      BY <3>2, Zenon DEF IInv, WakeInv
    <3> QED BY <1>6, <2>2, <3>3, Zenon
  <2> QED BY <2>1, <2>2, Zenon
<1>8. QED
  BY <1>1, <1>2, <1>4, <1>5, <1>7, Zenon DEF IInv

-----------------------------------------------------------------------------
(* The types of what belongs to the processes.                             *)
ProcTypes ==
    /\ sem \in Procs \cup {NoProc} /\ waitq \subseteq Procs
    /\ pc \in [Procs -> PCs] /\ left \in [Procs -> Nat] /\ ret \in [Procs -> Nat]
    /\ do_wakeup \in [Procs -> BOOLEAN] /\ signals \subseteq Procs

(* The types of what a process has of its own.                             *)
LEMMA TypesOfProcs ==
    ASSUME TypeOK
    PROVE  /\ ProcTypes
           /\ ProcTypes' /\ UNCHANGED <<bufVars, endVars, waiting, histVars>> => TypeOK'
BY Zenon DEF TypeOK, ProcTypes, bufVars, endVars, histVars

(* Calls begin, take and release the semaphore, and fail.                  *)
LEMMA SimpleSteps ==
    ASSUME IInv, NEW p \in Procs,
           \/ Call(p) \/ Down(p) \/ pipe_wait(p) \/ Up(p)
           \/ read_fault(p) \/ write_no_readers(p) \/ write_no_page(p)
    PROVE  IInv'
<1>1. TypeOK /\ ProcTypes /\ ProcOK(p) /\ p # NoProc
  BY TypesOfProcs, PipeAssumption, Zenon DEF IInv, ProcInv
<1>2. /\ UNCHANGED <<bufVars, endVars, waiting, histVars>>
      /\ UNCHANGED <<waitq, ret, do_wakeup>>
  BY Zenon DEF Call, Down, pipe_wait, Up, read_fault, write_no_readers, write_no_page, callVars,
               bufVars, endVars, histVars
<1>3. UNCHANGED <<bufs, curbuf, nrbufs, tmp_page, pages, readers, writers, open, waiting>>
  BY <1>2, Zenon DEF bufVars, endVars
<1>4. PICK l \in {"down", "read", "write0", "sleep", "wake", "out"} :
          pc' = [pc EXCEPT ![p] = l]
  BY Zenon DEF Call, Down, pipe_wait, Up, read_fault, write_no_readers, write_no_page, Goto
<1>5. pc' \in [Procs -> PCs] /\ pc'[p] = l /\ \A q \in Procs \ {p} : pc'[q] = pc[q]
  BY <1>1, <1>4, Zenon DEF ProcTypes, PCs
<1>6. UNCHANGED left \/ (Call(p) /\ \E n \in Nat \ {0} : left' = [left EXCEPT ![p] = n])
  BY PipeAssumption, Zenon DEF Call, Down, pipe_wait, Up, read_fault, write_no_readers, write_no_page,
                      callVars
<1>7. left' \in [Procs -> Nat] /\ \A q \in Procs \ {p} : left'[q] = left[q]
  BY <1>1, <1>6, Zenon DEF ProcTypes
<1>8. sem' \in {sem, p, NoProc} /\ SemBy(p) /\ signals' \subseteq Procs
  BY <1>1, Zenon DEF Call, Down, pipe_wait, Up, read_fault, write_no_readers, write_no_page, ProcOK,
               Locked, SemBy, ProcTypes
<1>9. TypeOK'
  BY <1>1, <1>2, <1>5, <1>7, <1>8, TypesOfProcs, Zenon DEF ProcTypes
<1>10. \A q \in Procs \ {p} : Same(q)
  BY <1>2, <1>5, <1>7, Zenon DEF Same
<1>11. CASE Call(p)
  <2>1. pc[p] = "user" /\ pc'[p] = "down" /\ p \in open /\ sem' = sem
    BY <1>1, <1>11, Zenon DEF Call, Goto, ProcTypes
  <2>2. left'[p] > 0
    BY <1>1, <1>11, PipeAssumption DEF Call, ProcTypes
  <2>3. ProcOK(p)'
    BY <1>1, <1>3, <2>1, <2>2, Zenon DEF ProcOK, Locked
  <2>4. ~Needs(p)' /\ ~Wakes(p)
    BY <2>1, Zenon DEF Needs, Wakes
  <2> QED BY <1>2, <1>3, <1>8, <1>9, <1>10, <2>1, <2>3, <2>4, QuietStep, Zenon DEF Waits
<1>12. CASE Down(p)
  <2>1. pc[p] = "down" /\ sem' = p /\ pc'[p] = IF p \in Readers THEN "read" ELSE "write0"
    BY <1>1, <1>12, Zenon DEF Down, Goto, ProcTypes
  <2>2. ProcOK(p)'
    BY <1>1, <1>3, <1>12, <2>1, Zenon DEF ProcOK, Locked, Procs, Down, callVars
  <2>3. ~Needs(p)' /\ ~Wakes(p)
    BY <2>1, Zenon DEF Needs, Wakes
  <2> QED BY <1>2, <1>3, <1>8, <1>9, <1>10, <2>1, <2>2, <2>3, QuietStep, Zenon DEF Waits
<1>13. CASE pipe_wait(p)
  <2>1. pc[p] = "prepared" /\ sem' = NoProc /\ pc'[p] = "sleep" /\ left'[p] = left[p]
    BY <1>1, <1>13, Zenon DEF pipe_wait, Goto, ProcTypes, callVars
  <2>2. ProcOK(p)'
    BY <1>1, <1>3, <2>1, Zenon DEF ProcOK, Locked
  <2>3. (Needs(p)' => Needs(p)) /\ ~Wakes(p)
    BY <1>2, <1>3, <2>1, Zenon DEF Needs, Wakes, pipe_poll
  <2> QED BY <1>2, <1>3, <1>8, <1>9, <1>10, <2>1, <2>2, <2>3, QuietStep, Zenon DEF Waits
<1>14. CASE Up(p)
  <2>1. pc[p] = "out" /\ sem' = NoProc /\ pc'[p] = "wake"
    BY <1>1, <1>14, Zenon DEF Up, Goto, ProcTypes
  <2>2. ProcOK(p)'
    BY <1>1, <1>3, <2>1, Zenon DEF ProcOK, Locked
  <2>3. ~Needs(p)' /\ (Wakes(p) => Wakes(p)')
    BY <1>2, <2>1, Zenon DEF Needs, Wakes
  <2> QED BY <1>2, <1>3, <1>8, <1>9, <1>10, <2>1, <2>2, <2>3, QuietStep, Zenon DEF Waits
<1>15. CASE read_fault(p) \/ write_no_readers(p) \/ write_no_page(p)
  <2>1. pc[p] \in {"read", "write0", "write"} /\ sem' = sem /\ pc'[p] = "out"
    BY <1>1, <1>15, Zenon DEF read_fault, write_no_readers, write_no_page, Goto, ProcTypes
  <2>2. ProcOK(p)'
    BY <1>1, <1>3, <2>1, Zenon DEF ProcOK, Locked
  <2>3. ~Needs(p)'
    BY <2>1, Zenon DEF Needs
  <2>4. Wakes(p) => Wakes(p)'
    <3>1. pc[p] = "write" => readers = 0 \/ ~tmp_page
      BY <1>15, Zenon DEF read_fault, write_no_readers, write_no_page
    <3> QED BY <1>2, <2>1, <3>1 DEF Wakes
  <2> QED BY <1>2, <1>3, <1>8, <1>9, <1>10, <2>1, <2>2, <2>3, <2>4, QuietStep, Zenon DEF Waits
<1>16. QED
  BY <1>11, <1>12, <1>13, <1>14, <1>15, Zenon

(* The end of a call, the rounds that find no data, select(2) and signals. *)
LEMMA QueueSteps ==
    ASSUME IInv, NEW p \in Procs,
           Return(p) \/ read_empty(p) \/ poll_wait(p) \/ poll_check(p) \/ Signal(p)
    PROVE  IInv'
<1>1. TypeOK /\ ProcTypes /\ ProcOK(p) /\ p # NoProc
  BY TypesOfProcs, PipeAssumption, Zenon DEF IInv, ProcInv
<1>2. UNCHANGED <<bufVars, endVars, waiting, histVars>> /\ sem' = sem
  BY Zenon DEF Return, read_empty, poll_wait, poll_check, Signal, bufVars, endVars, histVars
<1>3. UNCHANGED <<bufs, curbuf, nrbufs, tmp_page, pages, readers, writers, open, waiting>>
  BY <1>2, Zenon DEF bufVars, endVars
<1>4. SemBy(p)
  BY <1>2, Zenon DEF SemBy
<1>5. CASE Return(p)
  <2>1. /\ pc' = [pc EXCEPT ![p] = "user"] /\ left' = [left EXCEPT ![p] = 0]
        /\ ret' = [ret EXCEPT ![p] = 0] /\ do_wakeup' = [do_wakeup EXCEPT ![p] = FALSE]
        /\ signals' = signals \ {p} /\ waitq' = (IF do_wakeup[p] THEN {} ELSE waitq)
        /\ pc[p] = "wake"
    BY <1>5, Zenon DEF Return, Goto, Woken
  <2>2. pc' \in [Procs -> PCs] /\ pc'[p] = "user"
    BY <1>1, <2>1, Zenon DEF ProcTypes, PCs
  <2>3. left' \in [Procs -> Nat] /\ ret' \in [Procs -> Nat]
    BY <1>1, <2>1, Zenon DEF ProcTypes
  <2>4. do_wakeup' \in [Procs -> BOOLEAN]
    BY <1>1, <2>1, Zenon DEF ProcTypes
  <2>5. TypeOK'
    BY <1>1, <1>2, <2>1, <2>2, <2>3, <2>4, TypesOfProcs, Zenon DEF ProcTypes
  <2>6. \A q \in Procs \ {p} : Same(q)
    BY <1>1, <2>1, Zenon DEF Same, ProcTypes
  <2>7. ProcOK(p)'
    BY <1>1, <1>2, <1>3, <2>1, <2>2, Zenon DEF ProcOK, Locked
  <2>8. ~Needs(p)' /\ waitq' \subseteq waitq \cup {p} /\ (waitq' = {} \/ ~Wakes(p))
    BY <2>1, <2>2, Zenon DEF Needs, Wakes
  <2>9. pc[p] \notin Waits /\ pc'[p] \notin Waits
    BY <2>1, <2>2, Zenon DEF Waits
  <2> QED BY <1>3, <1>4, <2>5, <2>6, <2>7, <2>8, <2>9, QuietStep, Zenon
<1>6. ASSUME read_empty(p) \/ poll_wait(p) \/ poll_check(p) \/ Signal(p)
      PROVE  IInv'
  <2>1. UNCHANGED <<left, ret, do_wakeup>>
    BY <1>6, Zenon DEF read_empty, poll_wait, poll_check, Signal, callVars
  <2>2. ASSUME read_empty(p)
        PROVE  \/ /\ pc' = [pc EXCEPT ![p] = "out"] /\ UNCHANGED waitq
               \/ /\ pc' = [pc EXCEPT ![p] = "prepared"]
                  /\ waitq' = (IF do_wakeup[p] THEN {} ELSE waitq) \cup {p}
    BY <2>2, Zenon DEF read_empty, Goto, Woken
  <2>3. PICK l \in PCs : /\ pc' = [pc EXCEPT ![p] = l]
                         /\ Signal(p) => l = pc[p] /\ UNCHANGED pc
    <3>1. CASE Signal(p)
      BY <1>1, <3>1, Zenon DEF Signal, ProcTypes
    <3>2. CASE ~Signal(p)
      BY <1>6, <2>2, <3>2, Zenon DEF poll_wait, poll_check, Goto, PCs
    <3> QED BY <3>1, <3>2, Zenon
  <2>4. pc' \in [Procs -> PCs] /\ pc'[p] = l /\ \A q \in Procs \ {p} : Same(q)
    BY <1>1, <2>1, <2>3, Zenon DEF ProcTypes, Same
  <2>5. waitq' \subseteq waitq \cup {p} /\ signals' \subseteq Procs
    BY <1>1, <1>6, <2>2, Zenon DEF read_empty, poll_wait, poll_check, Signal, ProcTypes
  <2>6. TypeOK'
    BY <1>1, <1>2, <2>1, <2>4, <2>5, TypesOfProcs, Zenon DEF ProcTypes
  <2>7. CASE read_empty(p)
    <3>1. pc[p] = "read" /\ nrbufs = 0 /\ p \in Readers /\ p \notin Writers
      BY <1>1, <2>7, PipeAssumption, Zenon DEF read_empty, ProcOK
    <3>2. CASE l = "out"
      <4>1. UNCHANGED waitq
        BY <2>2, <2>3, <2>7, <3>2, <1>1, Zenon DEF ProcTypes
      <4>2. ProcOK(p)' /\ ~Needs(p)' /\ (Wakes(p) => Wakes(p)')
        BY <1>1, <1>2, <1>3, <2>1, <2>4, <3>1, <3>2, Zenon DEF ProcOK, Locked, Needs, Wakes
      <4> QED BY <1>3, <1>4, <2>4, <2>5, <2>6, <3>1, <4>1, <4>2, QuietStep, Zenon
    <3>3. CASE l # "out"
      <4>1. /\ l = "prepared" /\ ~read_must_return(p)
            /\ waitq' = (IF do_wakeup[p] THEN {} ELSE waitq) \cup {p}
        BY <1>1, <2>3, <2>4, <2>7, <3>3, Zenon DEF read_empty, Goto, Woken, ProcTypes
      <4>2. ProcOK(p)'
        BY <1>1, <1>2, <1>3, <2>1, <2>4, <3>1, <4>1, Zenon DEF ProcOK, Locked
      <4>3. ~Needs(p)'
        BY <1>1, <1>3, <2>1, <3>1, <4>1, PipeAssumption DEF Needs, pipe_poll, read_must_return,
           ProcTypes
      <4>4. waitq' \subseteq {p} \/ ~Wakes(p)
        BY <3>1, <4>1, Zenon DEF Wakes
      <4> QED BY <1>3, <1>4, <2>4, <2>5, <2>6, <3>1, <4>2, <4>3, <4>4, QuietStep, Zenon
    <3> QED BY <3>2, <3>3, Zenon
  <2>8. CASE poll_wait(p)
    <3>1. /\ pc[p] \in {"user", "pollsleep"} /\ l = "poll"
          /\ p \in open
      BY <1>1, <2>4, <2>8, Zenon DEF poll_wait, Goto, ProcTypes, ProcOK
    <3>2. ProcOK(p)' /\ ~Needs(p)' /\ ~Wakes(p)
      BY <1>1, <1>2, <1>3, <2>1, <2>4, <3>1, Zenon DEF ProcOK, Locked, Needs, Wakes
    <3>3. pc[p] \notin Waits /\ pc'[p] \notin Waits
      BY <2>4, <3>1, Zenon DEF Waits
    <3> QED BY <1>3, <1>4, <2>4, <2>5, <2>6, <3>2, <3>3, QuietStep, Zenon
  <2>9. CASE poll_check(p)
    <3>1. /\ pc[p] = "poll" /\ l \in {"user", "pollsleep"}
          /\ l = "pollsleep" => ~pipe_poll(p)
          /\ waitq' \subseteq waitq
      BY <1>1, <2>4, <2>9, Zenon DEF poll_check, Goto, ProcTypes
    <3>2. ProcOK(p)' /\ ~Wakes(p)
      BY <1>1, <1>2, <1>3, <2>1, <2>4, <3>1, Zenon DEF ProcOK, Locked, Wakes
    <3>3. ~Needs(p)'
      BY <1>3, <2>4, <3>1, Zenon DEF Needs, pipe_poll
    <3>4. pc[p] \notin Waits /\ pc'[p] \notin Waits
      BY <2>4, <3>1, Zenon DEF Waits
    <3> QED BY <1>3, <1>4, <2>4, <2>5, <2>6, <3>2, <3>3, <3>4, QuietStep, Zenon
  <2>10. CASE Signal(p)
    <3>1. pc'[p] = pc[p] /\ p \notin waitq'
      BY <2>3, <2>4, <2>10, Zenon DEF Signal
    <3>2. ProcOK(p)'
      BY <1>1, <1>2, <1>3, <2>1, <3>1, Zenon DEF ProcOK
    <3>3. Wakes(p) => Wakes(p)'
      BY <1>3, <2>1, <3>1, Zenon DEF Wakes
    <3> QED BY <1>3, <1>4, <2>4, <2>5, <2>6, <3>1, <3>2, <3>3, QuietStep, Zenon
  <2> QED BY <1>6, <2>7, <2>8, <2>9, <2>10, Zenon
<1>7. QED
  BY <1>5, <1>6, Zenon

-----------------------------------------------------------------------------
(* A writer goes to sleep, or stops waiting: the count follows.            *)
LEMMA WaitingMoves ==
    ASSUME IInv, NEW p \in Writers, \A q \in Procs \ {p} : Same(q)
    PROVE  /\ pc[p] \notin Waits /\ pc'[p] \in Waits /\ waiting' = waiting + 1 => WaitingCounted'
           /\ pc[p] \in Waits /\ pc'[p] \notin Waits /\ waiting' = waiting - 1 =>
                 WaitingCounted' /\ waiting' \in Nat
<1> DEFINE S == {w \in Writers : pc[w] \in Waits}
           T == {w \in Writers : pc'[w] \in Waits}
<1>1. IsFiniteSet(S) /\ waiting = Cardinality(S)
  BY PipeAssumption, FS_Subset, Zenon DEF IInv, WaitingCounted, Waits
<1>2. \A w \in Writers \ {p} : pc'[w] \in Waits <=> pc[w] \in Waits
  BY Zenon DEF Same, Procs
<1>3. ASSUME pc[p] \notin Waits, pc'[p] \in Waits, waiting' = waiting + 1 PROVE WaitingCounted'
  <2>1. T = S \cup {p} /\ p \notin S
    BY <1>2, <1>3, Zenon
  <2>2. Cardinality(T) = Cardinality(S) + 1
    BY <1>1, <2>1, FS_AddElement, Zenon
  <2> QED BY <1>1, <1>3, <2>2, Zenon DEF WaitingCounted, Waits
<1>4. ASSUME pc[p] \in Waits, pc'[p] \notin Waits, waiting' = waiting - 1
      PROVE  WaitingCounted' /\ waiting' \in Nat
  <2>1. T = S \ {p} /\ p \in S
    BY <1>2, <1>4, Zenon
  <2>2. Cardinality(T) = Cardinality(S) - 1
    BY <1>1, <2>1, FS_RemoveElement, Zenon
  <2>3. Cardinality(T) \in Nat
    BY <1>1, <2>1, FS_RemoveElement, FS_CardinalityType, Zenon
  <2> QED BY <1>1, <1>4, <2>2, <2>3, Zenon DEF WaitingCounted, Waits
<1>5. QED
  BY <1>3, <1>4, Zenon

(* A writer finds the pipe full.                                           *)
LEMMA FullStep ==
    ASSUME IInv, NEW p \in Procs, write_full(p)
    PROVE  IInv'
<1>1. TypeOK /\ ProcTypes /\ ProcOK(p) /\ p # NoProc /\ waiting \in Nat
  BY TypesOfProcs, PipeAssumption, Zenon DEF IInv, ProcInv, TypeOK
<1>2. /\ UNCHANGED <<bufVars, endVars, histVars, left, ret, signals>> /\ sem' = sem /\ SemBy(p)
      /\ UNCHANGED <<bufs, curbuf, nrbufs, tmp_page, pages, readers, writers, open>>
  BY Zenon DEF write_full, bufVars, endVars, histVars, SemBy
<1>3. pc[p] = "write" /\ p \in Writers /\ p \notin Readers /\ nrbufs = PIPE_BUFFERS /\ readers > 0
  BY <1>1, PipeAssumption, Zenon DEF write_full, ProcOK
<1>4. PIPE_BUFFERS \in Nat \ {0} /\ readers \in Nat
  BY <1>1, PipeAssumption DEF TypeOK
<1>5. ~(nrbufs < PIPE_BUFFERS) /\ nrbufs > 0 /\ readers # 0
  BY <1>3, <1>4
<1>6. CASE p \in NonBlock \cup signals
  <2>1. pc' = [pc EXCEPT ![p] = "out"] /\ UNCHANGED <<waitq, waiting, do_wakeup>>
    BY <1>6, Zenon DEF write_full, Goto
  <2>2. pc' \in [Procs -> PCs] /\ pc'[p] = "out" /\ \A q \in Procs \ {p} : Same(q)
    BY <1>1, <1>2, <2>1, Zenon DEF ProcTypes, PCs, Same
  <2>3. TypeOK'
    BY <1>1, <1>2, <2>1, <2>2, TypesOfProcs, Zenon DEF ProcTypes
  <2>4. ProcOK(p)' /\ ~Needs(p)' /\ (Wakes(p) => Wakes(p)')
    BY <1>1, <1>2, <1>3, <1>5, <2>1, <2>2, Zenon DEF ProcOK, Locked, Needs, Wakes
  <2>5. pc[p] \notin Waits /\ pc'[p] \notin Waits
    BY <1>3, <2>2, Zenon DEF Waits
  <2> QED BY <1>2, <2>1, <2>2, <2>3, <2>4, <2>5, QuietStep, Zenon
<1>7. CASE p \notin NonBlock \cup signals
  <2>1. /\ pc' = [pc EXCEPT ![p] = "prepared"]
        /\ waitq' = (IF do_wakeup[p] THEN {} ELSE waitq) \cup {p}
        /\ do_wakeup' = [do_wakeup EXCEPT ![p] = FALSE] /\ waiting' = waiting + 1
    BY <1>7, Zenon DEF write_full, Goto, Woken
  <2>2. pc' \in [Procs -> PCs] /\ pc'[p] = "prepared" /\ do_wakeup' \in [Procs -> BOOLEAN]
        /\ \A q \in Procs \ {p} : Same(q)
    BY <1>1, <1>2, <2>1, Zenon DEF ProcTypes, PCs, Same
  <2>3. waiting' \in Nat /\ waiting' # 0 /\ waitq' \subseteq Procs
    BY <1>1, <2>1 DEF ProcTypes
  <2>4. TypeOK'
    BY <1>1, <1>2, <2>2, <2>3, Zenon DEF TypeOK, bufVars, endVars, histVars
  <2>5. ProcOK(p)'
    BY <1>1, <1>2, <1>3, <2>2, Zenon DEF ProcOK, Locked
  <2>6. ProcInv'
    BY <1>2, <2>2, <2>5, OthersKeep, Zenon DEF IInv
  <2>7. EndInv' /\ RingInv'
    BY <1>2, RingSame, Zenon DEF IInv, EndInv
  <2>8. pc[p] \notin Waits /\ pc'[p] \in Waits
    BY <1>3, <2>2, Zenon DEF Waits
  <2>9. WaitingCounted'
    BY <1>3, <2>1, <2>2, <2>8, WaitingMoves, Zenon
  <2>10. PageInv'
    BY <1>2, <1>5, Zenon DEF PageInv
  <2>11. WakeInv'
    <3> SUFFICES ASSUME NEW x \in waitq', Needs(x)' PROVE \E q \in Procs : Wakes(q)'
      BY Zenon DEF WakeInv
    <3>1. ~Needs(p)'
      BY <1>2, <1>3, <1>5, <2>2, Zenon DEF Needs, pipe_poll
    <3>2. x # p /\ x \in waitq /\ x \in Procs /\ ~do_wakeup[p]
      BY <1>1, <2>1, <3>1, Zenon DEF ProcTypes
    <3>3. Needs(x)
      BY <1>2, <2>2, <2>3, <3>2, Zenon DEF Needs, Same, pipe_poll
    <3>4. PICK q \in Procs : Wakes(q)
      BY <3>2, <3>3, Zenon DEF IInv, WakeInv
    <3>5. q # p
      BY <1>5, <3>2, <3>4, Zenon DEF Wakes
    <3>6. Wakes(q)'
      BY <1>2, <2>2, <3>4, <3>5, Zenon DEF Wakes, Same
    <3> QED BY <3>6, Zenon
  <2> QED BY <2>4, <2>6, <2>7, <2>9, <2>10, <2>11, Zenon DEF IInv
<1>8. QED
  BY <1>6, <1>7, Zenon

(* A woken process takes the semaphore again.  When the last waiting       *)
(* writer does, a reader may sleep for no reason: the writer wakes it,     *)
(* because it finds room and a page.                                       *)
LEMMA WokenStep ==
    ASSUME IInv, NEW p \in Procs, pipe_wait_done(p)
    PROVE  IInv'
<1>1. TypeOK /\ ProcTypes /\ ProcOK(p) /\ p # NoProc /\ waiting \in Nat
  BY TypesOfProcs, PipeAssumption, Zenon DEF IInv, ProcInv, TypeOK
<1>2. /\ UNCHANGED <<bufVars, endVars, histVars, left, ret, do_wakeup, signals, waitq>>
      /\ UNCHANGED <<bufs, curbuf, nrbufs, tmp_page, pages, readers, writers, open>>
      /\ pc[p] = "sleep" /\ p \notin waitq /\ sem = NoProc /\ sem' = p /\ SemBy(p)
      /\ pc' = [pc EXCEPT ![p] = IF p \in Readers THEN "read" ELSE "write"]
      /\ waiting' = IF p \in Writers THEN waiting - 1 ELSE waiting
  BY Zenon DEF pipe_wait_done, bufVars, endVars, histVars, callVars, SemBy, Goto
<1>3. pc' \in [Procs -> PCs] /\ pc'[p] = IF p \in Readers THEN "read" ELSE "write"
  BY <1>1, <1>2, Zenon DEF ProcTypes, PCs
<1>4. \A q \in Procs \ {p} : Same(q)
  BY <1>1, <1>2, Zenon DEF ProcTypes, Same
<1>5. ProcOK(p)'
  BY <1>1, <1>2, <1>3, Zenon DEF ProcOK, Locked, Procs
<1>6. CASE p \in Readers
  <2>1. p \notin Writers /\ waiting' = waiting
    BY <1>2, <1>6, PipeAssumption, Zenon
  <2>2. TypeOK'
    BY <1>1, <1>2, <1>3, <2>1, TypesOfProcs, Zenon DEF ProcTypes
  <2>3. ~Wakes(p)
    BY <1>2, Zenon DEF Wakes
  <2> QED BY <1>2, <1>4, <1>5, <2>1, <2>2, <2>3, QuietStep, Zenon
<1>7. CASE p \notin Readers
  <2>1. p \in Writers /\ pc'[p] = "write" /\ waiting' = waiting - 1
    BY <1>2, <1>3, <1>7, Zenon DEF Procs
  <2>2. pc[p] \in Waits /\ pc'[p] \notin Waits
    BY <1>2, <2>1, Zenon DEF Waits
  <2>3. WaitingCounted' /\ waiting' \in Nat
    BY <1>4, <2>1, <2>2, WaitingMoves, Zenon
  <2>4. TypeOK'
    BY <1>1, <1>2, <1>3, <2>3, Zenon DEF TypeOK, bufVars, endVars, histVars
  <2>5. ProcInv'
    BY <1>2, <1>4, <1>5, OthersKeep, Zenon DEF IInv
  <2>6. EndInv' /\ RingInv'
    BY <1>2, RingSame, Zenon DEF IInv, EndInv
  <2>7. nrbufs > 0 \/ tmp_page
    BY <2>1, <2>2, Zenon DEF IInv, PageInv, Waits
  <2>8. PageInv'
    BY <1>2, <2>7, Zenon DEF PageInv
  <2>9. WakeInv'
    <3> SUFFICES ASSUME NEW x \in waitq', Needs(x)' PROVE \E q \in Procs : Wakes(q)'
      BY Zenon DEF WakeInv
    <3>1. x # p /\ x \in waitq /\ x \in Procs
      BY <1>1, <1>2, Zenon DEF ProcTypes
    <3>2. CASE Needs(x)
      <4>1. PICK q \in Procs : Wakes(q)
        BY <3>1, <3>2, Zenon DEF IInv, WakeInv
      <4>2. q # p
        BY <1>2, <4>1, Zenon DEF Wakes
      <4>3. Wakes(q)'
        BY <1>2, <1>4, <4>1, <4>2, Zenon DEF Wakes, Same
      <4> QED BY <4>3, Zenon
    <3>3. CASE ~Needs(x)
      <4>1. pc[x] \in {"prepared", "sleep"} /\ x \in Readers /\ ~pipe_poll(x)
        BY <1>2, <1>4, <3>1, <3>3, Zenon DEF Needs, Same, pipe_poll
      <4>2. x \in open
        BY <3>1, <4>1, Zenon DEF IInv, ProcInv, ProcOK
      <4>3. readers = 1 /\ nrbufs \in Nat /\ ~(nrbufs > 0)
        BY <1>1, <4>1, <4>2, PipeAssumption DEF IInv, EndInv, TypeOK, pipe_poll
      <4>4. readers > 0 /\ nrbufs < PIPE_BUFFERS
        BY <4>3, PipeAssumption
      <4>5. Wakes(p)'
        BY <1>2, <2>1, <2>7, <4>3, <4>4, Zenon DEF Wakes
      <4> QED BY <4>5, Zenon
    <3> QED BY <3>2, <3>3, Zenon
  <2> QED BY <2>3, <2>4, <2>5, <2>6, <2>8, <2>9, Zenon DEF IInv
<1>8. QED
  BY <1>6, <1>7, Zenon

-----------------------------------------------------------------------------
(* The current buffer of a pipe that is not empty, and what a read leaves  *)
(* of it.                                                                  *)
Chars(p) == Least(Len(bufs[curbuf].data), left[p])
Rest(p) == SubSeq(bufs[curbuf].data, Chars(p) + 1, Len(bufs[curbuf].data))

Buf == [ops : BOOLEAN, offset : 0 .. PAGE_SIZE, data : Seq(Byte)]

(* A set of numbers up to n has a last one.                                *)
LEMMA HasLast ==
    ASSUME NEW n \in Nat, NEW S \in SUBSET (1 .. n), S # {}
    PROVE  \E i \in S : \A j \in S : j <= i
<1> DEFINE T == {n - i : i \in S}
           R == {ss \in Nat \X Nat : ss[1] < ss[2]}
<1>1. IsWellFoundedOn(R, Nat)
  BY NatLessThanWellFounded, Zenon DEF OpToRel
<1>2. T \subseteq Nat /\ T # {}
  <2>1. \A i \in S : n - i \in Nat
    OBVIOUS
  <2>2. T \subseteq Nat
    BY <2>1, Zenon
  <2>3. T # {}
    BY Zenon
  <2> QED BY <2>2, <2>3, Zenon
<1>3. PICK x \in T : \A y \in T : ~(<<y, x>> \in R)
  <2> HIDE DEF T, R
  <2> QED BY <1>1, <1>2, WFMin, Zenon
<1>4. \A y \in T : x <= y
  <2>1. \A y \in T : y \in Nat /\ x \in Nat
    BY <1>2, Zenon
  <2>2. \A y \in T : ~(y < x)
    BY <1>3, <2>1, Zenon
  <2> QED BY <2>1, <2>2
<1>5. PICK i \in S : x = n - i
  BY Zenon
<1>6. ASSUME NEW j \in S PROVE j <= i
  <2>1. n - j \in T
    BY Zenon
  <2>2. n - i <= n - j
    BY <1>4, <1>5, <2>1, Zenon
  <2>3. i \in 1 .. n /\ j \in 1 .. n
    BY Zenon
  <2> HIDE DEF T, R
  <2> QED BY <2>2, <2>3
<1>7. QED
  BY <1>6, Zenon

(* pipe_readv() finds a buffer at curbuf, in use and not empty.            *)
LEMMA CurrentBuffer ==
    ASSUME IInv, NEW p \in Procs, read_buf(p)
    PROVE  /\ curbuf \in 0 .. PIPE_BUFFERS - 1 /\ nrbufs \in 1 .. PIPE_BUFFERS
           /\ bufs[curbuf] \in Buf /\ bufs[curbuf].ops
           /\ InRing(curbuf)
           /\ Len(bufs[curbuf].data) \in Nat \ {0}
           /\ FilledTo(bufs[curbuf]) <= PAGE_SIZE
           /\ Chars(p) \in 1 .. Len(bufs[curbuf].data) /\ Chars(p) <= left[p] /\ left[p] \in Nat
           /\ Rest(p) \in Seq(Byte) /\ Len(Rest(p)) = Len(bufs[curbuf].data) - Chars(p)
           /\ \A j \in 1 .. Len(Rest(p)) : Rest(p)[j] = bufs[curbuf].data[j + Chars(p)]
           /\ Rest(p) = <<>> <=> Chars(p) = Len(bufs[curbuf].data)
           /\ p \in Readers /\ sem = p /\ pc[p] = "read"
<1> DEFINE b == bufs[curbuf]
           n == Len(b.data)
<1>1. TypeOK /\ ProcOK(p) /\ BufOK(curbuf) /\ pc[p] = "read" /\ nrbufs > 0
  BY Zenon DEF IInv, ProcInv, RingInv, TypeOK, read_buf
<1>2. curbuf \in 0 .. PIPE_BUFFERS - 1 /\ nrbufs \in 1 .. PIPE_BUFFERS /\ PIPE_BUFFERS \in Nat
      /\ left[p] \in Nat
  BY <1>1, PipeAssumption DEF TypeOK
<1>3. InRing(curbuf)
  BY <1>2 DEF InRing
<1>4. b \in Buf /\ b.ops /\ b.data \in Seq(Byte) /\ b.data # <<>> /\ FilledTo(b) <= PAGE_SIZE
  BY <1>1, <1>2, <1>3, Zenon DEF BufOK, TypeOK, Buf
<1>5. n \in Nat \ {0}
  BY <1>4
<1>6. p \in Readers /\ sem = p /\ left[p] > 0
  BY <1>1, Zenon DEF ProcOK, Locked
<1>7. Chars(p) \in 1 .. n /\ Chars(p) <= left[p]
  BY <1>2, <1>5, <1>6 DEF Chars, Least
<1> HIDE DEF b
<1>8. /\ Rest(p) \in Seq(Byte) /\ Len(Rest(p)) = n - Chars(p)
      /\ \A j \in 1 .. Len(Rest(p)) : Rest(p)[j] = b.data[j + Chars(p)]
  <2> DEFINE c == Chars(p)
  <2>1. c \in 1 .. n /\ b.data \in Seq(Byte)
    BY <1>4, <1>7, Zenon
  <2> HIDE DEF c
  <2>2. /\ SubSeq(b.data, c + 1, n) \in Seq(Byte) /\ Len(SubSeq(b.data, c + 1, n)) = n - c
        /\ \A j \in 1 .. n - c : SubSeq(b.data, c + 1, n)[j] = b.data[j + c]
    BY <1>5, <2>1
  <2> QED BY <2>2, Zenon DEF Rest, c, b
<1>9. Rest(p) = <<>> <=> Chars(p) = n
  BY <1>5, <1>7, <1>8
<1>10. QED
  BY <1>1, <1>2, <1>3, <1>4, <1>5, <1>6, <1>7, <1>8, <1>9, Zenon DEF b

(* The buffers in use are finitely many.                                   *)
LEMMA RingFinite ==
    ASSUME TypeOK
    PROVE  IsFiniteSet({i \in DOMAIN bufs : bufs[i].ops})
<1>1. DOMAIN bufs = 0 .. PIPE_BUFFERS - 1 /\ PIPE_BUFFERS - 1 \in Int /\ 0 \in Int
  BY PipeAssumption DEF TypeOK
<1>2. IsFiniteSet(0 .. PIPE_BUFFERS - 1)
  BY <1>1, FS_Interval, Zenon
<1>3. QED
  BY <1>1, <1>2, FS_Subset, Zenon

(* What a read does to the buffers.                                        *)
LEMMA ReadBuffers ==
    ASSUME IInv, NEW p \in Procs, read_buf(p)
    PROVE  /\ bufs' \in [0 .. PIPE_BUFFERS - 1 -> Buf]
           /\ \A i \in 0 .. PIPE_BUFFERS - 1 : i # curbuf => bufs'[i] = bufs[i]
           /\ CASE Rest(p) = <<>> ->
                     /\ bufs'[curbuf] = NoBuf /\ nrbufs' = nrbufs - 1 /\ tmp_page' = TRUE
                     /\ curbuf' = IF curbuf + 1 < PIPE_BUFFERS THEN curbuf + 1 ELSE 0
                     /\ pages' = IF tmp_page THEN pages - 1 ELSE pages
                []  OTHER ->
                     /\ bufs'[curbuf].ops /\ bufs'[curbuf].data = Rest(p)
                     /\ bufs'[curbuf].offset = bufs[curbuf].offset + Chars(p)
                     /\ UNCHANGED <<curbuf, nrbufs, tmp_page, pages>>
<1> DEFINE b == bufs[curbuf]
           nb == IF Rest(p) = <<>> THEN NoBuf
                 ELSE [b EXCEPT !.offset = @ + Chars(p), !.data = Rest(p)]
<1>1. /\ bufs' = [bufs EXCEPT ![curbuf] = nb]
      /\ curbuf' = IF Rest(p) = <<>> THEN NextBuf(curbuf) ELSE curbuf
      /\ nrbufs' = IF Rest(p) = <<>> THEN nrbufs - 1 ELSE nrbufs
      /\ tmp_page' = (tmp_page \/ Rest(p) = <<>>)
      /\ pages' = IF Rest(p) = <<>> THEN PagesReleased ELSE pages
  BY Zenon DEF read_buf, Chars, Rest
<1>2. /\ curbuf \in 0 .. PIPE_BUFFERS - 1 /\ b \in Buf /\ b.ops
      /\ Len(b.data) \in Nat \ {0} /\ FilledTo(b) <= PAGE_SIZE
      /\ Chars(p) \in 1 .. Len(b.data) /\ Rest(p) \in Seq(Byte)
  BY CurrentBuffer, Zenon
<1>3. bufs \in [0 .. PIPE_BUFFERS - 1 -> Buf] /\ tmp_page \in BOOLEAN /\ PAGE_SIZE \in Nat
      /\ PIPE_BUFFERS \in Nat \ {0}
  BY PipeAssumption, Zenon DEF IInv, TypeOK, Buf
<1>4. NoBuf \in Buf
  BY <1>3 DEF NoBuf, Buf
<1>5. CASE Rest(p) = <<>>
  <2>1. bufs' = [bufs EXCEPT ![curbuf] = NoBuf] /\ curbuf' = NextBuf(curbuf)
        /\ nrbufs' = nrbufs - 1 /\ tmp_page' = TRUE /\ pages' = PagesReleased
    BY <1>1, <1>5, Zenon
  <2>2. curbuf' = IF curbuf + 1 < PIPE_BUFFERS THEN curbuf + 1 ELSE 0
    <3>1. 1 \in 0 .. PIPE_BUFFERS
      BY <1>3
    <3>2. NextBuf(curbuf) = IF curbuf + 1 < PIPE_BUFFERS THEN curbuf + 1
                                                        ELSE curbuf + 1 - PIPE_BUFFERS
      BY <1>2, <3>1, Wraps, Zenon DEF NextBuf
    <3> QED BY <1>2, <1>3, <2>1, <3>2
  <2>3. bufs' \in [0 .. PIPE_BUFFERS - 1 -> Buf] /\ bufs'[curbuf] = NoBuf
        /\ \A i \in 0 .. PIPE_BUFFERS - 1 : i # curbuf => bufs'[i] = bufs[i]
    BY <1>2, <1>3, <1>4, <2>1, Zenon
  <2> QED BY <1>5, <2>1, <2>2, <2>3, Zenon DEF PagesReleased
<1>6. CASE Rest(p) # <<>>
  <2> DEFINE r == [b EXCEPT !.offset = @ + Chars(p), !.data = Rest(p)]
  <2>1. bufs' = [bufs EXCEPT ![curbuf] = r] /\ UNCHANGED <<curbuf, nrbufs, tmp_page, pages>>
    BY <1>1, <1>3, <1>6, Zenon
  <2>2. b.offset + Chars(p) \in 0 .. PAGE_SIZE
    BY <1>2, <1>3 DEF FilledTo, Buf
  <2>3. r \in Buf /\ r.ops /\ r.data = Rest(p) /\ r.offset = b.offset + Chars(p)
    BY <1>2, <2>2, Zenon DEF Buf
  <2>4. bufs' \in [0 .. PIPE_BUFFERS - 1 -> Buf] /\ bufs'[curbuf] = r
        /\ \A i \in 0 .. PIPE_BUFFERS - 1 : i # curbuf => bufs'[i] = bufs[i]
    BY <1>2, <1>3, <2>1, <2>3, Zenon
  <2> QED BY <1>6, <2>1, <2>3, <2>4, Zenon
<1>7. QED
  BY <1>5, <1>6, Zenon

(* A read keeps the ring.                                                  *)
LEMMA ReadKeepsRing ==
    ASSUME IInv, NEW p \in Procs, read_buf(p)
    PROVE  /\ RingInv' /\ bufs' \in [0 .. PIPE_BUFFERS - 1 -> Buf]
           /\ curbuf' \in 0 .. PIPE_BUFFERS - 1 /\ nrbufs' \in 0 .. PIPE_BUFFERS
           /\ tmp_page' \in BOOLEAN /\ pages' \in Nat
<1> DEFINE N == 0 .. PIPE_BUFFERS - 1
           S == {i \in DOMAIN bufs : bufs[i].ops}
           b == bufs[curbuf]
<1>1. TypeOK /\ RingInv /\ EndInv /\ ProcOK(p)
  BY Zenon DEF IInv, ProcInv
<1>2. /\ bufs \in [N -> Buf] /\ tmp_page \in BOOLEAN /\ pages \in Nat /\ PIPE_BUFFERS \in Nat \ {0}
      /\ PAGE_SIZE \in Nat
  BY <1>1, PipeAssumption, Zenon DEF TypeOK, Buf
<1>3. /\ curbuf \in N /\ nrbufs \in 1 .. PIPE_BUFFERS /\ InRing(curbuf) /\ b.ops
  BY CurrentBuffer, Zenon
<1>4. readers # 0 /\ UNCHANGED <<readers, writers>>
  <2>1. p \in open \cap Readers /\ UNCHANGED <<readers, writers>>
    BY <1>1, CurrentBuffer, Zenon DEF ProcOK, read_buf, endVars
  <2> QED BY <1>1, <2>1 DEF EndInv
<1>5. DOMAIN bufs = N /\ IsFiniteSet(S) /\ Cardinality(S) = nrbufs
      /\ pages = nrbufs + (IF tmp_page THEN 1 ELSE 0) /\ \A i \in N : BufOK(i)
  BY <1>1, <1>2, RingFinite, Zenon DEF RingInv
<1>6. CASE Rest(p) = <<>>
  <2>1. /\ bufs' \in [N -> Buf] /\ bufs'[curbuf] = NoBuf /\ nrbufs' = nrbufs - 1 /\ tmp_page' = TRUE
        /\ \A i \in N : i # curbuf => bufs'[i] = bufs[i]
        /\ curbuf' = IF curbuf + 1 < PIPE_BUFFERS THEN curbuf + 1 ELSE 0
        /\ pages' = IF tmp_page THEN pages - 1 ELSE pages
    BY <1>6, ReadBuffers, Zenon
  <2>2. curbuf' \in N /\ nrbufs' \in 0 .. PIPE_BUFFERS /\ pages' = nrbufs' + 1 /\ pages' \in Nat
    BY <1>2, <1>3, <1>5, <2>1
  <2>3. ~NoBuf.ops
    BY Zenon DEF NoBuf
  <2>4. ASSUME NEW i \in N PROVE InRing(i)' <=> InRing(i) /\ i # curbuf
    BY <1>2, <1>3, <2>1 DEF InRing
  <2>5. ASSUME NEW i \in N PROVE BufOK(i)'
    <3>1. CASE i = curbuf
      BY <2>1, <2>3, <2>4, <3>1, Zenon DEF BufOK
    <3>2. CASE i # curbuf
      BY <1>5, <2>1, <2>4, <3>2, Zenon DEF BufOK
    <3> QED BY <3>1, <3>2, Zenon
  <2>6. S' = S \ {curbuf} /\ curbuf \in S
    <3>1. DOMAIN bufs' = N
      BY <2>1, Zenon
    <3>2. S \subseteq N /\ curbuf \in S
      BY <1>3, <1>5, Zenon
    <3>3. ASSUME NEW i \in N PROVE bufs'[i].ops <=> bufs[i].ops /\ i # curbuf
      BY <2>1, <2>3, Zenon
    <3> QED BY <1>5, <3>1, <3>2, <3>3, Zenon
  <2>7. Cardinality(S') = nrbufs'
    BY <1>5, <2>1, <2>6, FS_RemoveElement, Zenon
  <2>8. RingInv'
    BY <1>4, <2>1, <2>2, <2>5, <2>7, Zenon DEF RingInv
  <2> QED BY <2>1, <2>2, <2>8, Zenon
<1>7. CASE Rest(p) # <<>>
  <2>1. /\ bufs' \in [N -> Buf] /\ UNCHANGED <<curbuf, nrbufs, tmp_page, pages>>
        /\ \A i \in N : i # curbuf => bufs'[i] = bufs[i]
        /\ bufs'[curbuf].ops /\ bufs'[curbuf].data = Rest(p)
        /\ bufs'[curbuf].offset = b.offset + Chars(p)
    BY <1>7, ReadBuffers, Zenon
  <2>2. ASSUME NEW i \in N PROVE (InRing(i)' <=> InRing(i)) /\ (bufs'[i].ops <=> bufs[i].ops)
    BY <1>3, <2>1, Zenon DEF InRing
  <2>3. BufOK(curbuf)'
    <3> DEFINE d == b.data
               e == Rest(p)
               c == Chars(p)
    <3>1. /\ Len(d) \in Nat \ {0} /\ c \in 1 .. Len(d)
          /\ Len(e) = Len(d) - c
          /\ \A j \in 1 .. Len(e) : e[j] = d[j + c]
          /\ e = <<>> <=> c = Len(d)
          /\ FilledTo(b) <= PAGE_SIZE /\ b.offset \in Nat
      BY CurrentBuffer DEF Buf
    <3>2. /\ d[Len(d)].cut
          /\ \A j \in 1 .. Len(d) - 1 : d[j].from # d[j + 1].from => d[j].cut
      BY <1>3, <1>5, Zenon DEF BufOK
    <3> HIDE DEF d, e, c
    <3>3. Len(e) \in Nat /\ Len(e) # 0 /\ Len(e) + c = Len(d)
      BY <1>7, <3>1 DEF e
    <3>4. e[Len(e)] = d[Len(d)]
      BY <3>1, <3>3
    <3>5. ASSUME NEW j \in 1 .. Len(e) - 1
          PROVE  e[j] = d[j + c] /\ e[j + 1] = d[(j + c) + 1] /\ j + c \in 1 .. Len(d) - 1
      BY <3>1, <3>3
    <3>6. \A j \in 1 .. Len(e) - 1 : e[j].from # e[j + 1].from => e[j].cut
      BY <3>2, <3>5, Zenon
    <3>7. (b.offset + c) + Len(e) <= PAGE_SIZE
      BY <3>1, <3>3, SMTT(30) DEF FilledTo, d
    <3>8. curbuf' = curbuf /\ InRing(curbuf)'
      BY <1>3, <2>1, <2>2, Zenon
    <3>9. FilledTo(bufs'[curbuf]) <= PAGE_SIZE
      BY <2>1, <3>7, Zenon DEF FilledTo, c, e
    <3>10. bufs'[curbuf].data = e /\ e # <<>> /\ e[Len(e)].cut
      BY <1>7, <2>1, <3>2, <3>4, Zenon DEF e
    <3> QED BY <2>1, <3>6, <3>8, <3>9, <3>10, Zenon DEF BufOK, FilledTo
  <2>4. ASSUME NEW i \in N PROVE BufOK(i)'
    <3>1. CASE i = curbuf
      BY <2>1, <2>3, <3>1, Zenon
    <3>2. CASE i # curbuf
      BY <1>5, <2>1, <2>2, <3>2, Zenon DEF BufOK
    <3> QED BY <3>1, <3>2, Zenon
  <2>5. S' = S
    <3>1. DOMAIN bufs' = N
      BY <2>1, Zenon
    <3> QED BY <1>5, <2>2, <3>1, Zenon
  <2>6. RingInv'
    BY <1>4, <1>5, <2>1, <2>4, <2>5, Zenon DEF RingInv
  <2>7. nrbufs \in 0 .. PIPE_BUFFERS
    BY <1>3
  <2> QED BY <1>2, <1>3, <2>1, <2>6, <2>7, Zenon
<1>8. QED
  BY <1>6, <1>7, Zenon

(* The last byte of w among the first n of the current buffer.             *)
Mine(w, n) == {i \in 1 .. n : bufs[curbuf].data[i].from = w}

(* What a read leaves as the next byte of a writer: the one after the last *)
(* of its bytes that were read.                                            *)
LEMMA ReceivedIs ==
    ASSUME IInv, NEW p \in Procs, read_buf(p), NEW w \in Writers
    PROVE  /\ rcvd'[w] \in 0 .. ByteMod - 1
           /\ Mine(w, Chars(p)) = {} => rcvd'[w] = rcvd[w]
           /\ Mine(w, Chars(p)) # {} =>
                 \E i \in Mine(w, Chars(p)) :
                    /\ \A j \in Mine(w, Chars(p)) : j <= i
                    /\ rcvd'[w] = Inc(bufs[curbuf].data[i].num)
<1> DEFINE d == bufs[curbuf].data
           M == Mine(w, Chars(p))
           last == CHOOSE i \in M : \A j \in M : j <= i
<1>1. /\ Len(d) \in Nat /\ Chars(p) \in 1 .. Len(d) /\ d \in Seq(Byte)
  BY CurrentBuffer, Zenon DEF Buf
<1>2. rcvd'[w] = IF M = {} THEN rcvd[w] ELSE (d[last].num + 1) % ByteMod
  BY Zenon DEF read_buf, Received, Mine, Chars
<1>3. rcvd[w] \in 0 .. ByteMod - 1 /\ ByteMod \in Nat \ {0}
  BY PipeAssumption, Zenon DEF IInv, TypeOK
<1>4. CASE M = {}
  BY <1>2, <1>3, <1>4, Zenon
<1>5. CASE M # {}
  <2>1. M \in SUBSET (1 .. Chars(p)) /\ Chars(p) \in Nat
    BY <1>1 DEF Mine
  <2>2. \E i \in M : \A j \in M : j <= i
    <3> HIDE DEF M
    <3> QED BY <1>5, <2>1, HasLast, Zenon
  <2>3. last \in M /\ \A j \in M : j <= last
    BY <2>2, Zenon
  <2> HIDE DEF last
  <2>4. last \in 1 .. Len(d)
    BY <1>1, <2>1, <2>3
  <2>5. d[last] \in Byte
    <3> HIDE DEF d
    <3> QED BY <1>1, <2>4
  <2>6. d[last].num \in 0 .. ByteMod - 1
    BY <2>5, Zenon DEF Byte
  <2>7. (d[last].num + 1) % ByteMod \in 0 .. ByteMod - 1
    BY <1>3, <2>6
  <2> QED BY <1>2, <1>5, <2>3, <2>7, Zenon DEF Inc
<1>6. QED
  BY <1>4, <1>5, Zenon

(* One round of a read.                                                    *)
LEMMA ReadStep ==
    ASSUME IInv, NEW p \in Procs, read_buf(p)
    PROVE  IInv'
<1>1. /\ TypeOK /\ ProcTypes /\ ProcOK(p) /\ p # NoProc /\ p \in Readers /\ p \notin Writers
      /\ sem = p /\ pc[p] = "read"
  BY TypesOfProcs, CurrentBuffer, PipeAssumption, Zenon DEF IInv, ProcInv
<1>2. /\ RingInv' /\ bufs' \in [0 .. PIPE_BUFFERS - 1 -> Buf]
      /\ curbuf' \in 0 .. PIPE_BUFFERS - 1 /\ nrbufs' \in 0 .. PIPE_BUFFERS
      /\ tmp_page' \in BOOLEAN /\ pages' \in Nat
  BY ReadKeepsRing, Zenon
<1>3. /\ UNCHANGED <<endVars, waiting, sem, waitq, signals, sent>>
      /\ UNCHANGED <<readers, writers, open>>
      /\ do_wakeup' = [do_wakeup EXCEPT ![p] = @ \/ Rest(p) = <<>>]
      /\ ret' = [ret EXCEPT ![p] = @ + Chars(p)]
      /\ left' = [left EXCEPT ![p] = @ - Chars(p)]
      /\ pc' = [pc EXCEPT ![p] = IF left[p] = Chars(p) THEN "out" ELSE "read"]
      /\ rcvd' = [w \in Writers |-> Received(w, Chars(p))]
  BY Zenon DEF read_buf, Goto, endVars, Chars, Rest
<1>4. Chars(p) \in Nat /\ Chars(p) <= left[p]
  BY CurrentBuffer
<1>5. ret' \in [Procs -> Nat] /\ left' \in [Procs -> Nat] /\ left'[p] = left[p] - Chars(p)
  BY <1>1, <1>3, <1>4 DEF ProcTypes
<1>6. do_wakeup' \in [Procs -> BOOLEAN] /\ do_wakeup'[p] = (do_wakeup[p] \/ Rest(p) = <<>>)
  BY <1>1, <1>3, Zenon DEF ProcTypes
<1>7. pc' \in [Procs -> PCs] /\ pc'[p] = IF left[p] = Chars(p) THEN "out" ELSE "read"
  BY <1>1, <1>3, Zenon DEF ProcTypes, PCs
<1>8. rcvd' \in [Writers -> 0 .. ByteMod - 1]
  BY <1>3, ReceivedIs, Zenon
<1>9. TypeOK'
  BY <1>1, <1>2, <1>3, <1>5, <1>6, <1>7, <1>8, Zenon DEF TypeOK, endVars, Buf
<1>10. \A q \in Procs \ {p} : Same(q)
  BY <1>1, <1>3, Zenon DEF Same, ProcTypes
<1>11. pc'[p] = "read" => left'[p] > 0
  BY <1>1, <1>4, <1>5, <1>7 DEF ProcTypes
<1>12. ProcOK(p)'
  BY <1>1, <1>3, <1>7, <1>11, Zenon DEF ProcOK, Locked
<1>13. pc[p] \notin Waits /\ pc'[p] \notin Waits \cup {"pollsleep"} /\ pc'[p] \in {"out", "read"}
  BY <1>1, <1>7, Zenon DEF Waits
<1>14. CASE Rest(p) = <<>>
  <2>1. tmp_page' = TRUE /\ Wakes(p)'
    BY <1>6, <1>13, <1>14, ReadBuffers, Zenon DEF Wakes
  <2> QED BY <1>1, <1>2, <1>3, <1>9, <1>10, <1>12, <1>13, <2>1, LoopStep, Zenon
<1>15. CASE Rest(p) # <<>>
  <2>1. UNCHANGED <<nrbufs, tmp_page>>
    BY <1>15, ReadBuffers, Zenon
  <2>2. Wakes(p) => Wakes(p)'
    BY <1>1, <1>6, <1>13, Zenon DEF Wakes
  <2> QED BY <1>1, <1>2, <1>3, <1>9, <1>10, <1>12, <1>13, <2>1, <2>2, LoopStep, Zenon
<1>16. QED
  BY <1>14, <1>15, Zenon

-----------------------------------------------------------------------------
(* The bytes that a step of a write adds are the writer's next ones, and a *)
(* write may be cut after the last of them.                                *)
LEMMA BytesAre ==
    ASSUME IInv, NEW w \in Writers, NEW n \in Nat \ {0},
           ret[w] + left[w] > PAGE_SIZE \/ n = left[w]
    PROVE  /\ Bytes(w, n) \in Seq(Byte) /\ Len(Bytes(w, n)) = n /\ Bytes(w, n) # <<>>
           /\ \A i \in 1 .. n : Bytes(w, n)[i].from = w
           /\ \A i \in 1 .. n : Bytes(w, n)[i].num = (sent[w] + i - 1) % ByteMod
           /\ Bytes(w, n)[n].cut
<1> DEFINE byte(i) == [from |-> w, num |-> (sent[w] + i - 1) % ByteMod,
                       cut |-> ret[w] + left[w] > PAGE_SIZE \/ i = left[w]]
<1>1. sent[w] \in 0 .. ByteMod - 1 /\ ByteMod \in Nat \ {0}
  BY PipeAssumption, Zenon DEF IInv, TypeOK
<1>2. ASSUME NEW i \in 1 .. n PROVE byte(i) \in Byte
  <2>1. (sent[w] + i - 1) % ByteMod \in 0 .. ByteMod - 1
    BY <1>1
  <2>2. (ret[w] + left[w] > PAGE_SIZE \/ i = left[w]) \in BOOLEAN
    BY Zenon
  <2> QED BY <2>1, <2>2, Zenon DEF Byte
<1>3. Bytes(w, n) = [i \in 1 .. n |-> byte(i)]
  BY Zenon DEF Bytes
<1>4. Bytes(w, n) \in [1 .. n -> Byte]
  BY <1>2, <1>3, Zenon
<1>5. Bytes(w, n) \in Seq(Byte) /\ Len(Bytes(w, n)) = n
  BY <1>4
<1>6. ASSUME NEW i \in 1 .. n
      PROVE  Bytes(w, n)[i].from = w /\ Bytes(w, n)[i].num = (sent[w] + i - 1) % ByteMod
  <2>1. Bytes(w, n)[i] = byte(i)
    <3> HIDE DEF byte
    <3> QED BY <1>3, Zenon
  <2>2. byte(i).from = w /\ byte(i).num = (sent[w] + i - 1) % ByteMod
    BY Zenon
  <2> HIDE DEF byte
  <2> QED BY <2>1, <2>2, Zenon
<1>7. n \in 1 .. n
  OBVIOUS
<1>8. Bytes(w, n)[n].cut
  <2>1. Bytes(w, n)[n] = byte(n)
    <3> HIDE DEF byte
    <3> QED BY <1>3, <1>7, Zenon
  <2>2. byte(n).cut
    BY Zenon
  <2> HIDE DEF byte
  <2> QED BY <2>1, <2>2, Zenon
<1>9. Bytes(w, n) # <<>>
  BY <1>5, Zenon
<1>10. QED
  BY <1>5, <1>6, <1>8, <1>9, Zenon

(* A step of a write that adds n bytes, to the last buffer or a new one.   *)
Adds(p, n) ==
    /\ n \in Nat \ {0} /\ n <= left[p] /\ (ret[p] + left[p] > PAGE_SIZE \/ n = left[p])
    /\ sent' = [sent EXCEPT ![p] = (@ + n) % ByteMod]
    /\ left' = [left EXCEPT ![p] = @ - n]
    /\ ret' \in [Procs -> Nat] /\ \A q \in Procs \ {p} : ret'[q] = ret[q]
    /\ do_wakeup' = [do_wakeup EXCEPT ![p] = TRUE]
    /\ pc' = [pc EXCEPT ![p] = IF left[p] = n THEN "out" ELSE "write"]
    /\ UNCHANGED <<endVars, waiting, sem, waitq, signals, rcvd>>

(* What appending to a buffer and filling a new one have in common.        *)
LEMMA AddStep ==
    ASSUME IInv, NEW p \in Procs, pc[p] \in {"write0", "write"}, NEW n, Adds(p, n),
           RingInv', bufs' \in [0 .. PIPE_BUFFERS - 1 -> Buf],
           curbuf' \in 0 .. PIPE_BUFFERS - 1, nrbufs' \in 1 .. PIPE_BUFFERS,
           tmp_page' \in BOOLEAN, pages' \in Nat
    PROVE  IInv'
<1>1. TypeOK /\ ProcTypes /\ ProcOK(p) /\ p # NoProc /\ p \in Writers /\ sem = p
  BY TypesOfProcs, PipeAssumption, Zenon DEF IInv, ProcInv, ProcOK, Locked
<1>2. /\ UNCHANGED <<endVars, waiting, sem, waitq, signals, rcvd>>
      /\ UNCHANGED <<readers, writers, open>>
  BY Zenon DEF Adds, endVars
<1>3. left' \in [Procs -> Nat] /\ left'[p] = left[p] - n
  BY <1>1 DEF Adds, ProcTypes
<1>4. do_wakeup' \in [Procs -> BOOLEAN] /\ do_wakeup'[p]
  BY <1>1, Zenon DEF Adds, ProcTypes
<1>5. pc' \in [Procs -> PCs] /\ pc'[p] = IF left[p] = n THEN "out" ELSE "write"
  BY <1>1, Zenon DEF Adds, ProcTypes, PCs
<1>6. sent' \in [Writers -> 0 .. ByteMod - 1]
  <2>1. sent \in [Writers -> 0 .. ByteMod - 1] /\ ByteMod \in Nat \ {0} /\ n \in Nat
    BY <1>1, PipeAssumption, Zenon DEF Adds, TypeOK
  <2>2. (sent[p] + n) % ByteMod \in 0 .. ByteMod - 1
    BY <1>1, <2>1
  <2> QED BY <1>1, <2>1, <2>2, Zenon DEF Adds
<1>7. nrbufs' \in 0 .. PIPE_BUFFERS /\ nrbufs' > 0
  OBVIOUS
<1>8. TypeOK'
  BY <1>1, <1>2, <1>3, <1>4, <1>5, <1>6, <1>7, Zenon DEF TypeOK, endVars, Buf, Adds
<1>9. \A q \in Procs \ {p} : Same(q)
  BY <1>1, Zenon DEF Adds, Same, ProcTypes
<1>10. pc'[p] = "write" => left'[p] > 0
  BY <1>1, <1>3, <1>5 DEF Adds, ProcTypes
<1>11. ProcOK(p)'
  BY <1>1, <1>2, <1>5, <1>10, Zenon DEF ProcOK, Locked
<1>12. pc[p] \notin Waits /\ pc'[p] \notin Waits \cup {"pollsleep"} /\ pc'[p] \in {"out", "write"}
  BY <1>5, Zenon DEF Waits
<1>13. Wakes(p)'
  BY <1>4, <1>12, Zenon DEF Wakes
<1>14. QED
  BY <1>1, <1>2, <1>7, <1>8, <1>9, <1>11, <1>12, <1>13, LoopStep, Zenon

(* A round with room: the first buffer after the ring becomes its last.    *)
NewBuf == (curbuf + nrbufs) % PIPE_BUFFERS

(* The buffer after those in use is free, and with it they are one more.   *)
LEMMA NewBufIs ==
    ASSUME TypeOK, nrbufs < PIPE_BUFFERS
    PROVE  /\ NewBuf \in 0 .. PIPE_BUFFERS - 1 /\ ~InRing(NewBuf)
           /\ \A i \in 0 .. PIPE_BUFFERS - 1 :
                 UNCHANGED curbuf /\ nrbufs' = nrbufs + 1 => (InRing(i)' <=> InRing(i) \/ i = NewBuf)
<1>1. /\ curbuf \in 0 .. PIPE_BUFFERS - 1 /\ nrbufs \in 0 .. PIPE_BUFFERS
      /\ PIPE_BUFFERS \in Nat \ {0}
  BY PipeAssumption, Zenon DEF TypeOK
<1>2. NewBuf = IF curbuf + nrbufs < PIPE_BUFFERS THEN curbuf + nrbufs
                                                 ELSE curbuf + nrbufs - PIPE_BUFFERS
  BY <1>1, Wraps, Zenon DEF NewBuf
<1>3. NewBuf \in 0 .. PIPE_BUFFERS - 1 /\ ~InRing(NewBuf)
  BY <1>1, <1>2 DEF InRing
<1>4. ASSUME NEW i \in 0 .. PIPE_BUFFERS - 1, UNCHANGED curbuf, nrbufs' = nrbufs + 1
      PROVE  InRing(i)' <=> InRing(i) \/ i = NewBuf
  BY <1>1, <1>2, <1>4 DEF InRing
<1>5. QED
  BY <1>3, <1>4, Zenon

(* What a round with room does.                                            *)
LEMMA NewBufStep ==
    ASSUME IInv, NEW p \in Procs, write_buf(p)
    PROVE  /\ p \in Writers /\ Adds(p, Least(PAGE_SIZE, left[p]))
           /\ UNCHANGED curbuf /\ nrbufs' = nrbufs + 1 /\ tmp_page' = FALSE
           /\ bufs' \in [0 .. PIPE_BUFFERS - 1 -> Buf]
           /\ bufs'[NewBuf] = [ops |-> TRUE, offset |-> 0,
                               data |-> Bytes(p, Least(PAGE_SIZE, left[p]))]
           /\ \A i \in 0 .. PIPE_BUFFERS - 1 : i # NewBuf => bufs'[i] = bufs[i]
<1> DEFINE n == Least(PAGE_SIZE, left[p])
           nb == [ops |-> TRUE, offset |-> 0, data |-> Bytes(p, n)]
<1>1. TypeOK /\ ProcTypes /\ p \in Writers /\ left[p] > 0 /\ nrbufs < PIPE_BUFFERS
  BY TypesOfProcs, Zenon DEF IInv, ProcInv, ProcOK, write_buf
<1>2. left[p] \in Nat /\ ret[p] \in Nat /\ PAGE_SIZE \in Nat \ {0}
  BY <1>1, PipeAssumption, Zenon DEF ProcTypes
<1>3. n \in Nat \ {0} /\ n <= left[p] /\ (ret[p] + left[p] > PAGE_SIZE \/ n = left[p])
  BY <1>1, <1>2 DEF Least
<1>4. Bytes(p, n) \in Seq(Byte)
  <2> HIDE DEF n
  <2> QED BY <1>1, <1>3, BytesAre, Zenon
<1>5. nb \in Buf
  <2> HIDE DEF n
  <2> QED BY <1>2, <1>4 DEF Buf
<1>6. bufs' = [bufs EXCEPT ![NewBuf] = nb] /\ UNCHANGED curbuf /\ nrbufs' = nrbufs + 1
      /\ tmp_page' = FALSE /\ ret' = [ret EXCEPT ![p] = @ + n]
  BY Zenon DEF write_buf, NewBuf
<1>7. bufs \in [0 .. PIPE_BUFFERS - 1 -> Buf] /\ NewBuf \in 0 .. PIPE_BUFFERS - 1
  BY <1>1, NewBufIs, Zenon DEF TypeOK, Buf
<1>8. /\ bufs' \in [0 .. PIPE_BUFFERS - 1 -> Buf] /\ bufs'[NewBuf] = nb
      /\ \A i \in 0 .. PIPE_BUFFERS - 1 : i # NewBuf => bufs'[i] = bufs[i]
  <2> HIDE DEF nb
  <2> QED BY <1>5, <1>6, <1>7, Zenon
<1>9. ret' \in [Procs -> Nat] /\ \A q \in Procs \ {p} : ret'[q] = ret[q]
  <2> HIDE DEF n
  <2> QED BY <1>1, <1>3, <1>6 DEF ProcTypes
<1>10. Adds(p, n)
  BY <1>3, <1>9, Zenon DEF Adds, write_buf, Sent, Goto
<1>11. QED
  BY <1>1, <1>6, <1>8, <1>10, Zenon

(* pipe_writev() fills a new buffer.                                       *)
LEMMA WriteStep ==
    ASSUME IInv, NEW p \in Procs, write_buf(p)
    PROVE  IInv'
<1> DEFINE N == 0 .. PIPE_BUFFERS - 1
           S == {i \in DOMAIN bufs : bufs[i].ops}
           n == Least(PAGE_SIZE, left[p])
           d == Bytes(p, n)
<1>1. TypeOK /\ RingInv /\ EndInv /\ ProcOK(p) /\ pc[p] = "write" /\ nrbufs < PIPE_BUFFERS
      /\ pages' = IF tmp_page THEN pages ELSE pages + 1
  BY Zenon DEF IInv, ProcInv, write_buf
<1>2. /\ p \in Writers /\ Adds(p, n)
      /\ UNCHANGED curbuf /\ nrbufs' = nrbufs + 1 /\ tmp_page' = FALSE
      /\ bufs' \in [N -> Buf] /\ bufs'[NewBuf] = [ops |-> TRUE, offset |-> 0, data |-> d]
      /\ \A i \in N : i # NewBuf => bufs'[i] = bufs[i]
  BY NewBufStep, Zenon
<1>3. /\ NewBuf \in N /\ ~InRing(NewBuf)
      /\ \A i \in N : InRing(i)' <=> InRing(i) \/ i = NewBuf
  BY <1>1, <1>2, NewBufIs, Zenon
<1>4. n \in Nat \ {0} /\ n <= left[p] /\ (ret[p] + left[p] > PAGE_SIZE \/ n = left[p])
      /\ left[p] \in Nat /\ PAGE_SIZE \in Nat \ {0}
  BY <1>1, <1>2, PipeAssumption, Zenon DEF Adds, TypeOK
<1>5. n <= PAGE_SIZE
  BY <1>4 DEF Least
<1> HIDE DEF n
<1>6. Len(d) = n /\ d # <<>> /\ d[n].cut /\ \A i \in 1 .. n : d[i].from = p
  BY <1>2, <1>4, BytesAre
<1>7. \A j \in 1 .. n - 1 : d[j].from = d[j + 1].from
  <2>1. ASSUME NEW j \in 1 .. n - 1 PROVE j \in 1 .. n /\ j + 1 \in 1 .. n
    BY <1>4
  <2> QED BY <1>6, <2>1, Zenon
<1> HIDE DEF d
<1>8. ASSUME NEW i \in N, i = NewBuf PROVE BufOK(i)'
  <2>1. bufs'[i].ops /\ bufs'[i].offset = 0 /\ bufs'[i].data = d
    BY <1>2, <1>8
  <2>2. 0 + Len(d) <= PAGE_SIZE
    BY <1>4, <1>5, <1>6
  <2>3. FilledTo(bufs'[i]) <= PAGE_SIZE
    BY <2>1, <2>2, Zenon DEF FilledTo
  <2>4. d[Len(d)].cut /\ \A j \in 1 .. Len(d) - 1 : d[j].from # d[j + 1].from => d[j].cut
    BY <1>6, <1>7, Zenon
  <2>5. InRing(i)'
    BY <1>3, <1>8, Zenon
  <2>6. bufs'[i].data # <<>>
    BY <1>6, <2>1, Zenon
  <2> QED BY <2>1, <2>3, <2>4, <2>5, <2>6, Zenon DEF BufOK, FilledTo
<1>9. ASSUME NEW i \in N PROVE BufOK(i)'
  <2>1. CASE i = NewBuf
    BY <1>8, <2>1, Zenon
  <2>2. CASE i # NewBuf
    <3>1. BufOK(i) /\ bufs'[i] = bufs[i] /\ (InRing(i)' <=> InRing(i))
      BY <1>1, <1>2, <1>3, <2>2, Zenon DEF RingInv
    <3> QED BY <3>1, Zenon DEF BufOK, FilledTo
  <2> QED BY <2>1, <2>2, Zenon
<1>10. DOMAIN bufs = N /\ IsFiniteSet(S) /\ Cardinality(S) = nrbufs /\ nrbufs \in Nat
       /\ pages = nrbufs + (IF tmp_page THEN 1 ELSE 0) /\ PIPE_BUFFERS \in Nat
  <2>1. DOMAIN bufs = N /\ nrbufs \in Nat /\ PIPE_BUFFERS \in Nat
    BY <1>1, PipeAssumption DEF TypeOK
  <2> QED BY <1>1, <2>1, RingFinite, Zenon DEF RingInv
<1>11. S' = S \cup {NewBuf} /\ NewBuf \notin S
  <2>1. DOMAIN bufs' = N /\ ~bufs[NewBuf].ops
    BY <1>1, <1>2, <1>3, Zenon DEF RingInv, BufOK
  <2>2. ASSUME NEW i \in N PROVE bufs'[i].ops <=> bufs[i].ops \/ i = NewBuf
    BY <1>2
  <2> QED BY <1>3, <1>10, <2>1, <2>2, Zenon
<1>12. Cardinality(S') = nrbufs'
  BY <1>2, <1>10, <1>11, FS_AddElement, Zenon
<1>13. pages' = nrbufs' /\ nrbufs' \in 1 .. PIPE_BUFFERS /\ pages' \in Nat
  BY <1>1, <1>2, <1>10
<1>14. writers # 0 /\ UNCHANGED <<readers, writers>>
  <2>1. p \in open \cap Writers /\ UNCHANGED <<readers, writers>>
    BY <1>1, <1>2, Zenon DEF ProcOK, Adds, endVars
  <2> QED BY <1>1, <2>1 DEF EndInv
<1>15. RingInv'
  <2>1. pages' = nrbufs' + (IF tmp_page' THEN 1 ELSE 0)
    BY <1>2, <1>10, <1>13
  <2> QED BY <1>9, <1>12, <1>14, <2>1, Zenon DEF RingInv
<1>16. curbuf' \in N /\ tmp_page' \in BOOLEAN /\ pc[p] \in {"write0", "write"}
  BY <1>1, <1>2, Zenon DEF TypeOK
<1>17. QED
  BY <1>2, <1>13, <1>15, <1>16, AddStep, Zenon

(* The odd bytes of a write are merged into the last buffer.               *)
Merges(p) ==
    LET n == MergeChars(p) IN
    /\ nrbufs > 0 /\ n # 0 /\ FilledTo(bufs[Last]) + n <= PAGE_SIZE
    /\ bufs' = [bufs EXCEPT ![Last].data = @ \o Bytes(p, n)]
    /\ Adds(p, n)
    /\ UNCHANGED <<curbuf, nrbufs, tmp_page, pages>>

(* The buffer that a write may be merged into is the last of those in use. *)
LEMMA LastIs ==
    ASSUME TypeOK, RingInv, nrbufs > 0
    PROVE  /\ Last \in 0 .. PIPE_BUFFERS - 1 /\ InRing(Last) /\ bufs[Last] \in Buf
           /\ Last = RingIndex(nrbufs - 1) /\ nrbufs - 1 \in 0 .. PIPE_BUFFERS /\ nrbufs \in Nat
<1>1. /\ curbuf \in 0 .. PIPE_BUFFERS - 1 /\ nrbufs \in 1 .. PIPE_BUFFERS
      /\ PIPE_BUFFERS \in Nat \ {0} /\ bufs \in [0 .. PIPE_BUFFERS - 1 -> Buf]
  BY PipeAssumption DEF TypeOK, Buf
<1>2. curbuf + nrbufs - 1 = curbuf + (nrbufs - 1) /\ nrbufs - 1 \in 0 .. PIPE_BUFFERS
      /\ nrbufs \in Nat
  BY <1>1
<1>3. Last = IF curbuf + (nrbufs - 1) < PIPE_BUFFERS THEN curbuf + (nrbufs - 1)
                                                    ELSE curbuf + (nrbufs - 1) - PIPE_BUFFERS
  BY <1>1, <1>2, Wraps, Zenon DEF Last
<1>4. Last \in 0 .. PIPE_BUFFERS - 1 /\ InRing(Last)
  BY <1>1, <1>3 DEF InRing
<1>5. QED
  BY <1>1, <1>2, <1>4, Zenon DEF Last, RingIndex

(* A merge appends to the last buffer, within its page, and leaves the     *)
(* others alone.                                                           *)
LEMMA MergeBuffers ==
    ASSUME IInv, NEW p \in Writers, Merges(p)
    PROVE  /\ bufs' \in [0 .. PIPE_BUFFERS - 1 -> Buf]
           /\ bufs'[Last].ops /\ bufs'[Last].offset = bufs[Last].offset
           /\ bufs'[Last].data = bufs[Last].data \o Bytes(p, MergeChars(p))
           /\ \A i \in 0 .. PIPE_BUFFERS - 1 : i # Last => bufs'[i] = bufs[i]
           /\ Bytes(p, MergeChars(p)) \in Seq(Byte)
           /\ Len(Bytes(p, MergeChars(p))) = MergeChars(p)
           /\ \A i \in 1 .. MergeChars(p) : Bytes(p, MergeChars(p))[i].from = p
           /\ Bytes(p, MergeChars(p))[MergeChars(p)].cut
           /\ MergeChars(p) \in Nat \ {0}
           /\ bufs[Last].data \in Seq(Byte) /\ Len(bufs[Last].data) \in Nat \ {0}
           /\ bufs[Last].offset \in Nat
<1> DEFINE n == MergeChars(p)
           e == Bytes(p, n)
           b == bufs[Last]
           nb == [b EXCEPT !.data = @ \o e]
<1>1. TypeOK /\ RingInv /\ nrbufs > 0 /\ bufs' = [bufs EXCEPT ![Last] = nb]
  BY Zenon DEF IInv, Merges
<1>2. Last \in 0 .. PIPE_BUFFERS - 1 /\ InRing(Last) /\ b \in Buf
  BY <1>1, LastIs, Zenon
<1>3. bufs \in [0 .. PIPE_BUFFERS - 1 -> Buf]
  BY <1>1, Zenon DEF TypeOK, Buf
<1>4. n \in Nat \ {0} /\ (ret[p] + left[p] > PAGE_SIZE \/ n = left[p])
  BY Zenon DEF Merges, Adds
<1> HIDE DEF n
<1>5. /\ e \in Seq(Byte) /\ Len(e) = n /\ \A i \in 1 .. n : e[i].from = p
      /\ e[n].cut
  BY <1>4, BytesAre
<1> HIDE DEF e
<1>6. b.ops /\ b.data # <<>>
  BY <1>1, <1>2, Zenon DEF RingInv, BufOK
<1>7. b.data \in Seq(Byte) /\ b.offset \in Nat
  BY <1>2 DEF Buf
<1>8. Len(b.data) \in Nat \ {0} /\ b.data \o e \in Seq(Byte)
  BY <1>5, <1>6, <1>7
<1>9. nb \in Buf /\ nb.ops /\ nb.offset = b.offset /\ nb.data = b.data \o e
  <2> HIDE DEF b
  <2> QED BY <1>2, <1>6, <1>8, Zenon DEF Buf
<1>10. /\ bufs' \in [0 .. PIPE_BUFFERS - 1 -> Buf] /\ bufs'[Last] = nb
       /\ \A i \in 0 .. PIPE_BUFFERS - 1 : i # Last => bufs'[i] = bufs[i]
  <2> HIDE DEF nb
  <2> QED BY <1>1, <1>2, <1>3, <1>9, Zenon
<1>11. QED
  <2> HIDE DEF nb
  <2> QED BY <1>4, <1>5, <1>7, <1>8, <1>9, <1>10, Zenon DEF n, e

(* A write that merges, fails to, or goes on to the loop.                  *)
LEMMA MergeCases ==
    ASSUME IInv, NEW p \in Procs, write_merge(p)
    PROVE  /\ p \in Writers /\ pc[p] = "write0"
           /\ \/ Merges(p)
              \/ /\ pc' = [pc EXCEPT ![p] = "out"]
                 /\ do_wakeup' = [do_wakeup EXCEPT ![p] = TRUE]
                 /\ UNCHANGED <<bufVars, endVars, waiting, histVars, sem, waitq, signals, left, ret>>
              \/ /\ pc' = [pc EXCEPT ![p] = "write"]
                 /\ UNCHANGED <<bufVars, endVars, waiting, histVars, sem, waitq, signals, callVars>>
<1> DEFINE n == MergeChars(p)
           fits == nrbufs > 0 /\ n # 0 /\ FilledTo(bufs[Last]) + n <= PAGE_SIZE
<1>1. TypeOK /\ ProcTypes /\ p \in Writers /\ pc[p] = "write0" /\ left[p] > 0
  BY TypesOfProcs, Zenon DEF IInv, ProcInv, ProcOK, write_merge
<1>2. left[p] \in Nat /\ ret[p] \in Nat /\ PAGE_SIZE \in Nat \ {0}
  BY <1>1, PipeAssumption, Zenon DEF ProcTypes
<1>3. n \in Nat /\ n <= left[p] /\ (ret[p] + left[p] > PAGE_SIZE \/ n = left[p] \/ n = 0)
  <2>1. n \in Nat /\ (left[p] < PAGE_SIZE => n = left[p]) /\ (left[p] = PAGE_SIZE => n = 0)
        /\ n < PAGE_SIZE
    BY <1>2 DEF MergeChars
  <2> HIDE DEF n
  <2> QED BY <1>2, <2>1
<1>4. CASE ~fits
  <2>1. pc' = [pc EXCEPT ![p] = "write"] /\ UNCHANGED <<bufs, sent, callVars>>
    BY <1>4, Zenon DEF write_merge, Goto
  <2>2. UNCHANGED <<curbuf, nrbufs, tmp_page, pages, endVars, waiting, sem, waitq, signals, rcvd>>
    BY Zenon DEF write_merge
  <2> QED BY <1>1, <2>1, <2>2, Zenon DEF bufVars, histVars
<1>5. CASE fits
  <2>1. UNCHANGED <<curbuf, nrbufs, tmp_page, pages, endVars, waiting, sem, waitq, signals, rcvd>>
    BY Zenon DEF write_merge
  <2>2. \/ /\ bufs' = [bufs EXCEPT ![Last].data = @ \o Bytes(p, n)]
           /\ Sent(p, n)
           /\ left' = [left EXCEPT ![p] = @ - n]
           /\ ret' = [ret EXCEPT ![p] = n]
           /\ do_wakeup' = [do_wakeup EXCEPT ![p] = TRUE]
           /\ pc' = [pc EXCEPT ![p] = IF left[p] = n THEN "out" ELSE "write"]
        \/ /\ do_wakeup' = [do_wakeup EXCEPT ![p] = TRUE]
           /\ pc' = [pc EXCEPT ![p] = "out"]
           /\ UNCHANGED <<bufs, sent, left, ret>>
    BY <1>5, Zenon DEF write_merge, Goto
  <2>3. CASE ret' = [ret EXCEPT ![p] = n] /\ left' = [left EXCEPT ![p] = @ - n]
    <3>1. ret' \in [Procs -> Nat] /\ \A q \in Procs \ {p} : ret'[q] = ret[q]
      <4> HIDE DEF n
      <4> QED BY <1>1, <1>3, <2>3, Zenon DEF ProcTypes
    <3>2. n \in Nat \ {0} /\ n <= left[p] /\ (ret[p] + left[p] > PAGE_SIZE \/ n = left[p])
      BY <1>3, <1>5, Zenon
    <3>3. CASE UNCHANGED left
      <4>1. left[p] = left[p] - n
        <5> HIDE DEF n
        <5> QED BY <1>1, <2>3, <3>3, Zenon DEF ProcTypes
      <4> HIDE DEF n
      <4> QED BY <1>2, <3>2, <4>1
    <3>4. CASE ~UNCHANGED left
      BY <1>1, <1>5, <2>1, <2>2, <3>1, <3>2, <3>4, Zenon DEF Merges, Adds, Sent
    <3> QED BY <3>3, <3>4, Zenon
  <2>4. CASE ~(ret' = [ret EXCEPT ![p] = n] /\ left' = [left EXCEPT ![p] = @ - n])
    BY <1>1, <2>1, <2>2, <2>4, Zenon DEF bufVars, histVars
  <2> QED BY <2>3, <2>4, Zenon
<1>6. QED
  BY <1>4, <1>5, Zenon

(* The merging of a small write into the last buffer.                      *)
LEMMA MergeStep ==
    ASSUME IInv, NEW p \in Procs, write_merge(p)
    PROVE  IInv'
<1>1. TypeOK /\ ProcTypes /\ ProcOK(p) /\ RingInv /\ p # NoProc /\ p \in Writers
      /\ pc[p] = "write0" /\ sem = p
  BY TypesOfProcs, MergeCases, PipeAssumption, Zenon DEF IInv, ProcInv, ProcOK, Locked
<1>2. CASE Merges(p)
  <2> DEFINE N == 0 .. PIPE_BUFFERS - 1
             n == MergeChars(p)
             e == Bytes(p, n)
             d == bufs[Last].data
             f == d \o e
             S == {i \in DOMAIN bufs : bufs[i].ops}
  <2>1. /\ nrbufs > 0 /\ Adds(p, n) /\ UNCHANGED <<curbuf, nrbufs, tmp_page, pages>>
        /\ FilledTo(bufs[Last]) + n <= PAGE_SIZE /\ PAGE_SIZE \in Nat
    BY <1>2, PipeAssumption, Zenon DEF Merges
  <2>2. Last \in N /\ InRing(Last)
    BY <1>1, <2>1, LastIs, Zenon
  <2>3. /\ bufs' \in [N -> Buf]
        /\ bufs'[Last].ops /\ bufs'[Last].offset = bufs[Last].offset /\ bufs'[Last].data = f
        /\ \A i \in N : i # Last => bufs'[i] = bufs[i]
    BY <1>1, <1>2, MergeBuffers, Zenon
  <2>4. /\ e \in Seq(Byte) /\ Len(e) = n /\ n \in Nat \ {0} /\ d \in Seq(Byte)
        /\ Len(d) \in Nat \ {0} /\ bufs[Last].offset \in Nat
        /\ e[n].cut /\ \A i \in 1 .. n : e[i].from = p
    BY <1>1, <1>2, MergeBuffers, Zenon
  <2>5. /\ bufs[Last].ops /\ d[Len(d)].cut
        /\ \A j \in 1 .. Len(d) - 1 : d[j].from # d[j + 1].from => d[j].cut
    BY <1>1, <2>2, Zenon DEF RingInv, BufOK
  <2>6. (bufs[Last].offset + Len(d)) + n <= PAGE_SIZE
    BY <2>1, Zenon DEF FilledTo
  <2> HIDE DEF n, e, d, f
  <2>7. /\ Len(f) = Len(d) + n /\ f # <<>>
        /\ \A j \in 1 .. Len(f) : f[j] = IF j <= Len(d) THEN d[j] ELSE e[j - Len(d)]
    BY <2>4 DEF f
  <2>8. f[Len(f)].cut
    <3>1. f[Len(f)] = e[n]
      BY <2>4, <2>7
    <3> QED BY <2>4, <3>1, Zenon
  <2>9. ASSUME NEW j \in 1 .. Len(f) - 1, f[j].from # f[j + 1].from PROVE f[j].cut
    <3>1. CASE j < Len(d)
      <4>1. f[j] = d[j] /\ f[j + 1] = d[j + 1] /\ j \in 1 .. Len(d) - 1
        BY <2>4, <2>7, <3>1
      <4> QED BY <2>5, <2>9, <4>1, Zenon
    <3>2. CASE j = Len(d)
      <4>1. f[j] = d[Len(d)]
        BY <2>4, <2>7, <3>2
      <4> QED BY <2>5, <4>1, Zenon
    <3>3. CASE j > Len(d)
      <4>1. /\ f[j] = e[j - Len(d)] /\ f[j + 1] = e[(j + 1) - Len(d)]
            /\ j - Len(d) \in 1 .. n /\ (j + 1) - Len(d) \in 1 .. n
        BY <2>4, <2>7, <3>3
      <4> QED BY <2>4, <2>9, <4>1, Zenon
    <3> QED BY <2>4, <2>7, <3>1, <3>2, <3>3
  <2>10. bufs[Last].offset + Len(f) <= PAGE_SIZE
    BY <2>1, <2>4, <2>6, <2>7
  <2>11. ASSUME NEW i \in N PROVE BufOK(i)' /\ (bufs'[i].ops <=> bufs[i].ops)
    <3>1. InRing(i)' <=> InRing(i)
      BY <2>1, Zenon DEF InRing
    <3>2. CASE i = Last
      <4>1. FilledTo(bufs'[i]) <= PAGE_SIZE
        BY <2>3, <2>10, <3>2, Zenon DEF FilledTo
      <4>2. bufs'[i].ops /\ bufs'[i].data = f /\ InRing(i)'
        BY <2>2, <2>3, <3>1, <3>2, Zenon
      <4> QED BY <2>5, <2>7, <2>8, <2>9, <3>2, <4>1, <4>2, Zenon DEF BufOK, FilledTo
    <3>3. CASE i # Last
      <4>1. BufOK(i) /\ bufs'[i] = bufs[i]
        BY <1>1, <2>3, <3>3, Zenon DEF RingInv
      <4> QED BY <3>1, <4>1, Zenon DEF BufOK, FilledTo
    <3> QED BY <3>2, <3>3, Zenon
  <2>12. S' = S
    <3>1. DOMAIN bufs' = N /\ DOMAIN bufs = N
      BY <1>1, <2>3, Zenon DEF TypeOK
    <3> QED BY <2>11, <3>1, Zenon
  <2>13. RingInv'
    <3>1. UNCHANGED <<readers, writers>>
      BY <2>1, Zenon DEF Adds, endVars
    <3> QED BY <1>1, <2>1, <2>11, <2>12, <3>1, Zenon DEF RingInv
  <2>14. nrbufs' \in 1 .. PIPE_BUFFERS /\ curbuf' \in N /\ tmp_page' \in BOOLEAN /\ pages' \in Nat
    BY <1>1, <2>1 DEF TypeOK
  <2> QED BY <1>1, <2>1, <2>3, <2>13, <2>14, AddStep, Zenon
<1>3. CASE /\ pc' = [pc EXCEPT ![p] = "out"]
           /\ do_wakeup' = [do_wakeup EXCEPT ![p] = TRUE]
           /\ UNCHANGED <<bufVars, endVars, waiting, histVars, sem, waitq, signals, left, ret>>
  <2>1. /\ pc' \in [Procs -> PCs] /\ pc'[p] = "out" /\ do_wakeup' \in [Procs -> BOOLEAN]
        /\ \A q \in Procs \ {p} : Same(q)
    BY <1>1, <1>3, Zenon DEF ProcTypes, PCs, Same
  <2>2. TypeOK'
    BY <1>1, <1>3, <2>1, TypesOfProcs, Zenon DEF ProcTypes
  <2>3. /\ UNCHANGED <<bufs, curbuf, nrbufs, tmp_page, pages, readers, writers, open, waiting>>
        /\ SemBy(p)
    BY <1>3, Zenon DEF bufVars, endVars, SemBy
  <2>4. ProcOK(p)' /\ ~Needs(p)' /\ ~Wakes(p)
    BY <1>1, <1>3, <2>1, <2>3, Zenon DEF ProcOK, Locked, Needs, Wakes
  <2>5. pc[p] \notin Waits /\ pc'[p] \notin Waits /\ UNCHANGED waitq
    BY <1>1, <1>3, <2>1, Zenon DEF Waits
  <2> QED BY <2>1, <2>2, <2>3, <2>4, <2>5, QuietStep, Zenon
<1>4. CASE /\ pc' = [pc EXCEPT ![p] = "write"]
           /\ UNCHANGED <<bufVars, endVars, waiting, histVars, sem, waitq, signals, callVars>>
  <2>1. /\ pc' \in [Procs -> PCs] /\ pc'[p] = "write" /\ \A q \in Procs \ {p} : Same(q)
        /\ UNCHANGED <<left, ret, do_wakeup>>
    BY <1>1, <1>4, Zenon DEF ProcTypes, PCs, Same, callVars
  <2>2. TypeOK'
    BY <1>1, <1>4, <2>1, TypesOfProcs, Zenon DEF ProcTypes
  <2>3. /\ UNCHANGED <<bufs, curbuf, nrbufs, tmp_page, pages, readers, writers, open, waiting>>
        /\ SemBy(p)
    BY <1>4, Zenon DEF bufVars, endVars, SemBy
  <2>4. ProcOK(p)' /\ ~Needs(p)' /\ ~Wakes(p)
    BY <1>1, <1>4, <2>1, <2>3, Zenon DEF ProcOK, Locked, Needs, Wakes
  <2>5. pc[p] \notin Waits /\ pc'[p] \notin Waits /\ UNCHANGED waitq
    BY <1>1, <1>4, <2>1, Zenon DEF Waits
  <2> QED BY <2>1, <2>2, <2>3, <2>4, <2>5, QuietStep, Zenon
<1>5. QED
  BY <1>2, <1>3, <1>4, MergeCases, Zenon


(* copy_from_user() fails with the page already taken.                     *)
LEMMA FaultStep ==
    ASSUME IInv, NEW p \in Procs, write_fault(p)
    PROVE  IInv'
<1>1. TypeOK /\ ProcTypes /\ ProcOK(p) /\ RingInv /\ pc[p] = "write" /\ sem = p
  BY TypesOfProcs, Zenon DEF IInv, ProcInv, ProcOK, Locked, write_fault
<1>2. /\ tmp_page' = TRUE /\ pages' = IF tmp_page THEN pages ELSE pages + 1
      /\ do_wakeup' = [do_wakeup EXCEPT ![p] = TRUE] /\ pc' = [pc EXCEPT ![p] = "out"]
      /\ UNCHANGED <<bufs, curbuf, nrbufs, readers, writers, open, waiting, sem, waitq, left, ret,
                     signals, sent, rcvd>>
      /\ readers > 0
  BY Zenon DEF write_fault, Goto, endVars, histVars
<1>3. /\ pc' \in [Procs -> PCs] /\ pc'[p] = "out" /\ do_wakeup' \in [Procs -> BOOLEAN]
      /\ do_wakeup'[p] = TRUE
      /\ \A q \in Procs \ {p} : Same(q)
  BY <1>1, <1>2, Zenon DEF ProcTypes, PCs, Same
<1>4. nrbufs \in Nat /\ pages \in Nat /\ tmp_page \in BOOLEAN /\ readers \in Nat
  BY <1>1 DEF TypeOK
<1>5. pages' \in Nat /\ pages' = nrbufs + 1 /\ readers # 0
  <2>1. pages = nrbufs + (IF tmp_page THEN 1 ELSE 0)
    BY <1>1, Zenon DEF RingInv
  <2> QED BY <1>2, <1>4, <2>1
<1>6. TypeOK'
  BY <1>1, <1>2, <1>3, <1>5, Zenon DEF TypeOK
<1>7. RingInv'
  BY <1>1, <1>2, <1>5, Zenon DEF RingInv, BufOK, InRing, FilledTo
<1>8. ProcOK(p)' /\ Wakes(p)'
  BY <1>1, <1>2, <1>3, Zenon DEF ProcOK, Locked, Wakes
<1>9. pc[p] \notin Waits /\ pc'[p] \notin Waits \cup {"pollsleep"}
  BY <1>1, <1>3, Zenon DEF Waits
<1>10. QED
  BY <1>1, <1>2, <1>3, <1>6, <1>7, <1>8, <1>9, LoopStep, Zenon

-----------------------------------------------------------------------------
(* close(2).                                                               *)

(* The processes after a close: only who has its end open changed.         *)
LEMMA CloseKeeps ==
    ASSUME IInv, NEW p \in Procs, pipe_release(p)
    PROVE  /\ ProcTypes' /\ ProcInv' /\ WaitingCounted'
           /\ UNCHANGED <<waiting, sem, pc, left, ret, do_wakeup, signals, sent, rcvd>>
           /\ open' = open \ {p} /\ p \in open /\ waitq' \subseteq waitq
           /\ \A w \in Procs : pc[w] # "user" => w \in open'
<1>1. TypeOK /\ ProcTypes /\ ProcInv /\ WaitingCounted
  BY TypesOfProcs, Zenon DEF IInv
<1>2. /\ UNCHANGED <<waiting, sem, pc, left, ret, do_wakeup, signals, sent, rcvd>>
      /\ open' = open \ {p} /\ p \in open /\ pc[p] = "user"
  BY Zenon DEF pipe_release, callVars, histVars
<1>3. waitq' \subseteq waitq
  BY Zenon DEF pipe_release, release_wakes
<1>4. ProcTypes'
  BY <1>1, <1>2, <1>3, Zenon DEF ProcTypes
<1>5. ASSUME NEW q \in Procs PROVE ProcOK(q)' /\ (pc[q] # "user" => q \in open')
  <2>1. ProcOK(q)
    BY <1>1, Zenon DEF ProcInv
  <2>2. pc[q] # "user" => q \in open'
    BY <1>2, <2>1, Zenon DEF ProcOK
  <2> QED BY <1>2, <2>1, <2>2, Zenon DEF ProcOK
<1>6. WaitingCounted'
  BY <1>1, <1>2, Zenon DEF WaitingCounted
<1>7. QED
  BY <1>2, <1>3, <1>4, <1>5, <1>6, Zenon DEF ProcInv

(* The counts of the ends after a close.                                   *)
LEMMA CloseCounts ==
    ASSUME IInv, NEW p \in Procs, pipe_release(p)
    PROVE  /\ EndInv' /\ readers' \in 0 .. 1 /\ writers' \in 0 .. 1
           /\ \/ UNCHANGED <<bufs, curbuf, nrbufs, tmp_page, pages, readers, writers, waitq>>
              \/ readers' = 0 /\ writers' = 0 /\ free_pipe_info
              \/ /\ waitq' = {} /\ ~(readers' = 0 /\ writers' = 0)
                 /\ UNCHANGED <<bufs, curbuf, nrbufs, tmp_page, pages>>
<1>1. EndInv /\ open \subseteq Procs /\ open' = open \ {p} /\ p \in open
  BY CloseKeeps, Zenon DEF IInv, TypeOK
<1>2. Procs = Readers \cup Writers /\ Readers \cap Writers = {}
  BY PipeAssumption, Zenon DEF Procs
<1> DEFINE others == \E q \in open \ {p} : q \in Readers <=> p \in Readers
<1>3. CASE others
  <2>1. UNCHANGED <<bufs, curbuf, nrbufs, tmp_page, pages, readers, writers, waitq>>
    BY <1>3, Zenon DEF pipe_release, bufVars
  <2>2. PICK q \in open \ {p} : q \in Readers <=> p \in Readers
    BY <1>3, Zenon
  <2>3. open' \cap Readers = {} <=> open \cap Readers = {}
    BY <1>1, <1>2, <2>2, Zenon
  <2>4. open' \cap Writers = {} <=> open \cap Writers = {}
    BY <1>1, <1>2, <2>2, Zenon
  <2>5. EndInv'
    BY <1>1, <2>1, <2>3, <2>4, Zenon DEF EndInv
  <2>6. readers \in 0 .. 1 /\ writers \in 0 .. 1
    BY <1>1 DEF EndInv
  <2> QED BY <2>1, <2>5, <2>6, Zenon
<1>4. CASE ~others
  <2>1. /\ readers' = IF p \in Readers THEN readers - 1 ELSE readers
        /\ writers' = IF p \in Writers THEN writers - 1 ELSE writers
        /\ IF readers' = 0 /\ writers' = 0
           THEN free_pipe_info /\ UNCHANGED waitq
           ELSE waitq' = {} /\ UNCHANGED <<bufs, curbuf, nrbufs, tmp_page, pages>>
    BY <1>4, Zenon DEF pipe_release, release_wakes, bufVars
  <2>2. CASE p \in Readers
    <3>1. p \notin Writers /\ open \cap Readers # {} /\ open' \cap Readers = {}
          /\ open' \cap Writers = open \cap Writers
      BY <1>1, <1>2, <1>4, <2>2, Zenon
    <3>2. readers = 1 /\ readers' = readers - 1 /\ writers' = writers
      BY <1>1, <2>1, <2>2, <3>1, Zenon DEF EndInv
    <3>3. readers' = 0
      BY <3>2
    <3>4. EndInv'
      BY <1>1, <3>1, <3>2, <3>3, Zenon DEF EndInv
    <3>5. readers' \in 0 .. 1 /\ writers' \in 0 .. 1
      BY <3>4 DEF EndInv
    <3> QED BY <2>1, <3>4, <3>5, Zenon
  <2>3. CASE p \notin Readers
    <3>1. p \in Writers /\ open \cap Writers # {} /\ open' \cap Writers = {}
          /\ open' \cap Readers = open \cap Readers
      BY <1>1, <1>2, <1>4, <2>3, Zenon
    <3>2. writers = 1 /\ writers' = writers - 1 /\ readers' = readers
      BY <1>1, <2>1, <2>3, <3>1, Zenon DEF EndInv
    <3>3. writers' = 0
      BY <3>2
    <3>4. EndInv'
      BY <1>1, <3>1, <3>2, <3>3, Zenon DEF EndInv
    <3>5. readers' \in 0 .. 1 /\ writers' \in 0 .. 1
      BY <3>4 DEF EndInv
    <3> QED BY <2>1, <3>4, <3>5, Zenon
  <2> QED BY <2>2, <2>3, Zenon
<1>5. QED
  BY <1>3, <1>4, Zenon

(* No page is left when the pipe is freed.                                 *)
LEMMA FreedRing ==
    ASSUME IInv, free_pipe_info
    PROVE  /\ RingInv' /\ bufs' \in [0 .. PIPE_BUFFERS - 1 -> Buf]
           /\ curbuf' \in 0 .. PIPE_BUFFERS - 1 /\ nrbufs' \in 0 .. PIPE_BUFFERS
           /\ tmp_page' \in BOOLEAN /\ pages' \in Nat
<1> DEFINE N == 0 .. PIPE_BUFFERS - 1
           S == {i \in DOMAIN bufs : bufs[i].ops}
<1>1. /\ TypeOK /\ Cardinality(S) = nrbufs /\ pages = nrbufs + (IF tmp_page THEN 1 ELSE 0)
  BY Zenon DEF IInv, RingInv
<1>2. DOMAIN bufs = N /\ nrbufs \in Nat
  BY <1>1 DEF TypeOK
<1>3. pages' = pages - nrbufs - (IF tmp_page THEN 1 ELSE 0)
  BY <1>1, Zenon DEF free_pipe_info
<1>4. pages' = 0
  BY <1>1, <1>2, <1>3
<1>5. NoBuf \in Buf /\ NoBuf.ops = FALSE
  BY PipeAssumption DEF NoBuf, Buf
<1>6. bufs' = [i \in N |-> NoBuf] /\ curbuf' = 0 /\ nrbufs' = 0 /\ tmp_page' = FALSE
  BY <1>2, Zenon DEF free_pipe_info
<1>7. bufs' \in [N -> Buf] /\ DOMAIN bufs' = N /\ \A i \in N : bufs'[i].ops = FALSE
  BY <1>5, <1>6, Zenon
<1>8. \A i \in N : ~InRing(i)'
  BY <1>6, PipeAssumption DEF InRing
<1>9. \A i \in N : BufOK(i)'
  BY <1>7, <1>8, Zenon DEF BufOK
<1>10. S' = {}
  BY <1>7, Zenon
<1>11. Cardinality(S') = nrbufs'
  BY <1>6, <1>10, FS_EmptySet, Zenon
<1>12. pages' = nrbufs' + (IF tmp_page' THEN 1 ELSE 0)
  BY <1>4, <1>6
<1>13. RingInv'
  BY <1>4, <1>9, <1>11, <1>12, Zenon DEF RingInv
<1>14. curbuf' \in N /\ nrbufs' \in 0 .. PIPE_BUFFERS /\ tmp_page' \in BOOLEAN /\ pages' \in Nat
  <2>1. 0 \in N /\ 0 \in 0 .. PIPE_BUFFERS /\ 0 \in Nat
    BY PipeAssumption
  <2> HIDE DEF N
  <2> QED BY <1>4, <1>6, <2>1, Zenon
<1>15. QED
  BY <1>7, <1>13, <1>14, Zenon

(* pipe_release(): the last close frees the ring, every close wakes the    *)
(* other end.                                                              *)
LEMMA CloseStep ==
    ASSUME IInv, NEW p \in Procs, pipe_release(p)
    PROVE  IInv'
<1>1. /\ ProcTypes' /\ ProcInv' /\ WaitingCounted'
      /\ UNCHANGED <<waiting, sem, pc, left, ret, do_wakeup, signals, sent, rcvd>>
      /\ open' = open \ {p} /\ waitq' \subseteq waitq
      /\ \A w \in Procs : pc[w] # "user" => w \in open'
  BY CloseKeeps, Zenon
<1>2. TypeOK /\ RingInv /\ PageInv /\ WakeInv /\ open' \subseteq Procs
  BY <1>1, Zenon DEF IInv, TypeOK
<1>3. EndInv' /\ readers' \in 0 .. 1 /\ writers' \in 0 .. 1
  BY CloseCounts, Zenon
<1>4. CASE UNCHANGED <<bufs, curbuf, nrbufs, tmp_page, pages, readers, writers, waitq>>
  <2>1. TypeOK'
    BY <1>1, <1>2, <1>3, <1>4, Zenon DEF TypeOK, ProcTypes
  <2>2. RingInv'
    BY <1>2, <1>4, RingSame, Zenon
  <2>3. PageInv'
    BY <1>1, <1>2, <1>4, Zenon DEF PageInv
  <2>4. WakeInv'
    BY <1>1, <1>2, <1>4, Zenon DEF WakeInv, Needs, Wakes, pipe_poll
  <2> QED BY <1>1, <1>3, <2>1, <2>2, <2>3, <2>4, Zenon DEF IInv
<1>5. CASE readers' = 0 /\ writers' = 0 /\ free_pipe_info
  <2>1. /\ RingInv' /\ bufs' \in [0 .. PIPE_BUFFERS - 1 -> Buf]
        /\ curbuf' \in 0 .. PIPE_BUFFERS - 1 /\ nrbufs' \in 0 .. PIPE_BUFFERS
        /\ tmp_page' \in BOOLEAN /\ pages' \in Nat
    BY <1>5, FreedRing, Zenon
  <2>2. TypeOK'
    BY <1>1, <1>2, <1>3, <2>1, Zenon DEF TypeOK, ProcTypes, Buf
  <2>3. open' \cap Readers = {} /\ open' \cap Writers = {}
    BY <1>3, <1>5 DEF EndInv
  <2>4. \A w \in Procs : pc'[w] = "user"
    BY <1>1, <2>3, Zenon DEF Procs
  <2>5. PageInv'
    BY <2>4, Zenon DEF PageInv, Procs
  <2>6. \A w \in Procs : ~Needs(w)'
    BY <2>4, Zenon DEF Needs
  <2>7. WakeInv'
    BY <1>1, <2>6, Zenon DEF WakeInv, ProcTypes
  <2> QED BY <1>1, <1>3, <2>1, <2>2, <2>5, <2>7, Zenon DEF IInv
<1>6. CASE /\ waitq' = {} /\ ~(readers' = 0 /\ writers' = 0)
           /\ UNCHANGED <<bufs, curbuf, nrbufs, tmp_page, pages>>
  <2>1. TypeOK'
    BY <1>1, <1>2, <1>3, <1>6, Zenon DEF TypeOK, ProcTypes
  <2>2. RingInv'
    BY <1>2, <1>6, Zenon DEF RingInv, BufOK, InRing, FilledTo
  <2>3. PageInv'
    BY <1>1, <1>2, <1>6, Zenon DEF PageInv
  <2>4. WakeInv'
    BY <1>6, Zenon DEF WakeInv
  <2> QED BY <1>1, <1>3, <2>1, <2>2, <2>3, <2>4, Zenon DEF IInv
<1>7. QED
  BY <1>4, <1>5, <1>6, CloseCounts, Zenon


-----------------------------------------------------------------------------
(* The invariant, and the theorems.                                        *)

(* do_pipe() sets it up.                                                   *)
LEMMA InvInit == Init => IInv
<1> SUFFICES ASSUME Init PROVE IInv
  BY Zenon
<1> DEFINE N == 0 .. PIPE_BUFFERS - 1
<1>1. NoBuf \in Buf /\ NoBuf.ops = FALSE
  BY PipeAssumption DEF NoBuf, Buf
<1>2. bufs = [i \in N |-> NoBuf] /\ curbuf = 0 /\ nrbufs = 0 /\ tmp_page = FALSE /\ pages = 0
      /\ readers = 1 /\ writers = 1 /\ waiting = 0
      /\ sem = NoProc /\ waitq = {} /\ open = Procs
      /\ pc = [p \in Procs |-> "user"] /\ left = [p \in Procs |-> 0] /\ ret = [p \in Procs |-> 0]
      /\ do_wakeup = [p \in Procs |-> FALSE] /\ signals = {}
      /\ sent = [w \in Writers |-> 0] /\ rcvd = [w \in Writers |-> 0]
  BY Zenon DEF Init
<1>3. /\ 0 \in N /\ 0 \in 0 .. PIPE_BUFFERS /\ 0 \in Nat /\ 1 \in 0 .. 1 /\ 0 \in 0 .. ByteMod - 1
      /\ 0 = 0 + 0
  BY PipeAssumption
<1>4. bufs \in [N -> Buf] /\ DOMAIN bufs = N /\ \A i \in N : bufs[i].ops = FALSE
  BY <1>1, <1>2, Zenon
<1>5. \A p \in Procs : pc[p] = "user"
  BY <1>2, Zenon
<1>6. \A i \in N : ~InRing(i)
  BY <1>2, PipeAssumption DEF InRing
<1>7. TypeOK
  <2>1. /\ pc \in [Procs -> PCs] /\ left \in [Procs -> Nat] /\ ret \in [Procs -> Nat]
        /\ do_wakeup \in [Procs -> BOOLEAN]
        /\ sent \in [Writers -> 0 .. ByteMod - 1] /\ rcvd \in [Writers -> 0 .. ByteMod - 1]
    BY <1>2, <1>3, Zenon DEF PCs
  <2> QED BY <1>2, <1>3, <1>4, <2>1, Zenon DEF TypeOK, Buf
<1>8. ProcInv
  BY <1>2, <1>5, PipeAssumption, Zenon DEF ProcInv, ProcOK, Locked
<1>9. EndInv
  <2>1. Procs \cap Readers # {} /\ Procs \cap Writers # {}
    BY PipeAssumption, Zenon DEF Procs
  <2> QED BY <1>2, <2>1, Zenon DEF EndInv
<1>10. RingInv
  <2>1. {i \in DOMAIN bufs : bufs[i].ops} = {}
    BY <1>4, Zenon
  <2>2. pages = nrbufs + (IF tmp_page THEN 1 ELSE 0)
    BY <1>2
  <2>3. \A i \in N : BufOK(i)
    BY <1>4, <1>6, Zenon DEF BufOK
  <2> QED BY <1>2, <2>1, <2>2, <2>3, FS_EmptySet, Zenon DEF RingInv
<1>11. WaitingCounted
  <2>1. {w \in Writers : pc[w] \in {"prepared", "sleep"}} = {}
    BY <1>5, Zenon DEF Procs
  <2> QED BY <1>2, <2>1, FS_EmptySet, Zenon DEF WaitingCounted
<1>12. PageInv /\ WakeInv
  BY <1>2, <1>5, Zenon DEF PageInv, WakeInv, Procs
<1>13. QED
  BY <1>7, <1>8, <1>9, <1>10, <1>11, <1>12, Zenon DEF IInv

(* Every step keeps it.                                                    *)
LEMMA InvStep == IInv /\ [Next]_vars => IInv'
<1> SUFFICES ASSUME IInv, [Next]_vars PROVE IInv'
  BY Zenon
<1>1. CASE Next
  <2>1. PICK p \in Procs : \/ KernelStep(p) \/ LockStep(p)
                           \/ Call(p) \/ poll_wait(p) \/ pipe_release(p) \/ Signal(p)
    BY <1>1, Zenon DEF Next
  <2>2. CASE \/ Call(p) \/ Down(p) \/ pipe_wait(p) \/ Up(p)
             \/ read_fault(p) \/ write_no_readers(p) \/ write_no_page(p)
    BY <2>2, SimpleSteps, Zenon
  <2>3. CASE Return(p) \/ read_empty(p) \/ poll_wait(p) \/ poll_check(p) \/ Signal(p)
    BY <2>3, QueueSteps, Zenon
  <2>4. CASE write_full(p) \/ pipe_wait_done(p)
    BY <2>4, FullStep, WokenStep, Zenon
  <2>5. CASE read_buf(p)
    BY <2>5, ReadStep, Zenon
  <2>6. CASE write_merge(p) \/ write_buf(p) \/ write_fault(p)
    BY <2>6, MergeStep, WriteStep, FaultStep, Zenon
  <2>7. CASE pipe_release(p)
    BY <2>7, CloseStep, Zenon
  <2> QED BY <2>1, <2>2, <2>3, <2>4, <2>5, <2>6, <2>7, Zenon DEF KernelStep, LockStep
<1>2. CASE UNCHANGED vars
  <2>1. TypeOK' /\ ProcInv' /\ EndInv' /\ WaitingCounted'
    BY <1>2, Zenon DEF vars, IInv, TypeOK, ProcInv, ProcOK, EndInv, WaitingCounted
  <2>2. RingInv'
    BY <1>2, RingSame, Zenon DEF vars, IInv
  <2>3. PageInv' /\ WakeInv'
    BY <1>2, Zenon DEF vars, IInv, PageInv, WakeInv, Needs, Wakes, pipe_poll
  <2> QED BY <2>1, <2>2, <2>3, Zenon DEF IInv
<1>3. QED
  BY <1>1, <1>2, Zenon

(* What it gives in a state.                                               *)
LEMMA InvGives ==
    ASSUME IInv
    PROVE  TypeOK /\ RingOwnsPages /\ SmallWritesAtomic /\ NoLostWakeup /\ WaitingCounted
<1>1. TypeOK /\ RingOwnsPages /\ SmallWritesAtomic /\ WaitingCounted
  BY RingIsOwned, WritesAreAtomic, Zenon DEF IInv
<1>2. ASSUME sem = NoProc, NEW p \in waitq, NeedsWakeup(p) PROVE WakeupPending
  <2>1. Needs(p)
    BY <1>2, Zenon DEF NeedsWakeup, Needs
  <2>2. PICK q \in Procs : Wakes(q)
    BY <2>1, Zenon DEF IInv, WakeInv
  <2>3. pc[q] \notin Locked
    BY <1>2, PipeAssumption, Zenon DEF IInv, ProcInv, ProcOK
  <2>4. pc[q] = "wake" /\ do_wakeup[q]
    BY <2>2, <2>3, Zenon DEF Wakes, Locked
  <2> QED BY <2>4, Zenon DEF WakeupPending
<1>3. QED
  BY <1>1, <1>2, Zenon DEF NoLostWakeup

-----------------------------------------------------------------------------
(* Numbers modulo M.                                                       *)

(* The remainder of a division is one.                                     *)
LEMMA Remainder ==
    ASSUME NEW M \in Nat \ {0}, NEW q \in Int, NEW k \in Int, NEW r \in 0 .. M - 1, NEW s \in 0 .. M - 1,
           M * q + r = M * k + s
    PROVE  r = s
<1>1. CASE q = k
  BY <1>1
<1>2. CASE q < k
  <2>1. M * (k - q) >= M
    BY <1>2
  <2>2. M * k - M * q = M * (k - q)
    OBVIOUS
  <2> QED BY <2>1, <2>2
<1>3. CASE q > k
  <2>1. M * (q - k) >= M
    BY <1>3
  <2>2. M * q - M * k = M * (q - k)
    OBVIOUS
  <2> QED BY <2>1, <2>2
<1> QED BY <1>1, <1>2, <1>3

(* A number is its quotient and its remainder.                             *)
LEMMA DivMod ==
    ASSUME NEW M \in Nat \ {0}, NEW x \in Nat
    PROVE  x = M * (x \div M) + (x % M) /\ x % M \in 0 .. M - 1 /\ x \div M \in Int
  OBVIOUS

(* Counting modulo M.                                                      *)
LEMMA IncMod ==
    ASSUME NEW M \in Nat \ {0}, NEW x \in Nat
    PROVE  ((x % M) + 1) % M = (x + 1) % M
<1> DEFINE y == x % M
           z == (x + 1) % M
           q == x \div M
           k == (x + 1) \div M
<1>1. x = M * q + y /\ y \in 0 .. M - 1 /\ q \in Int
  BY DivMod, Zenon
<1>2. x + 1 = M * k + z /\ z \in 0 .. M - 1 /\ k \in Int
  BY DivMod
<1>3. (y + 1) % M = z
  <2> HIDE DEF y, z, q, k
  <2>1. CASE y + 1 < M
    <3>1. (y + 1) % M = y + 1 /\ y + 1 \in 0 .. M - 1
      BY <1>1, <2>1
    <3>2. M * k + z = M * q + (y + 1)
      BY <1>1, <1>2
    <3>3. z = y + 1
      BY <1>1, <1>2, <3>1, <3>2, Remainder, Zenon
    <3> QED BY <3>1, <3>3, Zenon
  <2>2. CASE y + 1 = M
    <3>1. (y + 1) % M = 0 /\ 0 \in 0 .. M - 1 /\ q + 1 \in Int
      BY <1>1, <2>2
    <3>2. M * k + z = M * (q + 1) + 0
      BY <1>1, <1>2, <2>2
    <3>3. z = 0
      BY <1>1, <1>2, <3>1, <3>2, Remainder, Zenon
    <3> QED BY <3>1, <3>3, Zenon
  <2> QED BY <1>1, <2>1, <2>2
<1> QED BY <1>3, Zenon

-----------------------------------------------------------------------------
(* Runs of consecutive numbers.                                            *)

(* A run that goes on where another one ends.                              *)
LEMMA RunsJoin ==
    ASSUME NEW P, NEW B, NEW num, NEW new, NEW lo, NEW mid, NEW hi,
           Consecutive(P, num, lo, mid), Consecutive(B, new, mid, hi), B # {},
           \A a \in P : new[a] = num[a],
           \A a \in P : \A b \in B : Before(a, b) /\ ~Before(b, a)
    PROVE  Consecutive(P \cup B, new, lo, hi)
<1> DEFINE Q == P \cup B
<1>1. ASSUME NEW a \in Q, \A b \in Q : ~Before(b, a) PROVE new[a] = lo
  <2>1. CASE a \in P
    BY <1>1, <2>1, Zenon DEF Consecutive
  <2>2. CASE a \in B
    <3>1. P = {}
      BY <1>1, <2>2, Zenon
    <3> QED BY <1>1, <2>2, <3>1, Zenon DEF Consecutive
  <2> QED BY <2>1, <2>2, Zenon
<1>2. ASSUME NEW a \in Q, \A b \in Q : ~Before(a, b) PROVE hi = Inc(new[a])
  <2>1. a \in B
    BY <1>2, Zenon
  <2> QED BY <1>2, <2>1, Zenon DEF Consecutive
<1>3. ASSUME NEW a \in Q, NEW b \in Q, Before(a, b),
             \A c \in Q : ~(Before(a, c) /\ Before(c, b))
      PROVE  new[b] = Inc(new[a])
  <2>1. CASE a \in P /\ b \in P
    <3>1. \A c \in P : ~(Before(a, c) /\ Before(c, b))
      BY <1>3, Zenon
    <3>2. num[b] = Inc(num[a])
      BY <1>3, <2>1, <3>1, Zenon DEF Consecutive
    <3> QED BY <2>1, <3>2, Zenon
  <2>2. CASE a \in P /\ b \in B
    <3>1. \A c \in P : ~Before(a, c)
      BY <1>3, <2>2, Zenon
    <3>2. \A c \in B : ~Before(c, b)
      BY <1>3, <2>2, Zenon
    <3>3. mid = Inc(num[a])
      BY <2>2, <3>1, Zenon DEF Consecutive
    <3>4. new[b] = mid
      BY <2>2, <3>2, Zenon DEF Consecutive
    <3> QED BY <2>2, <3>3, <3>4, Zenon
  <2>3. CASE a \in B /\ b \in B
    <3>1. \A c \in B : ~(Before(a, c) /\ Before(c, b))
      BY <1>3, Zenon
    <3> QED BY <1>3, <2>3, <3>1, Zenon DEF Consecutive
  <2>4. ~(a \in B /\ b \in P)
    BY <1>3, Zenon
  <2> QED BY <2>1, <2>2, <2>3, <2>4, Zenon
<1>4. Q # {}
  BY Zenon
<1>5. QED
  BY <1>1, <1>2, <1>3, <1>4, Zenon DEF Consecutive

(* Without its first part R a run, renamed by f, goes on after the last    *)
(* one of R.                                                               *)
Loses(P, Q, R, f, num, new, lo, lo2) ==
    /\ R \subseteq P
    /\ \A a \in Q : f[a] \in P \ R /\ new[a] = num[f[a]]
    /\ \A c \in P \ R : \E a \in Q : f[a] = c
    /\ \A a, b \in Q : Before(a, b) <=> Before(f[a], f[b])
    /\ \A r \in R : \A c \in P \ R : Before(r, c) /\ ~Before(c, r)
    /\ R = {} => lo2 = lo
    /\ R # {} => \E l \in R : (\A r \in R : ~Before(l, r)) /\ lo2 = Inc(num[l])

(* A run that loses its first places, renamed in order, is a run that      *)
(* starts where they ended.                                                *)
LEMMA RunLoses ==
    ASSUME NEW P, NEW Q, NEW R, NEW f, NEW num, NEW new, NEW lo, NEW lo2, NEW hi,
           Consecutive(P, num, lo, hi), Loses(P, Q, R, f, num, new, lo, lo2)
    PROVE  Consecutive(Q, new, lo2, hi)
<1>0. /\ R \subseteq P
      /\ \A a \in Q : f[a] \in P \ R /\ new[a] = num[f[a]]
      /\ \A c \in P \ R : \E a \in Q : f[a] = c
      /\ \A a, b \in Q : Before(a, b) <=> Before(f[a], f[b])
      /\ \A r \in R : \A c \in P \ R : Before(r, c) /\ ~Before(c, r)
      /\ R = {} => lo2 = lo
      /\ R # {} => \E l \in R : (\A r \in R : ~Before(l, r)) /\ lo2 = Inc(num[l])
  BY Zenon DEF Loses
<1> USE <1>0
<1>1. Q = {} => lo2 = hi
  <2>1. CASE R = {}
    BY <2>1, Zenon DEF Consecutive
  <2>2. CASE R # {} /\ Q = {}
    <3>1. PICK l \in R : (\A r \in R : ~Before(l, r)) /\ lo2 = Inc(num[l])
      BY <2>2, Zenon
    <3>2. \A c \in P : ~Before(l, c)
      BY <2>2, <3>1, Zenon
    <3> QED BY <3>1, <3>2, Zenon DEF Consecutive
  <2> QED BY <2>1, <2>2, Zenon
<1>2. ASSUME NEW a \in Q, \A b \in Q : ~Before(b, a) PROVE new[a] = lo2
  <2>1. ASSUME NEW c \in P \ R PROVE ~Before(c, f[a])
    <3>1. PICK d \in Q : f[d] = c
      BY Zenon
    <3> QED BY <1>2, <3>1, Zenon
  <2>2. CASE R = {}
    <3>1. num[f[a]] = lo
      BY <2>1, <2>2, Zenon DEF Consecutive
    <3> QED BY <2>2, <3>1, Zenon
  <2>3. CASE R # {}
    <3>1. PICK l \in R : (\A r \in R : ~Before(l, r)) /\ lo2 = Inc(num[l])
      BY <2>3, Zenon
    <3>2. Before(l, f[a]) /\ \A c \in P : ~(Before(l, c) /\ Before(c, f[a]))
      BY <2>1, <3>1, Zenon
    <3>3. l \in P /\ f[a] \in P
      BY Zenon
    <3>4. num[f[a]] = Inc(num[l])
      BY <3>2, <3>3, Zenon DEF Consecutive
    <3> QED BY <3>1, <3>4, Zenon
  <2> QED BY <2>2, <2>3, Zenon
<1>3. ASSUME NEW a \in Q, \A b \in Q : ~Before(a, b) PROVE hi = Inc(new[a])
  <2>1. ASSUME NEW c \in P PROVE ~Before(f[a], c)
    <3>1. CASE c \in R
      BY <3>1, Zenon
    <3>2. CASE c \notin R
      <4>1. PICK d \in Q : f[d] = c
        BY <3>2, Zenon
      <4> QED BY <1>3, <4>1, Zenon
    <3> QED BY <3>1, <3>2, Zenon
  <2>2. hi = Inc(num[f[a]])
    BY <2>1, Zenon DEF Consecutive
  <2> QED BY <2>2, Zenon
<1>4. ASSUME NEW a \in Q, NEW b \in Q, Before(a, b),
             \A c \in Q : ~(Before(a, c) /\ Before(c, b))
      PROVE  new[b] = Inc(new[a])
  <2>1. Before(f[a], f[b]) /\ f[a] \in P \ R /\ f[b] \in P \ R
    BY <1>4, Zenon
  <2>2. ASSUME NEW c \in P PROVE ~(Before(f[a], c) /\ Before(c, f[b]))
    <3>1. CASE c \in R
      BY <2>1, <3>1, Zenon
    <3>2. CASE c \notin R
      <4>1. PICK d \in Q : f[d] = c
        BY <3>2, Zenon
      <4> QED BY <1>4, <4>1, Zenon
    <3> QED BY <3>1, <3>2, Zenon
  <2>3. num[f[b]] = Inc(num[f[a]])
    BY <2>1, <2>2, Zenon DEF Consecutive
  <2> QED BY <2>3, Zenon
<1>5. QED
  BY <1>1, <1>2, <1>3, <1>4, Zenon DEF Consecutive

(* n numbers in a row, from s on, at the places after the m-th of k.       *)
LEMMA RunOf ==
    ASSUME NEW k \in Nat, NEW m \in Nat, NEW n \in Nat \ {0}, NEW s \in 0 .. ByteMod - 1, NEW num,
           \A i \in 1 .. n : num[<<k, m + i>>] = (s + i - 1) % ByteMod
    PROVE  Consecutive({<<k, m + i>> : i \in 1 .. n}, num, s, (s + n) % ByteMod)
<1> DEFINE a(i) == <<k, m + i>>
           B == {a(i) : i \in 1 .. n}
<1>1. ByteMod \in Nat \ {0} /\ 1 \in 1 .. n /\ n \in 1 .. n /\ \A i \in 1 .. n : i \in Nat \ {0}
  BY PipeAssumption
<1>2. \A i, j \in 1 .. n : Before(a(i), a(j)) <=> i < j
  BY DEF Before
<1>3. \A i \in 1 .. n : num[a(i)] = (s + i - 1) % ByteMod
  BY Zenon
<1>4. s % ByteMod = s /\ (s + 1 - 1) % ByteMod = s
  BY <1>1
<1>5. \A i \in 1 .. n : Inc((s + i - 1) % ByteMod) = (s + i) % ByteMod
  <2> SUFFICES ASSUME NEW i \in 1 .. n PROVE Inc((s + i - 1) % ByteMod) = (s + i) % ByteMod
    BY Zenon
  <2>1. s + i - 1 \in Nat /\ (s + i - 1) + 1 = s + i
    BY <1>1
  <2> QED BY <1>1, <2>1, IncMod, Zenon DEF Inc
<1>6. B # {}
  BY <1>1, Zenon
<1> HIDE DEF a
<1>7. ASSUME NEW x \in B, \A y \in B : ~Before(y, x) PROVE num[x] = s
  <2>1. PICK i \in 1 .. n : x = a(i)
    BY Zenon
  <2>2. ~(1 < i)
    BY <1>1, <1>2, <1>7, <2>1, Zenon
  <2>3. i = 1
    BY <1>1, <2>2
  <2> QED BY <1>1, <1>3, <1>4, <2>1, <2>3, Zenon
<1>8. ASSUME NEW x \in B, \A y \in B : ~Before(x, y) PROVE (s + n) % ByteMod = Inc(num[x])
  <2>1. PICK i \in 1 .. n : x = a(i)
    BY Zenon
  <2>2. ~(i < n)
    BY <1>1, <1>2, <1>8, <2>1, Zenon
  <2>3. i = n
    BY <1>1, <2>2
  <2> QED BY <1>1, <1>3, <1>5, <2>1, <2>3, Zenon
<1>9. ASSUME NEW x \in B, NEW y \in B, Before(x, y), \A z \in B : ~(Before(x, z) /\ Before(z, y))
      PROVE  num[y] = Inc(num[x])
  <2>1. PICK i \in 1 .. n : x = a(i)
    BY Zenon
  <2>2. PICK j \in 1 .. n : y = a(j)
    BY Zenon
  <2>3. i < j /\ \A h \in 1 .. n : ~(i < h /\ h < j)
    BY <1>2, <1>9, <2>1, <2>2, Zenon
  <2>4. i + 1 \in 1 .. n /\ j = i + 1 /\ s + j - 1 = s + i
    BY <1>1, <2>3
  <2> QED BY <1>3, <1>5, <2>1, <2>2, <2>4, Zenon
<1>10. QED
  BY <1>6, <1>7, <1>8, <1>9, Zenon DEF Consecutive, a


-----------------------------------------------------------------------------
(* The bytes in the buffers.                                               *)

(* The places of the bytes of w are those of the buffers in use.           *)
PlacesOK ==
    /\ \A k \in 0 .. nrbufs - 1 : Data(k) \in Seq(Byte) /\ Len(Data(k)) \in Nat \ {0}
    /\ \A w \in Writers : \A a \in Places(w) :
          /\ a = <<a[1], a[2]>> /\ a[1] \in 0 .. nrbufs - 1 /\ a[2] \in 1 .. Len(Data(a[1]))
          /\ Data(a[1])[a[2]].from = w
    /\ \A w \in Writers : \A k \in 0 .. nrbufs - 1 : \A i \in 1 .. Len(Data(k)) :
          Data(k)[i].from = w => <<k, i>> \in Places(w)

(* The invariant gives the places their types.                             *)
LEMMA PlaceIs == IInv => PlacesOK
<1> SUFFICES ASSUME IInv PROVE PlacesOK
  BY Zenon
<1>1. TypeOK /\ RingInv
  BY Zenon DEF IInv
<1>2. PAGE_SIZE \in Nat
  BY PipeAssumption, Zenon
<1>3. ASSUME NEW k \in 0 .. nrbufs - 1
      PROVE  /\ Data(k) \in Seq(Byte) /\ Len(Data(k)) \in Nat \ {0}
             /\ \A i \in 1 .. Len(Data(k)) : i \in 1 .. PAGE_SIZE /\ i <= Len(Data(k))
  <2> DEFINE r == RingIndex(k)
  <2>1. r \in 0 .. PIPE_BUFFERS - 1 /\ InRing(r)
    BY <1>1, <1>3, IndexInRange, Zenon
  <2>2. bufs[r] \in [ops : BOOLEAN, offset : 0 .. PAGE_SIZE, data : Seq(Byte)]
    BY <1>1, <2>1, Zenon DEF TypeOK
  <2>3. bufs[r].data # <<>> /\ FilledTo(bufs[r]) <= PAGE_SIZE
    BY <1>1, <2>1, Zenon DEF RingInv, BufOK
  <2>4. Data(k) = bufs[r].data
    BY Zenon DEF Data
  <2> HIDE DEF r
  <2>5. Data(k) \in Seq(Byte) /\ Data(k) # <<>> /\ bufs[r].offset \in Nat
        /\ bufs[r].offset + Len(Data(k)) <= PAGE_SIZE
    BY <2>2, <2>3, <2>4 DEF FilledTo
  <2> HIDE DEF r
  <2>6. Len(Data(k)) \in Nat \ {0}
    BY <2>5
  <2> QED BY <1>2, <2>5, <2>6
<1>4. ASSUME NEW w \in Writers, NEW a \in Places(w)
      PROVE  /\ a = <<a[1], a[2]>> /\ a[1] \in 0 .. nrbufs - 1 /\ a[2] \in 1 .. Len(Data(a[1]))
             /\ Data(a[1])[a[2]].from = w
  <2>1. a \in (0 .. nrbufs - 1) \X (1 .. PAGE_SIZE) /\ a[2] <= Len(Data(a[1]))
        /\ Data(a[1])[a[2]].from = w
    BY <1>4, Zenon DEF Places
  <2>2. a = <<a[1], a[2]>> /\ a[1] \in 0 .. nrbufs - 1 /\ a[2] \in 1 .. PAGE_SIZE
    BY <2>1
  <2>3. Len(Data(a[1])) \in Nat
    BY <1>3, <2>2, Zenon
  <2>4. a[2] \in 1 .. Len(Data(a[1]))
    BY <1>2, <2>1, <2>2, <2>3
  <2> QED BY <2>1, <2>2, <2>4, Zenon
<1>5. ASSUME NEW w \in Writers, NEW k \in 0 .. nrbufs - 1, NEW i \in 1 .. Len(Data(k)),
             Data(k)[i].from = w
      PROVE  <<k, i>> \in Places(w)
  <2> DEFINE a == <<k, i>>
  <2>1. a[1] = k /\ a[2] = i
    BY Zenon
  <2>2. a \in (0 .. nrbufs - 1) \X (1 .. PAGE_SIZE) /\ i <= Len(Data(k))
    BY <1>3, Zenon
  <2> HIDE DEF a
  <2>3. a \in Places(w)
    BY <1>5, <2>1, <2>2, Zenon DEF Places
  <2> QED BY <2>3, Zenon DEF a
<1>6. QED
  BY <1>3, <1>4, <1>5, Zenon DEF PlacesOK

(* Different places of the ring are different buffers.                     *)
LEMMA IndexDiffers ==
    ASSUME TypeOK, NEW j \in 0 .. PIPE_BUFFERS - 1, NEW k \in 0 .. PIPE_BUFFERS - 1, j # k
    PROVE  RingIndex(j) # RingIndex(k) /\ RingIndex(j) \in 0 .. PIPE_BUFFERS - 1
<1>1. curbuf \in 0 .. PIPE_BUFFERS - 1 /\ PIPE_BUFFERS \in Nat \ {0}
      /\ j \in 0 .. PIPE_BUFFERS /\ k \in 0 .. PIPE_BUFFERS
  BY PipeAssumption DEF TypeOK
<1>2. RingIndex(j) = IF curbuf + j < PIPE_BUFFERS THEN curbuf + j ELSE curbuf + j - PIPE_BUFFERS
  BY <1>1, Wraps, Zenon DEF RingIndex
<1>3. RingIndex(k) = IF curbuf + k < PIPE_BUFFERS THEN curbuf + k ELSE curbuf + k - PIPE_BUFFERS
  BY <1>1, Wraps, Zenon DEF RingIndex
<1>4. QED
  BY <1>1, <1>2, <1>3

(* What a read leaves in the buffers.                                      *)
LEMMA ReadData ==
    ASSUME IInv, NEW p \in Procs, read_buf(p)
    PROVE  /\ Data(0) = bufs[curbuf].data /\ Chars(p) \in 1 .. Len(Data(0)) /\ nrbufs \in Nat \ {0}
           /\ \/ /\ nrbufs' = nrbufs /\ Chars(p) < Len(Data(0))
                 /\ Len(Data(0)') = Len(Data(0)) - Chars(p)
                 /\ \A i \in 1 .. Len(Data(0)) - Chars(p) : Data(0)'[i] = Data(0)[i + Chars(p)]
                 /\ \A k \in 1 .. nrbufs - 1 : Data(k)' = Data(k)
              \/ /\ nrbufs' = nrbufs - 1 /\ Chars(p) = Len(Data(0))
                 /\ \A k \in 0 .. nrbufs - 2 : Data(k)' = Data(k + 1)
<1> DEFINE N == 0 .. PIPE_BUFFERS - 1
           d == bufs[curbuf].data
           c == Chars(p)
<1>1. TypeOK /\ curbuf \in N /\ nrbufs \in 1 .. PIPE_BUFFERS /\ PIPE_BUFFERS \in Nat \ {0}
      /\ bufs[curbuf] \in Buf /\ c \in 1 .. Len(d) /\ Len(d) \in Nat \ {0}
  BY CurrentBuffer, PipeAssumption, Zenon DEF IInv
<1>2. d \in Seq(Byte) /\ nrbufs \in Nat \ {0}
  BY <1>1 DEF Buf
<1>3. RingIndex(0) = curbuf
  BY <1>1 DEF RingIndex
<1>4. Data(0) = d
  BY <1>3, Zenon DEF Data
<1> HIDE DEF c, d
<1>5. Rest(p) = SubSeq(d, c + 1, Len(d))
  BY Zenon DEF Rest, c, d
<1>6. Len(Rest(p)) = Len(d) - c /\ \A i \in 1 .. Len(d) - c : Rest(p)[i] = d[i + c]
  BY <1>1, <1>2, <1>5
<1>7. CASE Rest(p) # <<>>
  <2>1. /\ bufs'[curbuf].data = Rest(p) /\ UNCHANGED <<curbuf, nrbufs>>
        /\ \A i \in N : i # curbuf => bufs'[i] = bufs[i]
    BY <1>7, ReadBuffers, Zenon
  <2>2. \A k : RingIndex(k)' = RingIndex(k)
    BY <2>1, Zenon DEF RingIndex
  <2>3. Data(0)' = Rest(p)
    BY <1>3, <2>1, <2>2, Zenon DEF Data
  <2>4. c < Len(d)
    BY <1>1, <1>2, <1>5, <1>7
  <2>5. ASSUME NEW k \in 1 .. nrbufs - 1 PROVE Data(k)' = Data(k)
    <3>1. k \in N /\ 0 \in N /\ k # 0
      BY <1>1
    <3>2. RingIndex(k) # curbuf /\ RingIndex(k) \in N
      BY <1>1, <1>3, <3>1, IndexDiffers, Zenon
    <3> QED BY <2>1, <2>2, <3>2, Zenon DEF Data
  <2> QED BY <1>1, <1>2, <1>4, <1>6, <2>1, <2>3, <2>4, <2>5, Zenon DEF c, d
<1>8. CASE Rest(p) = <<>>
  <2>1. /\ nrbufs' = nrbufs - 1
        /\ curbuf' = IF curbuf + 1 < PIPE_BUFFERS THEN curbuf + 1 ELSE 0
        /\ \A i \in N : i # curbuf => bufs'[i] = bufs[i]
    BY <1>8, ReadBuffers, Zenon
  <2>2. c = Len(d)
    BY <1>1, <1>6, <1>8
  <2>3. ASSUME NEW k \in 0 .. nrbufs - 2 PROVE Data(k)' = Data(k + 1)
    <3>1. k + 1 \in N /\ 0 \in N /\ k + 1 # 0 /\ k + 1 \in 0 .. PIPE_BUFFERS
          /\ k \in 0 .. PIPE_BUFFERS /\ curbuf' \in N
      BY <1>1, <2>1
    <3>2. RingIndex(k + 1) # curbuf /\ RingIndex(k + 1) \in N
      BY <1>1, <1>3, <3>1, IndexDiffers, Zenon
    <3>3. RingIndex(k + 1) = IF curbuf + (k + 1) < PIPE_BUFFERS THEN curbuf + (k + 1)
                                                               ELSE curbuf + (k + 1) - PIPE_BUFFERS
      BY <1>1, <3>1, Wraps, Zenon DEF RingIndex
    <3>4. (curbuf' + k) % PIPE_BUFFERS = IF curbuf' + k < PIPE_BUFFERS THEN curbuf' + k
                                                                  ELSE curbuf' + k - PIPE_BUFFERS
      BY <3>1, Wraps, Zenon
    <3>5. (curbuf' + k) % PIPE_BUFFERS = RingIndex(k + 1)
      BY <1>1, <2>1, <3>1, <3>3, <3>4
    <3> QED BY <2>1, <3>2, <3>5, Zenon DEF Data, RingIndex
  <2> QED BY <1>1, <1>2, <1>4, <2>1, <2>2, <2>3, Zenon DEF c, d
<1>9. QED
  BY <1>7, <1>8, Zenon

-----------------------------------------------------------------------------
(* A read takes the first bytes of a writer, and renames the places of the *)
(* others.                                                                 *)
Goes(p, a) ==
    IF nrbufs' = nrbufs
    THEN IF a[1] = 0 THEN <<0, a[2] + Chars(p)>> ELSE a
    ELSE <<a[1] + 1, a[2]>>

(* A place that is left after a read was one that is not read.             *)
LEMMA LeftWasThere ==
    ASSUME IInv, PlacesOK, PlacesOK', NEW p \in Procs, read_buf(p), NEW w \in Writers,
           NEW a \in Places(w)'
    PROVE  /\ Goes(p, a) \in Places(w)
           /\ ~(Goes(p, a)[1] = 0 /\ Goes(p, a)[2] <= Chars(p))
           /\ Data(a[1])'[a[2]] = Data(Goes(p, a)[1])[Goes(p, a)[2]]
<1> DEFINE c == Chars(p)
           k == a[1]
           i == a[2]
<1>1. /\ a = <<k, i>> /\ k \in 0 .. nrbufs' - 1 /\ i \in 1 .. Len(Data(k)')
      /\ Data(k)'[i].from = w
  BY Zenon DEF PlacesOK
<1>2. c \in 1 .. Len(Data(0)) /\ nrbufs \in Nat \ {0}
  BY ReadData, Zenon
<1>3. \A j \in 0 .. nrbufs - 1 : Len(Data(j)) \in Nat \ {0}
  BY Zenon DEF PlacesOK
<1>4. \A j \in 0 .. nrbufs - 1 : \A h \in 1 .. Len(Data(j)) :
         Data(j)[h].from = w => <<j, h>> \in Places(w)
  BY Zenon DEF PlacesOK
<1> HIDE DEF c, k, i
<1>5. CASE nrbufs' = nrbufs
  <2>1. /\ c < Len(Data(0)) /\ Len(Data(0)') = Len(Data(0)) - c
        /\ \A h \in 1 .. Len(Data(0)) - c : Data(0)'[h] = Data(0)[h + c]
        /\ \A j \in 1 .. nrbufs - 1 : Data(j)' = Data(j)
    <3>1. nrbufs' # nrbufs - 1
      BY <1>2, <1>5
    <3> QED BY <3>1, ReadData, Zenon DEF c
  <2>2. CASE k = 0
    <3>1. 0 \in 0 .. nrbufs - 1 /\ Len(Data(0)) \in Nat
      BY <1>2, <1>3
    <3>2. i \in 1 .. Len(Data(0)) - c
      BY <1>1, <2>1, <2>2, Zenon
    <3>3. i + c \in 1 .. Len(Data(0)) /\ ~(i + c <= c)
      BY <1>2, <3>1, <3>2
    <3>4. Data(k)'[i] = Data(0)[i + c]
      BY <2>1, <2>2, <3>2, Zenon
    <3>5. <<0, i + c>> \in Places(w)
      BY <1>1, <1>4, <3>1, <3>3, <3>4, Zenon
    <3>6. Goes(p, a) = <<0, i + c>>
      BY <1>5, <2>2, Zenon DEF Goes, k, i, c
    <3>7. Goes(p, a)[1] = 0 /\ Goes(p, a)[2] = i + c
      BY <3>6
    <3>8. Data(a[1])'[a[2]] = Data(Goes(p, a)[1])[Goes(p, a)[2]]
      BY <3>4, <3>7, Zenon DEF k, i
    <3>9. ~(Goes(p, a)[2] <= Chars(p))
      BY <3>3, <3>7, Zenon DEF c
    <3> QED BY <3>5, <3>6, <3>8, <3>9, Zenon
  <2>3. CASE k # 0
    <3>1. k \in 1 .. nrbufs - 1 /\ k \in 0 .. nrbufs - 1
      BY <1>1, <1>2, <1>5, <2>3
    <3>2. Data(k)' = Data(k)
      BY <2>1, <3>1, Zenon
    <3>3. a \in Places(w)
      BY <1>1, <1>4, <3>1, <3>2, Zenon
    <3>4. Goes(p, a) = a
      BY <1>5, <2>3, Zenon DEF Goes, k
    <3> QED BY <2>3, <3>2, <3>3, <3>4, Zenon DEF k, i
  <2> QED BY <2>2, <2>3, Zenon
<1>6. CASE nrbufs' # nrbufs
  <2>1. nrbufs' = nrbufs - 1 /\ \A j \in 0 .. nrbufs - 2 : Data(j)' = Data(j + 1)
    BY <1>6, ReadData, Zenon
  <2>2. k \in 0 .. nrbufs - 2 /\ k + 1 \in 0 .. nrbufs - 1 /\ k + 1 # 0
    BY <1>1, <1>2, <2>1
  <2>3. Data(k)' = Data(k + 1)
    BY <2>1, <2>2, Zenon
  <2>4. <<k + 1, i>> \in Places(w)
    BY <1>1, <1>4, <2>2, <2>3, Zenon
  <2>5. Goes(p, a) = <<k + 1, i>>
    BY <1>6, Zenon DEF Goes, k, i
  <2>6. Goes(p, a)[1] = k + 1 /\ Goes(p, a)[2] = i
    BY <2>5
  <2>7. Data(a[1])'[a[2]] = Data(Goes(p, a)[1])[Goes(p, a)[2]]
    BY <2>3, <2>6, Zenon DEF k, i
  <2> QED BY <2>2, <2>4, <2>5, <2>6, <2>7, Zenon
<1>7. QED
  BY <1>5, <1>6, Zenon

(* A place that is not read is left.                                       *)
LEMMA UnreadIsLeft ==
    ASSUME IInv, PlacesOK, PlacesOK', NEW p \in Procs, read_buf(p), NEW w \in Writers,
           NEW b \in Places(w), ~(b[1] = 0 /\ b[2] <= Chars(p))
    PROVE  \E a \in Places(w)' : Goes(p, a) = b
<1> DEFINE c == Chars(p)
           k == b[1]
           i == b[2]
<1>1. b = <<k, i>> /\ k \in 0 .. nrbufs - 1 /\ i \in 1 .. Len(Data(k)) /\ Data(k)[i].from = w
  BY Zenon DEF PlacesOK
<1>2. c \in 1 .. Len(Data(0)) /\ nrbufs \in Nat \ {0}
  BY ReadData, Zenon
<1>3. \A j \in 0 .. nrbufs - 1 : Len(Data(j)) \in Nat \ {0}
  BY Zenon DEF PlacesOK
<1>4. \A j \in 0 .. nrbufs' - 1 : \A h \in 1 .. Len(Data(j)') :
         Data(j)'[h].from = w => <<j, h>> \in Places(w)'
  BY Zenon DEF PlacesOK
<1>5. ~(k = 0 /\ i <= c)
  BY Zenon
<1> HIDE DEF c, k, i
<1>6. CASE nrbufs' = nrbufs
  <2>1. /\ c < Len(Data(0)) /\ Len(Data(0)') = Len(Data(0)) - c
        /\ \A h \in 1 .. Len(Data(0)) - c : Data(0)'[h] = Data(0)[h + c]
        /\ \A j \in 1 .. nrbufs - 1 : Data(j)' = Data(j)
    <3>1. nrbufs' # nrbufs - 1
      BY <1>2, <1>6
    <3> QED BY <3>1, ReadData, Zenon DEF c
  <2>2. CASE k = 0
    <3>0. i \in 1 .. Len(Data(0))
      BY <1>1, <2>2, Zenon
    <3>1. 0 \in 0 .. nrbufs - 1 /\ Len(Data(0)) \in Nat
      BY <1>2, <1>3
    <3>2. i - c \in 1 .. Len(Data(0)) - c /\ (i - c) + c = i
      BY <1>2, <1>5, <2>2, <3>0, <3>1
    <3>3. Data(0)'[i - c] = Data(0)[i]
      BY <2>1, <3>2, Zenon
    <3>4. <<0, i - c>> \in Places(w)'
      BY <1>1, <1>4, <1>6, <2>1, <2>2, <3>1, <3>2, <3>3, Zenon
    <3>5. Goes(p, <<0, i - c>>) = <<0, i>>
      BY <1>6, <3>2, Zenon DEF Goes, c
    <3> QED BY <1>1, <2>2, <3>4, <3>5, Zenon
  <2>3. CASE k # 0
    <3>1. k \in 1 .. nrbufs - 1
      BY <1>1, <1>2, <2>3
    <3>2. Data(k)' = Data(k)
      BY <2>1, <3>1, Zenon
    <3>3. b \in Places(w)'
      BY <1>1, <1>4, <1>6, <3>2, Zenon
    <3>4. Goes(p, b) = b
      BY <1>6, <2>3, Zenon DEF Goes, k
    <3> QED BY <3>3, <3>4, Zenon
  <2> QED BY <2>2, <2>3, Zenon
<1>7. CASE nrbufs' # nrbufs
  <2>1. nrbufs' = nrbufs - 1 /\ c = Len(Data(0)) /\ \A j \in 0 .. nrbufs - 2 : Data(j)' = Data(j + 1)
    BY <1>7, ReadData, Zenon DEF c
  <2>2. k # 0
    <3> SUFFICES ASSUME k = 0 PROVE FALSE
      BY Zenon
    <3>1. i \in 1 .. c
      BY <1>1, <2>1, Zenon
    <3>2. i <= c
      BY <3>1
    <3> QED BY <1>5, <3>2, Zenon
  <2>3. k - 1 \in 0 .. nrbufs - 2 /\ (k - 1) + 1 = k /\ k - 1 \in 0 .. nrbufs' - 1
    BY <1>1, <1>2, <2>1, <2>2
  <2>4. Data(k - 1)' = Data(k)
    BY <2>1, <2>3, Zenon
  <2>5. <<k - 1, i>> \in Places(w)'
    BY <1>1, <1>4, <2>3, <2>4, Zenon
  <2>6. Goes(p, <<k - 1, i>>) = <<k, i>>
    BY <1>7, <2>3, Zenon DEF Goes
  <2> QED BY <1>1, <2>5, <2>6, Zenon
<1>8. QED
  BY <1>6, <1>7, Zenon


(* A read keeps the order of the places.                                   *)
LEMMA GoesKeepsOrder ==
    ASSUME IInv, PlacesOK, PlacesOK', NEW p \in Procs, read_buf(p), NEW w \in Writers,
           NEW a \in Places(w)', NEW b \in Places(w)'
    PROVE  Before(a, b) <=> Before(Goes(p, a), Goes(p, b))
<1>1. /\ a[1] \in 0 .. nrbufs' - 1 /\ a[2] \in 1 .. Len(Data(a[1])')
      /\ b[1] \in 0 .. nrbufs' - 1 /\ b[2] \in 1 .. Len(Data(b[1])')
  BY Zenon DEF PlacesOK
<1>2. Chars(p) \in 1 .. Len(Data(0)) /\ nrbufs \in Nat
  BY ReadData, Zenon
<1>3. a[1] \in Nat /\ b[1] \in Nat /\ a[2] \in Int /\ b[2] \in Int /\ Chars(p) \in Int
  BY <1>1, <1>2
<1>4. CASE nrbufs' = nrbufs
  <2>1. /\ Goes(p, a)[1] = a[1] /\ Goes(p, a)[2] = IF a[1] = 0 THEN a[2] + Chars(p) ELSE a[2]
        /\ Goes(p, b)[1] = b[1] /\ Goes(p, b)[2] = IF b[1] = 0 THEN b[2] + Chars(p) ELSE b[2]
    BY <1>4, Zenon DEF Goes
  <2> QED BY <1>3, <2>1 DEF Before
<1>5. CASE nrbufs' # nrbufs
  <2>1. /\ Goes(p, a)[1] = a[1] + 1 /\ Goes(p, a)[2] = a[2]
        /\ Goes(p, b)[1] = b[1] + 1 /\ Goes(p, b)[2] = b[2]
    BY <1>5, Zenon DEF Goes
  <2> QED BY <1>3, <2>1 DEF Before
<1>6. QED
  BY <1>4, <1>5, Zenon

(* The order after a read.                                                 *)
LEMMA ReadOrder ==
    ASSUME IInv, PlacesOK, PlacesOK', NEW p \in Procs, read_buf(p), NEW w \in Writers,
           Consecutive(Places(w), Nums(w), rcvd[w], sent[w])
    PROVE  Consecutive(Places(w), Nums(w), rcvd[w], sent[w])'
<1> DEFINE c == Chars(p)
           P == Places(w)
           Q == Places(w)'
           num == Nums(w)
           new == Nums(w)'
           R == {a \in P : a[1] = 0 /\ a[2] <= c}
           f == [a \in Q |-> Goes(p, a)]
           M == Mine(w, c)
           lo == rcvd[w]
           lo2 == rcvd'[w]
           hi == sent[w]
<1>1. sent'[w] = sent[w]
  BY Zenon DEF read_buf
<1>2. ASSUME NEW a \in Q PROVE f[a] \in P \ R /\ new[a] = num[f[a]]
  <2>1. f[a] = Goes(p, a) /\ f[a] \in P \ R
    BY <1>2, LeftWasThere, Zenon
  <2>2. Data(a[1])'[a[2]] = Data(f[a][1])[f[a][2]]
    BY <1>2, <2>1, LeftWasThere, Zenon
  <2> QED BY <1>2, <2>1, <2>2, Zenon DEF Nums
<1>3. ASSUME NEW x \in P \ R PROVE \E a \in Q : f[a] = x
  <2>1. \E a \in Q : Goes(p, a) = x
    BY <1>3, UnreadIsLeft, Zenon
  <2> QED BY <2>1, Zenon
<1>4. \A a, b \in Q : Before(a, b) <=> Before(f[a], f[b])
  BY GoesKeepsOrder, Zenon
<1>5. /\ Data(0) = bufs[curbuf].data /\ c \in 1 .. Len(Data(0)) /\ 0 \in 0 .. nrbufs - 1
      /\ Len(Data(0)) \in Nat
  <2>1. Data(0) = bufs[curbuf].data /\ c \in 1 .. Len(Data(0)) /\ nrbufs \in Nat \ {0}
    BY ReadData, Zenon
  <2>2. 0 \in 0 .. nrbufs - 1
    BY <2>1
  <2>3. Len(Data(0)) \in Nat \ {0}
    BY <2>2, Zenon DEF PlacesOK
  <2> QED BY <2>1, <2>2, <2>3, Zenon
<1>6. ASSUME NEW x \in P PROVE x[1] \in Nat /\ x[2] \in Nat
  <2>1. x[1] \in 0 .. nrbufs - 1 /\ x[2] \in 1 .. Len(Data(x[1])) /\ nrbufs \in Nat
    BY <1>6, ReadData, Zenon DEF PlacesOK
  <2> QED BY <2>1
<1>7. ASSUME NEW r \in R, NEW x \in P \ R PROVE Before(r, x) /\ ~Before(x, r)
  <2>1. r[1] = 0 /\ r[2] <= c /\ ~(x[1] = 0 /\ x[2] <= c) /\ c \in Nat
    BY <1>5
  <2>2. x[1] \in Nat /\ x[2] \in Nat /\ r[2] \in Nat
    BY <1>6, Zenon
  <2> HIDE DEF P, R, c
  <2> QED BY <2>1, <2>2 DEF Before
<1>8. \A i \in M : <<0, i>> \in R
  <2> SUFFICES ASSUME NEW i \in M PROVE <<0, i>> \in R
    BY Zenon
  <2>1. i \in 1 .. c /\ Data(0)[i].from = w
    BY <1>5, Zenon DEF Mine
  <2>2. i \in 1 .. Len(Data(0)) /\ i <= c
    BY <1>5, <2>1
  <2>3. <<0, i>> \in P
    BY <1>5, <2>1, <2>2, Zenon DEF PlacesOK
  <2>4. <<0, i>>[1] = 0 /\ <<0, i>>[2] = i
    BY Zenon
  <2> QED BY <2>2, <2>3, <2>4, Zenon
<1>9. \A r \in R : r[2] \in M /\ r = <<0, r[2]>>
  <2> SUFFICES ASSUME NEW r \in R PROVE r[2] \in M /\ r = <<0, r[2]>>
    BY Zenon
  <2>1. r \in P /\ r[1] = 0 /\ r[2] <= c
    BY Zenon
  <2>2. r = <<r[1], r[2]>> /\ r[2] \in 1 .. Len(Data(r[1])) /\ Data(r[1])[r[2]].from = w
    BY <2>1, Zenon DEF PlacesOK
  <2>3. r = <<0, r[2]>> /\ r[2] \in 1 .. Len(Data(0)) /\ Data(0)[r[2]].from = w
    BY <2>1, <2>2, Zenon
  <2>4. r[2] \in 1 .. c
    BY <1>5, <2>1, <2>3
  <2> QED BY <1>5, <2>3, <2>4, Zenon DEF Mine
<1>10. R = {} => lo2 = lo
  <2>1. R = {} => M = {}
    BY <1>8, Zenon
  <2> QED BY <2>1, ReceivedIs, Zenon
<1>11. ASSUME R # {} PROVE \E l \in R : (\A r \in R : ~Before(l, r)) /\ lo2 = Inc(num[l])
  <2>1. M # {}
    BY <1>9, <1>11, Zenon
  <2>2. PICK i \in M : (\A j \in M : j <= i) /\ lo2 = Inc(bufs[curbuf].data[i].num)
    BY <2>1, ReceivedIs, Zenon
  <2> DEFINE l == <<0, i>>
  <2>3. l[1] = 0 /\ l[2] = i /\ l \in R /\ l \in P
    BY <1>8, Zenon
  <2> HIDE DEF l
  <2>4. num[l] = bufs[curbuf].data[i].num
    BY <1>5, <2>3, Zenon DEF Nums
  <2>5. ASSUME NEW r \in R PROVE ~Before(l, r)
    <3>1. r[1] = 0 /\ r[2] <= i /\ r[2] \in Nat /\ i \in Nat
      BY <1>6, <1>9, <2>2, <2>3, <2>5, Zenon
    <3> HIDE DEF R, P
    <3> QED BY <2>3, <3>1 DEF Before
  <2> QED BY <2>2, <2>3, <2>4, <2>5, Zenon
<1>12. Consecutive(P, num, lo, hi) /\ R \subseteq P
  BY Zenon
<1> HIDE DEF P, Q, R, f, num, new, lo, lo2, hi
<1>13. Consecutive(Q, new, lo2, hi)
  <2>1. Loses(P, Q, R, f, num, new, lo, lo2)
    BY <1>2, <1>3, <1>4, <1>7, <1>10, <1>11, <1>12, Zenon DEF Loses
  <2> QED BY <1>12, <2>1, RunLoses, Zenon
<1>14. QED
  BY <1>1, <1>13, Zenon DEF P, Q, num, new, lo2, hi, Consecutive, Inc, Before


-----------------------------------------------------------------------------
(* A write adds n bytes after the m that are in the k-th buffer.           *)
AddsAt(p, n, k, m) ==
    /\ k \in Nat /\ m \in Nat /\ n \in Nat \ {0} /\ nrbufs \in Nat /\ nrbufs' = k + 1
    /\ (k = nrbufs /\ m = 0) \/ (k = nrbufs - 1 /\ m = Len(Data(k)))
    /\ \A j \in 0 .. k - 1 : Data(j)' = Data(j)
    /\ \A i \in 1 .. m : Data(k)'[i] = Data(k)[i]
    /\ Len(Data(k)') = m + n
    /\ \A i \in 1 .. n : /\ Data(k)'[m + i].from = p
                         /\ Data(k)'[m + i].num = (sent[p] + i - 1) % ByteMod
    /\ sent' = [sent EXCEPT ![p] = (@ + n) % ByteMod] /\ UNCHANGED rcvd

(* The bytes that are in the pipe stay where they are.                     *)
LEMMA WrittenStays ==
    ASSUME PlacesOK, PlacesOK', NEW p \in Writers, NEW n, NEW k, NEW m, AddsAt(p, n, k, m),
           NEW w \in Writers, NEW a \in Places(w)
    PROVE  /\ a \in Places(w)' /\ Data(a[1])'[a[2]] = Data(a[1])[a[2]]
           /\ a[1] \in Nat /\ a[2] \in Nat /\ (a[1] < k \/ (a[1] = k /\ a[2] <= m))
<1> DEFINE j == a[1]
           i == a[2]
<1>1. a = <<j, i>> /\ j \in 0 .. nrbufs - 1 /\ i \in 1 .. Len(Data(j)) /\ Data(j)[i].from = w
  BY Zenon DEF PlacesOK
<1>2. /\ k \in Nat /\ m \in Nat /\ n \in Nat \ {0} /\ nrbufs \in Nat /\ nrbufs' = k + 1
      /\ (k = nrbufs /\ m = 0) \/ (k = nrbufs - 1 /\ m = Len(Data(k)))
      /\ Len(Data(k)') = m + n
  BY Zenon DEF AddsAt
<1>3. Len(Data(j)) \in Nat
  BY <1>1, Zenon DEF PlacesOK
<1>4. \A h \in 0 .. nrbufs' - 1 : \A x \in 1 .. Len(Data(h)') :
         Data(h)'[x].from = w => <<h, x>> \in Places(w)'
  BY Zenon DEF PlacesOK
<1> HIDE DEF j, i
<1>5. j \in 0 .. nrbufs' - 1 /\ j \in Nat /\ i \in Nat
  BY <1>1, <1>2, <1>3
<1>6. CASE j < k
  <2>1. j \in 0 .. k - 1
    BY <1>2, <1>5, <1>6
  <2>2. Data(j)' = Data(j)
    BY <2>1, Zenon DEF AddsAt
  <2>3. a \in Places(w)'
    BY <1>1, <1>4, <1>5, <2>2, Zenon
  <2> QED BY <1>5, <1>6, <2>2, <2>3, Zenon DEF j, i
<1>7. CASE ~(j < k)
  <2>1. j = k /\ k = nrbufs - 1
    BY <1>1, <1>2, <1>7
  <2>2. k # nrbufs
    BY <1>2, <2>1
  <2>3. i \in 1 .. m
    BY <1>1, <1>2, <2>1, <2>2, Zenon
  <2>4. Data(j)'[i] = Data(j)[i]
    BY <2>1, <2>3, Zenon DEF AddsAt
  <2>5. i \in 1 .. m + n /\ i <= m
    BY <1>2, <2>3
  <2>6. i \in 1 .. Len(Data(j)')
    BY <1>2, <2>1, <2>5, Zenon
  <2>7. a \in Places(w)'
    BY <1>1, <1>4, <1>5, <2>4, <2>6, Zenon
  <2> QED BY <1>5, <2>1, <2>4, <2>5, <2>7, Zenon DEF j, i
<1>8. QED
  BY <1>6, <1>7, Zenon

(* The places of the bytes added.                                          *)
Added(n, k, m) == {<<k, m + i>> : i \in 1 .. n}

(* What is new are the writer's n bytes.                                   *)
LEMMA NewAreWritten ==
    ASSUME PlacesOK, PlacesOK', NEW p \in Writers, NEW n, NEW k, NEW m, AddsAt(p, n, k, m),
           NEW w \in Writers
    PROVE  /\ w # p => Places(w)' = Places(w)
           /\ w = p => Places(w)' = Places(w) \cup Added(n, k, m)
<1> DEFINE B == {<<k, m + i>> : i \in 1 .. n}
<1>1. /\ k \in Nat /\ m \in Nat /\ n \in Nat \ {0} /\ nrbufs \in Nat /\ nrbufs' = k + 1
      /\ (k = nrbufs /\ m = 0) \/ (k = nrbufs - 1 /\ m = Len(Data(k)))
      /\ Len(Data(k)') = m + n
      /\ \A i \in 1 .. n : Data(k)'[m + i].from = p
  BY Zenon DEF AddsAt
<1>2. Places(w) \subseteq Places(w)'
  BY WrittenStays, Zenon
<1>3. ASSUME w = p PROVE B \subseteq Places(w)'
  <2> SUFFICES ASSUME NEW i \in 1 .. n PROVE <<k, m + i>> \in Places(w)'
    BY Zenon
  <2>1. k \in 0 .. nrbufs' - 1 /\ m + i \in 1 .. m + n
    BY <1>1
  <2>2. m + i \in 1 .. Len(Data(k)') /\ Data(k)'[m + i].from = w
    BY <1>1, <1>3, <2>1, Zenon
  <2> QED BY <2>1, <2>2, Zenon DEF PlacesOK
<1>4. ASSUME NEW a \in Places(w)' PROVE a \in Places(w) \/ (w = p /\ a \in B)
  <2> DEFINE j == a[1]
             i == a[2]
  <2>1. a = <<j, i>> /\ j \in 0 .. nrbufs' - 1 /\ i \in 1 .. Len(Data(j)') /\ Data(j)'[i].from = w
    BY <1>4, Zenon DEF PlacesOK
  <2> HIDE DEF j, i
  <2>2. \A h \in 0 .. nrbufs - 1 : \A x \in 1 .. Len(Data(h)) :
           Data(h)[x].from = w => <<h, x>> \in Places(w)
    BY Zenon DEF PlacesOK
  <2>3. CASE j \in 0 .. k - 1
    <3>1. Data(j)' = Data(j) /\ j \in 0 .. nrbufs - 1
      <4>1. j \in 0 .. nrbufs - 1
        BY <1>1, <2>3
      <4>2. Data(j)' = Data(j)
        BY <2>3, Zenon DEF AddsAt
      <4> QED BY <4>1, <4>2, Zenon
    <3> QED BY <2>1, <2>2, <3>1, Zenon
  <2>4. CASE j = k
    <3>1. i \in 1 .. m + n
      BY <1>1, <2>1, <2>4, Zenon
    <3>2. CASE i <= m
      <4>1. i \in 1 .. m /\ k = nrbufs - 1 /\ k # nrbufs /\ k \in 0 .. nrbufs - 1
        BY <1>1, <3>1, <3>2
      <4>2. Data(k)'[i] = Data(k)[i] /\ i \in 1 .. Len(Data(k))
        BY <1>1, <4>1, Zenon DEF AddsAt
      <4> QED BY <2>1, <2>2, <2>4, <4>1, <4>2, Zenon
    <3>3. CASE ~(i <= m)
      <4>1. i - m \in 1 .. n /\ m + (i - m) = i
        BY <1>1, <3>1, <3>3
      <4>2. Data(k)'[i].from = p
        BY <1>1, <4>1, Zenon
      <4> QED BY <2>1, <2>4, <4>1, <4>2, Zenon
    <3> QED BY <3>2, <3>3, Zenon
  <2>5. j \in 0 .. k - 1 \/ j = k
    BY <1>1, <2>1
  <2> QED BY <2>3, <2>4, <2>5, Zenon
<1>5. QED
  BY <1>2, <1>3, <1>4, Zenon DEF Added

(* The order after a write.                                                *)
LEMMA WriteOrder ==
    ASSUME IInv, PlacesOK, PlacesOK', NEW p \in Writers, NEW n, NEW k, NEW m, AddsAt(p, n, k, m),
           NEW w \in Writers, Consecutive(Places(w), Nums(w), rcvd[w], sent[w])
    PROVE  Consecutive(Places(w), Nums(w), rcvd[w], sent[w])'
<1> DEFINE B == {<<k, m + i>> : i \in 1 .. n}
           P == Places(w)
           Q == Places(w)'
           num == Nums(w)
           new == Nums(w)'
<1>1. ASSUME NEW a \in P PROVE new[a] = num[a]
  <2>1. a \in Q /\ Data(a[1])'[a[2]] = Data(a[1])[a[2]]
    BY <1>1, WrittenStays, Zenon
  <2> QED BY <1>1, <2>1, Zenon DEF Nums
<1>2. rcvd' = rcvd
  BY Zenon DEF AddsAt
<1>3. CASE w # p
  <2>1. Q = P
    BY <1>3, NewAreWritten, Zenon
  <2>2. new = num
    <3>1. new = [a \in Q |-> Data(a[1])'[a[2]].num] /\ num = [a \in P |-> Data(a[1])[a[2]].num]
      BY Zenon DEF Nums
    <3>2. \A a \in P : Data(a[1])'[a[2]].num = Data(a[1])[a[2]].num
      BY WrittenStays, Zenon
    <3> HIDE DEF P, Q, new, num
    <3> QED BY <2>1, <3>1, <3>2, Zenon
  <2>3. sent'[w] = sent[w]
    BY <1>3, Zenon DEF AddsAt, IInv, TypeOK
  <2>4. Consecutive(Q, new, rcvd'[w], sent'[w])
    <3> HIDE DEF Q, new
    <3> QED BY <1>2, <2>1, <2>2, <2>3, Zenon
  <2> QED BY <2>4, Zenon DEF Consecutive, Inc, Before
<1>4. CASE w = p
  <2>1. Q = P \cup B
    <3>1. Q = P \cup Added(n, k, m)
      <4>1. w = p => Places(w)' = Places(w) \cup Added(n, k, m)
        <5> HIDE DEF P, Q, B, num, new
        <5> QED BY NewAreWritten
      <4> QED BY <1>4, <4>1, Zenon
    <3> QED BY <3>1, Zenon DEF Added
  <2>2. /\ k \in Nat /\ m \in Nat /\ n \in Nat \ {0} /\ sent[w] \in 0 .. ByteMod - 1
        /\ sent'[w] = (sent[w] + n) % ByteMod
    BY <1>4, Zenon DEF AddsAt, IInv, TypeOK
  <2>3. ASSUME NEW i \in 1 .. n PROVE new[<<k, m + i>>] = (sent[w] + i - 1) % ByteMod
    <3> DEFINE b == <<k, m + i>>
    <3>1. b[1] = k /\ b[2] = m + i /\ b \in Q
      BY <2>1, Zenon
    <3> HIDE DEF b
    <3>2. new[b] = Data(b[1])'[b[2]].num
      BY <3>1, Zenon DEF Nums
    <3>3. Data(k)'[m + i].num = (sent[w] + i - 1) % ByteMod
      BY <1>4, Zenon DEF AddsAt
    <3> QED BY <3>1, <3>2, <3>3, Zenon DEF b
  <2> HIDE DEF new
  <2>4. Consecutive(B, new, sent[w], sent'[w])
    BY <2>2, <2>3, RunOf, Zenon
  <2>5. ASSUME NEW a \in P, NEW b \in B PROVE Before(a, b) /\ ~Before(b, a)
    <3>1. a[1] \in Nat /\ a[2] \in Nat /\ (a[1] < k \/ (a[1] = k /\ a[2] <= m))
      BY <2>5, WrittenStays, Zenon
    <3>2. PICK i \in 1 .. n : b = <<k, m + i>>
      BY Zenon
    <3>3. b[1] = k /\ b[2] = m + i
      BY <3>2, Zenon
    <3> QED BY <2>2, <3>1, <3>3 DEF Before
  <2>6. B # {}
    <3>1. 1 \in 1 .. n
      BY <2>2
    <3> QED BY <3>1, Zenon
  <2> HIDE DEF B, P, Q, num
  <2>7. Consecutive(P \cup B, new, rcvd[w], sent'[w])
    <3>1. Consecutive(P, num, rcvd[w], sent[w])
      BY Zenon DEF P, num
    <3> QED BY <1>1, <2>4, <2>5, <2>6, <3>1, RunsJoin, Zenon
  <2>8. Consecutive(Q, new, rcvd'[w], sent'[w])
    BY <1>2, <2>1, <2>7, Zenon
  <2> QED BY <2>8, Zenon DEF Consecutive, Inc, Before, Q, new
<1>5. QED
  BY <1>3, <1>4, Zenon


(* A write into a new buffer adds at its beginning.                        *)
LEMMA NewBufAdds ==
    ASSUME IInv, NEW p \in Procs, write_buf(p), NEW k, k = nrbufs
    PROVE  p \in Writers /\ AddsAt(p, Least(PAGE_SIZE, left[p]), k, 0)
<1> DEFINE N == 0 .. PIPE_BUFFERS - 1
           n == Least(PAGE_SIZE, left[p])
           e == Bytes(p, n)
<1>1. /\ p \in Writers /\ Adds(p, n) /\ UNCHANGED curbuf /\ nrbufs' = nrbufs + 1
      /\ bufs'[NewBuf] = [ops |-> TRUE, offset |-> 0, data |-> e]
      /\ \A i \in N : i # NewBuf => bufs'[i] = bufs[i]
  BY NewBufStep, Zenon
<1>2. TypeOK /\ nrbufs < PIPE_BUFFERS /\ nrbufs \in 0 .. PIPE_BUFFERS
  BY Zenon DEF IInv, TypeOK, write_buf
<1> HIDE DEF n
<1>3. n \in Nat \ {0} /\ (ret[p] + left[p] > PAGE_SIZE \/ n = left[p])
  BY <1>1, Zenon DEF Adds
<1>4. /\ Len(e) = n /\ \A i \in 1 .. n : e[i].from = p
      /\ \A i \in 1 .. n : e[i].num = (sent[p] + i - 1) % ByteMod
  <2>1. /\ Bytes(p, n) \in Seq(Byte) /\ Len(Bytes(p, n)) = n /\ Bytes(p, n) # <<>>
        /\ \A i \in 1 .. n : Bytes(p, n)[i].from = p
        /\ \A i \in 1 .. n : Bytes(p, n)[i].num = (sent[p] + i - 1) % ByteMod
        /\ Bytes(p, n)[n].cut
    <3> HIDE DEF e
    <3> QED BY <1>1, <1>3, BytesAre, Zenon
  <2> QED BY <2>1, Zenon
<1> HIDE DEF e
<1>5. \A j : RingIndex(j)' = RingIndex(j)
  BY <1>1, Zenon DEF RingIndex
<1>6. RingIndex(k) = NewBuf
  BY Zenon DEF NewBuf, RingIndex
<1>7. bufs'[NewBuf].data = e
  BY <1>1
<1>8. Data(k)' = e
  BY <1>5, <1>6, <1>7, Zenon DEF Data
<1>9. k \in Nat /\ k \in N /\ \A j \in 0 .. k - 1 : j \in N /\ j # k
  BY <1>2, PipeAssumption
<1>10. ASSUME NEW j \in 0 .. k - 1 PROVE Data(j)' = Data(j)
  <2>1. RingIndex(j) # NewBuf /\ RingIndex(j) \in N
    BY <1>2, <1>6, <1>9, IndexDiffers, Zenon
  <2> QED BY <1>1, <1>5, <2>1, Zenon DEF Data
<1>11. /\ Len(Data(k)') = 0 + n /\ 0 \in Nat
       /\ \A i \in 1 .. n : 0 + i = i
       /\ \A i \in 1 .. 0 : Data(k)'[i] = Data(k)[i]
  BY <1>3, <1>4, <1>8
<1>12. \A i \in 1 .. n : /\ Data(k)'[0 + i].from = p
                         /\ Data(k)'[0 + i].num = (sent[p] + i - 1) % ByteMod
  BY <1>4, <1>8, <1>11, Zenon
<1>13. sent' = [sent EXCEPT ![p] = (@ + n) % ByteMod] /\ UNCHANGED rcvd
  BY <1>1, Zenon DEF Adds
<1>14. AddsAt(p, n, k, 0)
  BY <1>1, <1>3, <1>9, <1>10, <1>11, <1>12, <1>13, Zenon DEF AddsAt
<1>15. QED
  BY <1>1, <1>14, Zenon DEF n

(* A write that is merged adds at the end of the last buffer.              *)
LEMMA MergeAdds ==
    ASSUME IInv, NEW p \in Writers, Merges(p), NEW k, k = nrbufs - 1, NEW m, m = Len(Data(k))
    PROVE  AddsAt(p, MergeChars(p), k, m)
<1> DEFINE N == 0 .. PIPE_BUFFERS - 1
           n == MergeChars(p)
           e == Bytes(p, n)
           d == bufs[Last].data
<1>1. TypeOK /\ RingInv /\ nrbufs > 0 /\ UNCHANGED <<curbuf, nrbufs>> /\ Adds(p, n)
  BY Zenon DEF IInv, Merges
<1>2. /\ Last \in N /\ Last = RingIndex(k) /\ nrbufs \in 0 .. PIPE_BUFFERS /\ nrbufs \in Nat
  BY <1>1, LastIs, Zenon DEF TypeOK
<1>3. /\ bufs'[Last].data = d \o e
      /\ \A i \in N : i # Last => bufs'[i] = bufs[i]
      /\ e \in Seq(Byte) /\ Len(e) = n /\ n \in Nat \ {0}
      /\ d \in Seq(Byte) /\ Len(d) \in Nat \ {0}
  BY MergeBuffers, Zenon
<1> HIDE DEF n
<1>4. n \in Nat \ {0} /\ (ret[p] + left[p] > PAGE_SIZE \/ n = left[p])
  BY <1>1, Zenon DEF Adds
<1>5. /\ \A i \in 1 .. n : e[i].from = p
      /\ \A i \in 1 .. n : e[i].num = (sent[p] + i - 1) % ByteMod
  BY <1>4, BytesAre
<1> HIDE DEF e
<1>6. \A j : RingIndex(j)' = RingIndex(j)
  BY <1>1, Zenon DEF RingIndex
<1>7. Data(k)' = d \o e /\ Data(k) = d
  BY <1>2, <1>3, <1>6, Zenon DEF Data
<1> HIDE DEF d
<1>8. k \in Nat /\ k \in N /\ nrbufs' = k + 1 /\ \A j \in 0 .. k - 1 : j \in N /\ j # k
  BY <1>1, <1>2, PipeAssumption
<1>9. ASSUME NEW j \in 0 .. k - 1 PROVE Data(j)' = Data(j)
  <2>1. RingIndex(j) # Last /\ RingIndex(j) \in N
    BY <1>1, <1>2, <1>8, IndexDiffers, Zenon
  <2> QED BY <1>3, <1>6, <2>1, Zenon DEF Data
<1>10. /\ m \in Nat /\ Len(Data(k)') = m + n
       /\ \A i \in 1 .. m : Data(k)'[i] = Data(k)[i]
       /\ \A i \in 1 .. n : Data(k)'[m + i] = e[i]
  <2> DEFINE f == d \o e
  <2>1. m = Len(d)
    BY <1>7, Zenon
  <2>2. /\ m \in Nat /\ Len(f) = m + n
        /\ \A i \in 1 .. m : f[i] = d[i]
        /\ \A i \in 1 .. n : f[m + i] = e[i]
    <3>1. m \in Nat /\ n \in Nat /\ Len(e) = n /\ d \in Seq(Byte) /\ e \in Seq(Byte)
      BY <1>3, <2>1, Zenon
    <3>2. /\ Len(f) = m + n
          /\ \A j \in 1 .. m : f[j] = d[j]
          /\ \A j \in 1 .. n : f[Len(d) + j] = e[j]
      <4>1. /\ Len(f) = Len(d) + Len(e)
            /\ \A j \in 1 .. Len(d) : f[j] = d[j]
            /\ \A j \in 1 .. Len(e) : f[Len(d) + j] = e[j]
        <5>1. Len(d) \in Nat \ {0} /\ n \in Nat \ {0}
          BY <1>3, Zenon
        <5>2. /\ Len(f) = Len(d) + n
              /\ \A j \in 1 .. Len(f) : f[j] = IF j <= Len(d) THEN d[j] ELSE e[j - Len(d)]
          BY <3>1, <5>1
        <5> HIDE DEF f
        <5>3. Len(f) = Len(d) + Len(e)
          BY <3>1, <5>2, Zenon
        <5> QED BY <3>1, <5>1, <5>2, <5>3, SMTT(30)
      <4> QED BY <2>1, <3>1, <4>1, Zenon
    <3> QED BY <2>1, <3>1, <3>2, Zenon
  <2> HIDE DEF f
  <2>3. Data(k)' = f /\ Data(k) = d
    BY <1>7, Zenon DEF f
  <2> QED BY <2>2, <2>3, Zenon
<1>11. \A i \in 1 .. n : /\ Data(k)'[m + i].from = p
                         /\ Data(k)'[m + i].num = (sent[p] + i - 1) % ByteMod
  BY <1>5, <1>10, Zenon
<1>12. sent' = [sent EXCEPT ![p] = (@ + n) % ByteMod] /\ UNCHANGED rcvd
  BY <1>1, Zenon DEF Adds
<1>13. AddsAt(p, n, k, m)
  BY <1>2, <1>3, <1>8, <1>9, <1>10, <1>11, <1>12, Zenon DEF AddsAt
<1>14. QED
  BY <1>13, Zenon DEF n

-----------------------------------------------------------------------------
(* Every other step leaves the bytes alone, or closes the read end.        *)
LEMMA OtherSteps ==
    ASSUME IInv, [Next]_vars
    PROVE  \/ UNCHANGED <<bufs, curbuf, nrbufs, sent, rcvd>> /\ (readers' = 1 => readers = 1)
           \/ readers' # 1
           \/ UNCHANGED readers /\ \E p \in Procs : \/ read_buf(p) \/ write_buf(p)
                                                    \/ p \in Writers /\ Merges(p)
<1>1. CASE UNCHANGED vars
  BY <1>1, Zenon DEF vars
<1>2. CASE Next
  <2>1. PICK p \in Procs : \/ KernelStep(p) \/ LockStep(p)
                           \/ Call(p) \/ poll_wait(p) \/ pipe_release(p) \/ Signal(p)
    BY <1>2, Zenon DEF Next
  <2>2. CASE \/ Call(p) \/ Down(p) \/ pipe_wait(p) \/ pipe_wait_done(p) \/ Up(p) \/ Return(p)
             \/ read_fault(p) \/ read_empty(p) \/ write_no_readers(p) \/ write_no_page(p)
             \/ write_full(p) \/ poll_wait(p) \/ poll_check(p) \/ Signal(p)
    <3>1. UNCHANGED <<bufVars, endVars, histVars>>
      BY <2>2, Zenon DEF Call, Down, pipe_wait, pipe_wait_done, Up, Return, read_fault, read_empty,
                         write_no_readers, write_no_page, write_full, poll_wait, poll_check, Signal
    <3> QED BY <3>1, Zenon DEF bufVars, endVars, histVars
  <2>3. CASE write_fault(p)
    BY <2>3, Zenon DEF write_fault, endVars, histVars
  <2>4. CASE read_buf(p) \/ write_buf(p)
    BY <2>4, Zenon DEF read_buf, write_buf, endVars
  <2>5. CASE write_merge(p)
    <3>1. UNCHANGED readers
      BY <2>5, Zenon DEF write_merge, endVars
    <3>2. p \in Writers /\ (Merges(p) \/ UNCHANGED <<bufVars, histVars>>)
      BY <2>5, MergeCases, Zenon
    <3> QED BY <3>1, <3>2, Zenon DEF bufVars, histVars
  <2>6. CASE pipe_release(p)
    <3>1. UNCHANGED <<sent, rcvd>>
      BY <2>6, CloseKeeps, Zenon
    <3>2. readers' = 0 \/ UNCHANGED <<bufs, curbuf, nrbufs>>
      BY <2>6, CloseCounts, Zenon
    <3>3. open' \subseteq open /\ EndInv /\ EndInv'
      BY <2>6, CloseKeeps, CloseCounts, Zenon DEF IInv
    <3>4. readers' = 1 => readers = 1
      BY <3>3, Zenon DEF EndInv
    <3>5. readers' = 0 => readers' # 1
      OBVIOUS
    <3> QED BY <3>1, <3>2, <3>4, <3>5, Zenon
  <2> QED BY <2>1, <2>2, <2>3, <2>4, <2>5, <2>6, Zenon DEF KernelStep, LockStep
<1>3. QED
  BY <1>1, <1>2, Zenon

(* Every step keeps the order.                                             *)
LEMMA OrderStep == IInv /\ IInv' /\ StreamInOrder /\ [Next]_vars => StreamInOrder'
<1> SUFFICES ASSUME IInv, IInv', StreamInOrder, [Next]_vars, readers' = 1, NEW w \in Writers
             PROVE  Consecutive(Places(w), Nums(w), rcvd[w], sent[w])'
  BY Zenon DEF StreamInOrder
<1>1. PlacesOK /\ PlacesOK'
  BY PlaceIs, PTL
<1>2. readers = 1 => Consecutive(Places(w), Nums(w), rcvd[w], sent[w])
  BY Zenon DEF StreamInOrder
<1>3. CASE UNCHANGED <<bufs, curbuf, nrbufs, sent, rcvd>> /\ (readers' = 1 => readers = 1)
  <2>1. /\ Places(w)' = Places(w) /\ Nums(w)' = Nums(w)
        /\ rcvd'[w] = rcvd[w] /\ sent'[w] = sent[w]
    BY <1>3, Zenon DEF Places, Nums, Data, RingIndex
  <2>2. Consecutive(Places(w)', Nums(w)', rcvd'[w], sent'[w])
    BY <1>2, <1>3, <2>1, Zenon
  <2> QED BY <2>2, Zenon DEF Consecutive, Inc, Before
<1>4. ASSUME NEW p \in Procs, UNCHANGED readers, read_buf(p)
      PROVE  Consecutive(Places(w), Nums(w), rcvd[w], sent[w])'
  BY <1>1, <1>2, <1>4, ReadOrder, Zenon
<1>5. ASSUME NEW p \in Procs, UNCHANGED readers, write_buf(p)
      PROVE  Consecutive(Places(w), Nums(w), rcvd[w], sent[w])'
  <2>1. PICK k : p \in Writers /\ AddsAt(p, Least(PAGE_SIZE, left[p]), k, 0)
    BY <1>5, NewBufAdds, Zenon
  <2> QED BY <1>1, <1>2, <1>5, <2>1, WriteOrder, Zenon
<1>6. ASSUME NEW p \in Writers, UNCHANGED readers, Merges(p)
      PROVE  Consecutive(Places(w), Nums(w), rcvd[w], sent[w])'
  <2>1. PICK k, m : AddsAt(p, MergeChars(p), k, m)
    BY <1>6, MergeAdds, Zenon
  <2> QED BY <1>1, <1>2, <1>6, <2>1, WriteOrder, Zenon
<1>7. QED
  BY <1>3, <1>4, <1>5, <1>6, OtherSteps, Zenon

(* A new pipe holds nothing.                                               *)
LEMMA OrderInit == Init => StreamInOrder
<1> SUFFICES ASSUME Init, NEW w \in Writers
             PROVE  Consecutive(Places(w), Nums(w), rcvd[w], sent[w])
  BY Zenon DEF StreamInOrder
<1>1. nrbufs = 0 /\ rcvd[w] = sent[w]
  BY Zenon DEF Init
<1>2. Places(w) = {}
  BY <1>1 DEF Places
<1>3. QED
  BY <1>1, <1>2, Zenon DEF Consecutive

(* For every pipe: any number of readers and writers, any sizes of reads,  *)
(* writes, pages and the ring.  Through merged and cut writes, partial     *)
(* reads, failed copies and signals the bytes of a writer that are in the  *)
(* pipe run, without a gap, from the next one to be read to the last one   *)
(* sent.                                                                   *)
THEOREM Ordered == Spec => []StreamInOrder
<1>1. Init => IInv /\ StreamInOrder
  BY InvInit, OrderInit, Zenon
<1>2. (IInv /\ StreamInOrder) /\ [Next]_vars => (IInv /\ StreamInOrder)'
  BY InvStep, OrderStep, Zenon
<1>3. QED
  BY <1>1, <1>2, PTL DEF Spec
=============================================================================
