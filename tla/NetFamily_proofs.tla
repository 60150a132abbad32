--------------------------- MODULE NetFamily_proofs ---------------------------
(***************************************************************************)
(* The reader/writer exclusion of net/socket.c for any finite set of       *)
(* readers, any set of writers and any families.                           *)
(***************************************************************************)
EXTENDS NetFamily, FiniteSetTheorems, TLAPS

Holding == {"write_test", "write", "write_unlock"}

(* The inductive invariant: the count is the number of readers past        *)
(* atomic_inc(); a writer past spin_lock() holds the lock; a writer at the *)
(* vector has no reader inside; and the slot a reader found is still there. *)
IInv ==
    /\ TypeOK
    /\ net_family_lockct = Cardinality(Counted)
    /\ \A w \in Writers : pc[w] \in Holding => net_family_lock = w
    /\ \A w \in Writers, r \in Readers : pc[w] = "write" => pc[r] \notin Reading
    /\ FamilyStaysWhileRead

USE DEF Goto

(* The readers that are counted are finitely many.                         *)
LEMMA CountedFinite == IsFiniteSet(Counted)
  BY NetFamilyAssumption, FS_Subset DEF Counted

(* The invariant holds when the system starts.                             *)
LEMMA InitIInv == Init => IInv
<1> SUFFICES ASSUME Init PROVE IInv
  OBVIOUS
<1>1. TypeOK
  BY NetFamilyAssumption DEF Init, TypeOK, ReaderLabels, WriterLabels
<1>2. Counted = {}
  BY DEF Init, Counted
<1>3. net_family_lockct = Cardinality(Counted)
  BY <1>2, FS_EmptySet DEF Init
<1> QED
  BY <1>1, <1>3, NetFamilyAssumption DEF Init, IInv, FamilyStaysWhileRead, Holding, Reading

(* Every step keeps the types.                                             *)
LEMMA TypeStep == IInv /\ [Next]_vars => TypeOK'
<1> SUFFICES ASSUME IInv, [Next]_vars PROVE TypeOK'
  OBVIOUS
<1> USE NetFamilyAssumption DEF IInv, TypeOK, ReaderLabels, WriterLabels, Reading
<1>1. ASSUME NEW t \in Readers, read_unlock(t) PROVE TypeOK'
  <2>1. t \in Counted
    BY <1>1 DEF read_unlock, Counted
  <2>2. net_family_lockct # 0
    BY <2>1, CountedFinite, FS_EmptySet
  <2> QED
    BY <1>1, <2>2 DEF read_unlock
<1>2. ASSUME NEW t \in Readers, read_lock_inc(t) PROVE TypeOK'
  BY <1>2 DEF read_lock_inc
<1>3. ASSUME NEW t \in Readers, read_lock_wait(t) PROVE TypeOK'
  BY <1>3 DEF read_lock_wait
<1>4. ASSUME NEW t \in Readers, find_family(t) PROVE TypeOK'
  BY <1>4 DEF find_family
<1>5. ASSUME NEW t \in Readers, create_done(t) PROVE TypeOK'
  BY <1>5 DEF create_done
<1>6. ASSUME NEW t \in Writers, write_enter(t) PROVE TypeOK'
  BY <1>6 DEF write_enter
<1>7. ASSUME NEW t \in Writers, write_lock(t) PROVE TypeOK'
  BY <1>7 DEF write_lock
<1>8. ASSUME NEW t \in Writers, write_test(t) PROVE TypeOK'
  BY <1>8 DEF write_test
<1>9. ASSUME NEW t \in Writers, write_slot(t) PROVE TypeOK'
  BY <1>9 DEF write_slot
<1>10. ASSUME NEW t \in Writers, write_unlock(t) PROVE TypeOK'
  BY <1>10 DEF write_unlock
<1>11. CASE UNCHANGED vars
  BY <1>11 DEF vars
<1> QED
  BY <1>1, <1>2, <1>3, <1>4, <1>5, <1>6, <1>7, <1>8, <1>9, <1>10, <1>11 DEF Next

(* net_family_lockct stays the number of readers between their increment   *)
(* and decrement.                                                          *)
LEMMA CountStep == IInv /\ [Next]_vars => net_family_lockct' = Cardinality(Counted')
<1> SUFFICES ASSUME IInv, [Next]_vars PROVE net_family_lockct' = Cardinality(Counted')
  OBVIOUS
<1> USE NetFamilyAssumption DEF IInv, TypeOK
<1>0. IsFiniteSet(Counted)
  BY CountedFinite
<1>1. ASSUME NEW t \in Readers, read_lock_inc(t)
      PROVE net_family_lockct' = Cardinality(Counted')
  <2>1. t \notin Counted /\ Counted' = Counted \cup {t}
    BY <1>1 DEF read_lock_inc, Counted
  <2> QED
    BY <1>0, <1>1, <2>1, FS_AddElement DEF read_lock_inc
<1>2. ASSUME NEW t \in Readers, read_unlock(t)
      PROVE net_family_lockct' = Cardinality(Counted')
  <2>1. t \in Counted /\ Counted' = Counted \ {t}
    BY <1>2 DEF read_unlock, Counted
  <2> QED
    BY <1>0, <1>2, <2>1, FS_RemoveElement DEF read_unlock
<1>3. CASE net_family_lockct' = net_family_lockct /\ Counted' = Counted
  BY <1>3
<1>4. ASSUME NEW t \in Readers, read_lock_wait(t) \/ find_family(t) \/ create_done(t)
      PROVE net_family_lockct' = net_family_lockct /\ Counted' = Counted
  BY <1>4 DEF read_lock_wait, find_family, create_done, Counted
<1>5. ASSUME NEW t \in Writers, write_enter(t) \/ write_lock(t) \/ write_test(t)
                                \/ write_slot(t) \/ write_unlock(t)
      PROVE net_family_lockct' = net_family_lockct /\ Counted' = Counted
  BY <1>5 DEF write_enter, write_lock, write_test, write_slot, write_unlock, Counted
<1>6. CASE UNCHANGED vars
  BY <1>6 DEF vars, Counted
<1> QED
  BY <1>1, <1>2, <1>3, <1>4, <1>5, <1>6 DEF Next

(* The lock has one holder, and a writer that writes is alone.             *)
LEMMA ExclusionStep ==
    IInv /\ [Next]_vars =>
        /\ \A w \in Writers : pc'[w] \in Holding => net_family_lock' = w
        /\ \A w \in Writers, r \in Readers : pc'[w] = "write" => pc'[r] \notin Reading
        /\ FamilyStaysWhileRead'
<1> DEFINE Goal ==
        /\ \A w \in Writers : pc'[w] \in Holding => net_family_lock' = w
        /\ \A w \in Writers, r \in Readers : pc'[w] = "write" => pc'[r] \notin Reading
        /\ FamilyStaysWhileRead'
<1> SUFFICES ASSUME IInv, [Next]_vars PROVE Goal
  OBVIOUS
<1> USE NetFamilyAssumption DEF IInv, TypeOK, Holding, Reading, FamilyStaysWhileRead
<1>1. ASSUME NEW t \in Readers, read_lock_inc(t) PROVE Goal
  BY <1>1 DEF read_lock_inc
<1>2. ASSUME NEW t \in Readers, read_lock_wait(t) PROVE Goal
  BY <1>2 DEF read_lock_wait
<1>3. ASSUME NEW t \in Readers, find_family(t) PROVE Goal
  BY <1>3 DEF find_family
<1>4. ASSUME NEW t \in Readers, create_done(t) PROVE Goal
  BY <1>4 DEF create_done
<1>5. ASSUME NEW t \in Readers, read_unlock(t) PROVE Goal
  BY <1>5 DEF read_unlock
<1>6. ASSUME NEW t \in Writers, write_enter(t) PROVE Goal
  BY <1>6 DEF write_enter
<1>7. ASSUME NEW t \in Writers, write_lock(t) PROVE Goal
  BY <1>7 DEF write_lock
<1>8. ASSUME NEW t \in Writers, write_test(t) PROVE Goal
  <2>1. CASE net_family_lockct # 0
    BY <1>8, <2>1 DEF write_test
  <2>2. CASE net_family_lockct = 0
    <3>1. Counted = {}
      BY <2>2, CountedFinite, FS_EmptySet
    <3>2. \A r \in Readers : pc[r] = "idle"
      BY <3>1 DEF Counted
    <3> QED
      BY <1>8, <2>2, <3>2 DEF write_test
  <2> QED
    BY <2>1, <2>2
<1>9. ASSUME NEW t \in Writers, write_slot(t) PROVE Goal
  BY <1>9 DEF write_slot
<1>10. ASSUME NEW t \in Writers, write_unlock(t) PROVE Goal
  BY <1>10 DEF write_unlock
<1>11. CASE UNCHANGED vars
  BY <1>11 DEF vars
<1> QED
  BY <1>1, <1>2, <1>3, <1>4, <1>5, <1>6, <1>7, <1>8, <1>9, <1>10, <1>11 DEF Next

(* IInv is an invariant of the lock. *)
THEOREM IInvHolds == Spec => []IInv
<1>1. IInv /\ [Next]_vars => IInv'
  BY TypeStep, CountStep, ExclusionStep DEF IInv
<1> QED
  BY InitIInv, <1>1, PTL DEF Spec

(* A family that __sock_create() found stays registered until the reader   *)
(* lets go of the lock, for any number of readers and writers.             *)
THEOREM FamilyStays == Spec => []FamilyStaysWhileRead
<1>1. IInv => FamilyStaysWhileRead
  BY DEF IInv
<1> QED
  BY IInvHolds, <1>1, PTL

(* No registration is overwritten, and the vector changes only under the   *)
(* spin lock with no reader inside, for any number of readers and writers. *)
THEOREM FamilyNotReplaced == Spec => RegisteredFamilyIsNotReplaced
<1> DEFINE Step ==
      /\ net_families # NULL /\ net_families' # NULL => net_families' = net_families
      /\ net_families' # net_families =>
           net_family_lock # NULL /\ \A t \in Readers : pc[t] \notin Reading
<1>1. IInv /\ [Next]_vars => [Step]_net_families
  <2> SUFFICES ASSUME IInv, [Next]_vars, net_families' # net_families PROVE Step
    OBVIOUS
  <2>1. PICK t \in Writers : write_slot(t)
    BY DEF Next, vars, read_lock_inc, read_lock_wait, find_family, create_done, read_unlock,
           write_enter, write_lock, write_test, write_unlock
  <2> QED
    BY <2>1, NetFamilyAssumption DEF write_slot, IInv, TypeOK, Holding
<1> QED
  BY IInvHolds, <1>1, PTL DEF Spec, RegisteredFamilyIsNotReplaced
=============================================================================
