------------------------------ MODULE NetFamily ------------------------------
(***************************************************************************)
(* The vector of protocol families of net/socket.c and the lock that       *)
(* guards it: readers only count themselves in net_family_lockct and wait  *)
(* until the spin lock is free; a writer takes the spin lock and gives it  *)
(* back as long as there are readers.  One slot of the vector is           *)
(* modelled, net_families[family]; the families that protocol modules      *)
(* offer for it are the constant Families.                                 *)
(***************************************************************************)
EXTENDS Integers, FiniteSets

CONSTANTS Readers,    \* threads in __sock_create()
          Writers,    \* threads in sock_register() and sock_unregister()
          Families,   \* the net_proto_family structures
          NULL        \* an empty slot, a free lock

ASSUME NetFamilyAssumption ==
    /\ IsFiniteSet(Readers) /\ Readers \cap Writers = {}
    /\ NULL \notin Families /\ NULL \notin Writers

VARIABLES net_families,       \* the slot
          net_family_lock,    \* the writer that holds the spin lock
          net_family_lockct,  \* the number of readers
          pc, ops             \* where each thread is, the family it works on

vars == <<net_families, net_family_lock, net_family_lockct, pc, ops>>

Init ==
    /\ net_families = NULL /\ net_family_lock = NULL /\ net_family_lockct = 0
    /\ pc = [t \in Readers \cup Writers |-> "idle"]
    /\ ops = [t \in Readers \cup Writers |-> NULL]

Goto(t, label) == pc' = [pc EXCEPT ![t] = label]

-----------------------------------------------------------------------------
(* net_family_read_lock(): count, then wait for the writer. *)
read_lock_inc(t) ==
    /\ pc[t] = "idle"
    /\ net_family_lockct' = net_family_lockct + 1
    /\ Goto(t, "read_wait")
    /\ UNCHANGED <<net_families, net_family_lock, ops>>

read_lock_wait_skip(t) ==
    /\ pc[t] = "read_wait"
    /\ Goto(t, "test")
    /\ UNCHANGED <<net_families, net_family_lock, net_family_lockct, ops>>
read_lock_wait(t) ==
    /\ pc[t] = "read_wait" /\ net_family_lock = NULL
    /\ Goto(t, "test")
    /\ UNCHANGED <<net_families, net_family_lock, net_family_lockct, ops>>

(* __sock_create() tests the slot, and later goes through it to pin the    *)
(* owner, to call ->create() and to drop the owner again.                  *)
find_family_null(t) ==
    /\ pc[t] = "test"
    /\ ops' = [ops EXCEPT ![t] = net_families]
    /\ Goto(t, "create")
    /\ UNCHANGED <<net_families, net_family_lock, net_family_lockct>>
find_family(t) ==
    /\ pc[t] = "test"
    /\ ops' = [ops EXCEPT ![t] = net_families]
    /\ Goto(t, IF net_families = NULL THEN "read_unlock" ELSE "create")
    /\ UNCHANGED <<net_families, net_family_lock, net_family_lockct>>

create_done(t) ==
    /\ pc[t] = "create"
    /\ Goto(t, "read_unlock")
    /\ UNCHANGED <<net_families, net_family_lock, net_family_lockct, ops>>

read_unlock(t) ==
    /\ pc[t] = "read_unlock"
    /\ net_family_lockct' = net_family_lockct - 1
    /\ ops' = [ops EXCEPT ![t] = NULL]
    /\ Goto(t, "idle")
    /\ UNCHANGED <<net_families, net_family_lock>>

-----------------------------------------------------------------------------
(* sock_register(f) with f a family, sock_unregister() with f = NULL.      *)
write_enter(t) ==
    /\ pc[t] = "idle"
    /\ \E f \in Families \cup {NULL} : ops' = [ops EXCEPT ![t] = f]
    /\ Goto(t, "write_lock")
    /\ UNCHANGED <<net_families, net_family_lock, net_family_lockct>>

(* net_family_write_lock(): spin_lock(), and as long as there are readers  *)
(* spin_unlock(), yield() and again.                                       *)
write_lock(t) ==
    /\ pc[t] = "write_lock" /\ net_family_lock = NULL
    /\ net_family_lock' = t
    /\ Goto(t, "write_test")
    /\ UNCHANGED <<net_families, net_family_lockct, ops>>

write_test(t) ==
    /\ pc[t] = "write_test"
    /\ IF net_family_lockct # 0
       THEN net_family_lock' = NULL /\ Goto(t, "write_lock")
       ELSE Goto(t, "write") /\ UNCHANGED net_family_lock
    /\ UNCHANGED <<net_families, net_family_lockct, ops>>

(* A slot that is taken is -EEXIST. *)
write_slot(t) ==
    /\ pc[t] = "write"
    /\ net_families' = IF ops[t] # NULL /\ net_families # NULL THEN net_families ELSE ops[t]
    /\ Goto(t, "write_unlock")
    /\ UNCHANGED <<net_family_lock, net_family_lockct, ops>>

write_unlock(t) ==
    /\ pc[t] = "write_unlock"
    /\ net_family_lock' = NULL
    /\ ops' = [ops EXCEPT ![t] = NULL]
    /\ Goto(t, "idle")
    /\ UNCHANGED <<net_families, net_family_lockct>>

Next ==
    \/ \E t \in Readers :
         \/ read_lock_inc(t) \/ read_lock_wait(t) \/ find_family(t)
         \/ create_done(t) \/ read_unlock(t)
    \/ \E t \in Writers :
         write_enter(t) \/ write_lock(t) \/ write_test(t) \/ write_slot(t) \/ write_unlock(t)

Spec == Init /\ [][Next]_vars

-----------------------------------------------------------------------------
Reading == {"test", "create", "read_unlock"}
ReaderLabels == {"idle", "read_wait"} \cup Reading
WriterLabels == {"idle", "write_lock", "write_test", "write", "write_unlock"}
Counted == {t \in Readers : pc[t] # "idle"}

TypeOK ==
    /\ net_families \in Families \cup {NULL}
    /\ net_family_lock \in Writers \cup {NULL}
    /\ net_family_lockct \in Nat
    /\ pc \in [Readers \cup Writers -> ReaderLabels \cup WriterLabels]
    /\ \A t \in Readers : pc[t] \in ReaderLabels
    /\ \A t \in Writers : pc[t] \in WriterLabels
    /\ ops \in [Readers \cup Writers -> Families \cup {NULL}]

(* A family that __sock_create() found stays in its slot until the reader  *)
(* is done: the NULL test, the pin of its owner, the call of ->create()    *)
(* and the module_put() all see the same structure                         *)
(* (net_family_read_lock(), net_family_write_lock()).                      *)
FamilyStaysWhileRead ==
    \A t \in Readers : pc[t] = "create" => ops[t] # NULL /\ net_families = ops[t]

(* sock_register() never replaces a family, and the vector changes only    *)
(* under the spin lock and with no reader inside.                          *)
RegisteredFamilyIsNotReplaced ==
    [][ /\ net_families # NULL /\ net_families' # NULL => net_families' = net_families
        /\ net_families' # net_families =>
             net_family_lock # NULL /\ \A t \in Readers : pc[t] \notin Reading ]_net_families
=============================================================================
