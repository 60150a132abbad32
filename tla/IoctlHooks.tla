----------------------------- MODULE IoctlHooks -----------------------------
(***************************************************************************)
(* The ioctl hooks of net/socket.c: the bridge, VLAN and DLCI modules hang *)
(* a function into brioctl_set(), vlan_ioctl_set() or dlci_ioctl_set(),    *)
(* and take it out again before they are unloaded; sock_ioctl() calls it.  *)
(***************************************************************************)
EXTENDS Integers

CONSTANTS Callers, NULL

Hooks == {"br", "vlan", "dlci"}

VARIABLES hook,      \* is the hook set
          mutex,     \* who holds the hook's mutex: a caller, its module or NULL
          code,      \* is the hook's module in memory
          mpc,       \* where each module is
          pc, cmd    \* where each caller is, and the hook it wants

vars == <<hook, mutex, code, mpc, pc, cmd>>

Init ==
    /\ hook = [h \in Hooks |-> FALSE] /\ mutex = [h \in Hooks |-> NULL]
    /\ code = [h \in Hooks |-> FALSE] /\ mpc = [h \in Hooks |-> "out"]
    /\ pc = [t \in Callers |-> "idle"] /\ cmd = [t \in Callers |-> NULL]

Goto(t, label) == pc' = [pc EXCEPT ![t] = label]

(* sock_ioctl(): no hook, ask for the module.  For the DLCI commands the   *)
(* hook is tested once more before the mutex is taken, for the others      *)
(* after.                                                                  *)
ioctl_enter(t) ==
    /\ pc[t] = "idle"
    /\ \E h \in Hooks : cmd' = [cmd EXCEPT ![t] = h]
    /\ Goto(t, "request")
    /\ UNCHANGED <<hook, mutex, code, mpc>>

request_module(t) ==
    /\ pc[t] = "request"
    /\ LET h == cmd[t] IN
         /\ \/ mpc' = [mpc EXCEPT ![h] = IF ~hook[h] /\ @ = "out" THEN "init" ELSE @]
            \/ UNCHANGED mpc
         /\ Goto(t, IF h = "dlci" THEN "test_unlocked" ELSE "down")
    /\ UNCHANGED <<hook, mutex, code, cmd>>

ioctl_test_unlocked(t) ==
    /\ pc[t] = "test_unlocked"
    /\ Goto(t, IF hook[cmd[t]] THEN "down" ELSE "return")
    /\ UNCHANGED <<hook, mutex, code, mpc, cmd>>

ioctl_down_unlocked(t) ==
    /\ pc[t] = "down" /\ mutex[cmd[t]] = NULL
    /\ Goto(t, IF cmd[t] = "dlci" \/ hook[cmd[t]] THEN "call" ELSE "up")
    /\ UNCHANGED <<hook, mutex, code, mpc, cmd>>
ioctl_down(t) ==
    /\ pc[t] = "down" /\ mutex[cmd[t]] = NULL
    /\ mutex' = [mutex EXCEPT ![cmd[t]] = t]
    /\ Goto(t, IF cmd[t] = "dlci" \/ hook[cmd[t]] THEN "call" ELSE "up")
    /\ UNCHANGED <<hook, code, mpc, cmd>>

ioctl_call(t) ==
    /\ pc[t] = "call"
    /\ Goto(t, "up")
    /\ UNCHANGED <<hook, mutex, code, mpc, cmd>>

ioctl_up(t) ==
    /\ pc[t] = "up"
    /\ mutex' = [mutex EXCEPT ![cmd[t]] = NULL]
    /\ Goto(t, "return")
    /\ UNCHANGED <<hook, code, mpc, cmd>>

ioctl_return(t) ==
    /\ pc[t] = "return"
    /\ Goto(t, "idle") /\ cmd' = [cmd EXCEPT ![t] = NULL]
    /\ UNCHANGED <<hook, mutex, code, mpc>>

(* brioctl_set(), vlan_ioctl_set() and dlci_ioctl_set(): the assignment    *)
(* under the mutex.                                                        *)
ioctl_set(h, on) ==
    /\ mutex[h] = NULL
    /\ hook' = [hook EXCEPT ![h] = on]

(* The module's init and exit (external): set the hook once loaded, clear  *)
(* it before the code goes.                                                *)
module_loads(h) ==
    /\ mpc[h] \in {"init", "out"} /\ ~code[h]
    /\ code' = [code EXCEPT ![h] = TRUE] /\ mpc' = [mpc EXCEPT ![h] = "init"]
    /\ UNCHANGED <<hook, mutex, pc, cmd>>
module_sets_hook(h) ==
    /\ mpc[h] = "init" /\ code[h] /\ ioctl_set(h, TRUE)
    /\ mpc' = [mpc EXCEPT ![h] = "in"]
    /\ UNCHANGED <<mutex, code, pc, cmd>>
module_clears_hook(h) ==
    /\ mpc[h] = "in" /\ ioctl_set(h, FALSE)
    /\ mpc' = [mpc EXCEPT ![h] = "exit"]
    /\ UNCHANGED <<mutex, code, pc, cmd>>
module_unloads(h) ==
    /\ mpc[h] = "exit"
    /\ code' = [code EXCEPT ![h] = FALSE] /\ mpc' = [mpc EXCEPT ![h] = "out"]
    /\ UNCHANGED <<hook, mutex, pc, cmd>>

Next ==
    \/ \E t \in Callers :
         \/ ioctl_enter(t) \/ request_module(t) \/ ioctl_test_unlocked(t) \/ ioctl_down(t)
         \/ ioctl_call(t) \/ ioctl_up(t) \/ ioctl_return(t)
    \/ \E h \in Hooks :
         \/ module_loads(h) \/ module_sets_hook(h) \/ module_clears_hook(h)
         \/ module_unloads(h)

Spec == Init /\ [][Next]_vars

-----------------------------------------------------------------------------
Labels == {"idle", "request", "test_unlocked", "down", "call", "up", "return"}

TypeOK ==
    /\ hook \in [Hooks -> BOOLEAN] /\ code \in [Hooks -> BOOLEAN]
    /\ mutex \in [Hooks -> Callers \cup {NULL}]
    /\ mpc \in [Hooks -> {"out", "init", "in", "exit"}]
    /\ pc \in [Callers -> Labels] /\ cmd \in [Callers -> Hooks \cup {NULL}]

Calling(h) == \E t \in Callers : pc[t] = "call" /\ cmd[t] = h

(* A bridge or VLAN ioctl that is in its hook is in a function that is set *)
(* and whose module is in memory, however the module comes and goes.       *)
LockedHooksAreSafe ==
    \A h \in {"br", "vlan"} : Calling(h) => hook[h] /\ code[h]
=============================================================================
