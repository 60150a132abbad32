--------------------------- MODULE DomainService ----------------------------
(***************************************************************************)
(* What the execution-domain code promises its users: a task always has a  *)
(* personality and a domain that may be called through, both change in one *)
(* step, and the domains of a module go away only when no task has one.    *)
(* No locks, no list, no reference counts: ExecDomain implements this.     *)
(***************************************************************************)
CONSTANTS Tasks, Mods, Domains, Default, ModOf, Personalities, PerLinux, Serves

VARIABLES
    usable,     \* the modules whose domains may be installed and called
    domain,     \* the domain of each task
    pers        \* the personality of each task

vars == <<usable, domain, pers>>

Available(d) == d # Default => ModOf[d] \in usable

Init ==
    /\ usable = {}
    /\ domain = [t \in Tasks |-> Default]
    /\ pers = [t \in Tasks |-> PerLinux]

Offer(m) ==
    /\ m \notin usable
    /\ usable' = usable \cup {m}
    /\ UNCHANGED <<domain, pers>>

Withdraw(m) ==
    /\ m \in usable
    /\ \A t \in Tasks : domain[t] # Default => ModOf[domain[t]] # m
    /\ usable' = usable \ {m}
    /\ UNCHANGED <<domain, pers>>

(* The default domain takes any personality: late probing.                 *)
Switch(t, d, p) ==
    /\ Available(d)
    /\ d # Default => p \in Serves[d]
    /\ domain' = [domain EXCEPT ![t] = d]
    /\ pers' = [pers EXCEPT ![t] = p]
    /\ UNCHANGED usable

Inherit(u, t) ==
    /\ domain' = [domain EXCEPT ![u] = domain[t]]
    /\ pers' = [pers EXCEPT ![u] = pers[t]]
    /\ UNCHANGED usable

Next ==
    \/ \E m \in Mods : Offer(m) \/ Withdraw(m)
    \/ \E t \in Tasks, d \in Domains \cup {Default}, p \in Personalities : Switch(t, d, p)
    \/ \E t, u \in Tasks : Inherit(u, t)

Spec == Init /\ [][Next]_vars
=============================================================================
