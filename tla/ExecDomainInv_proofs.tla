------------------------ MODULE ExecDomainInv_proofs ------------------------
(***************************************************************************)
(* The inductive invariant of ExecDomain, the theorems about types,        *)
(* counts, pinned domains and the registry, and the refinement of          *)
(* DomainService.                                                          *)
(***************************************************************************)
EXTENDS ExecDomain_proofs

-----------------------------------------------------------------------------
(* A module on its way out gains no reference.                             *)

(* Every step keeps it so.                                                 *)
LEMMA GoneStep ==
    ASSUME TypeOK, PcInv, RegInv, GoneInv, RefsAccounted, [Next]_vars
    PROVE  GoneInv'
<1> USE ConstantFacts
<1>1. CASE UNCHANGED <<mref, mstate>>
  BY <1>1, Zenon DEF GoneInv
<1>2. ASSUME NEW m \in Mods, ModStep(m)
      PROVE  GoneInv'
  <2> USE DEF GoneInv, TypeOK
  <2>1. CASE LoadModule(m)
    BY <2>1, Zenon DEF LoadModule
  <2>2. CASE ModuleInit(m)
    BY <1>1, <2>2, InitFacts, Zenon
  <2>3. CASE ModuleInitDone(m)
    BY <2>3, Zenon DEF ModuleInitDone
  <2>4. CASE DeleteModule(m)
    BY <2>4, Zenon DEF DeleteModule, refVars
  <2>5. CASE ModuleExit(m)
    BY <1>1, <2>5, Zenon DEF ModuleExit, refVars
  <2>6. CASE FreeModule(m)
    BY <2>6, Zenon DEF FreeModule, refVars
  <2> QED
    BY <1>2, <2>1, <2>2, <2>3, <2>4, <2>5, <2>6, Zenon DEF ModStep
<1>3. ASSUME NEW t \in Tasks, TaskStep(t)
      PROVE  GoneInv'
  <2>1. ASSUME NEW d \in AllDomains, UNCHANGED mstate, mref' = Got(d) \/ mref' = Put(d),
               d # Default => mstate[ModOf[d]] \notin {"going", "absent"}
        PROVE  GoneInv'
    <3>1. ASSUME NEW m \in Mods, mstate[m] \in {"going", "absent"}
          PROVE  mref'[m] = 0
      <4>1. In(d, m) = 0
        BY <2>1, <3>1, Zenon DEF In
      <4>2. mref'[m] = mref[m] + In(d, m) \/ mref'[m] = mref[m] - In(d, m)
        BY <2>1, GotPut DEF TypeOK
      <4>3. mref[m] = 0
        BY <3>1, Zenon DEF GoneInv
      <4> QED
        BY <4>1, <4>2, <4>3
    <3> QED
      BY <2>1, <3>1, Zenon DEF GoneInv
  <2>2. ASSUME NEW d \in AllDomains, NEW k \in Slots, Held(t, k) = d, UNCHANGED mstate,
               mref' = Got(d) \/ mref' = Put(d)
        PROVE  GoneInv'
    <3>1. d # Default => mstate[ModOf[d]] \in {"coming", "live"}
      BY <2>2, HolderPins, Zenon
    <3> QED
      BY <2>1, <2>2, <3>1, Zenon
  <2>3. ASSUME WalkFound(t), UNCHANGED mstate
        PROVE  GoneInv'
    <3>1. PICK d \in AllDomains :
            /\ \E i \in 1 .. Len(exec_domains) : exec_domains[i] = d
            /\ try_module_get(d) /\ mref' = Got(d)
      BY <2>3, WalkFacts, Zenon
    <3>2. CASE d = Default
      BY <2>1, <2>3, <3>1, <3>2, Zenon
    <3>3. CASE d # Default
      <4>1. d \in Domains /\ Listed(d)
        BY <3>1, <3>3, Zenon DEF Listed
      <4>2. mstate[ModOf[d]] # "absent"
        BY <4>1, ListedResident, Zenon
      <4>3. mstate[ModOf[d]] # "going"
        BY <3>1, <3>3, Zenon DEF try_module_get, module_is_live
      <4> QED
        BY <2>1, <2>3, <3>1, <4>2, <4>3, Zenon
    <3> QED
      BY <3>2, <3>3, Zenon
  <2>4. CASE lookup_scan(t) \/ lookup_rescan(t)
    <3>1. UNCHANGED mstate /\ (WalkFound(t) \/ UNCHANGED mref)
      BY <2>4, Zenon DEF lookup_scan, lookup_rescan, modVars
    <3> QED
      BY <1>1, <2>3, <3>1, Zenon
  <2> USE DEF Slots
  <2>5. CASE set_copy_fs_fails(t)
    <3>1. ep[t] \in AllDomains /\ Held(t, "new") = ep[t] /\ mref' = Put(ep[t]) /\ UNCHANGED mstate
      BY <2>5, PcFacts, HeldSlots, Zenon DEF set_copy_fs_fails, TypeOK, modVars
    <3> QED
      BY <2>2, <3>1, Zenon
  <2>6. CASE set_put_old(t)
    <3>1. oep[t] \in AllDomains /\ Held(t, "old") = oep[t] /\ mref' = Put(oep[t]) /\ UNCHANGED mstate
      BY <2>6, PcFacts, HeldSlots, Zenon DEF set_put_old, TypeOK, modVars
    <3> QED
      BY <2>2, <3>1, Zenon
  <2>7. CASE fork_pin(t)
    <3>1. exec_domain[t] \in AllDomains /\ Held(t, "current") = exec_domain[t]
          /\ mref' = Got(exec_domain[t]) /\ UNCHANGED mstate
      BY <2>7, HeldSlots, Zenon DEF fork_pin, TypeOK, modVars
    <3> QED
      BY <2>2, <3>1, Zenon
  <2>8. CASE fork_fails(t)
    <3>1. exec_domain[t] \in AllDomains /\ Held(t, "current") = exec_domain[t] /\ mref' = Put(exec_domain[t]) /\ UNCHANGED mstate
      BY <2>8, PcFacts, HeldSlots, Zenon DEF fork_fails, TypeOK, modVars
    <3> QED
      BY <2>2, <3>1, Zenon
  <2>9. CASE Exit(t)
    <3>1. exec_domain[t] \in AllDomains /\ Held(t, "current") = exec_domain[t] /\ mref' = Put(exec_domain[t]) /\ UNCHANGED mstate
      BY <2>9, PcFacts, HeldSlots, Zenon DEF Exit, TypeOK, modVars
    <3> QED
      BY <2>2, <3>1, Zenon
  <2>10. CASE \/ \E v, p : set_personality(t, v, p)
               \/ set_same_domain(t) \/ set_check_fs(t) \/ set_copy_fs(t) \/ set_put_fs(t)
               \/ set_commit(t) \/ set_return(t) \/ SurviveSegv(t) \/ fork_done(t)
    <3>1. UNCHANGED <<mref, mstate>>
      BY <2>10, Zenon DEF set_personality, set_same_domain, set_check_fs, set_copy_fs, set_put_fs,
         set_commit, set_return, SurviveSegv, fork_done, refVars, modVars
    <3> QED
      BY <1>1, <3>1, Zenon
  <2> QED
    BY <1>3, <2>4, <2>5, <2>6, <2>7, <2>8, <2>9, <2>10, Zenon
       DEF TaskStep, SetStep, Exec, sys_personality, lcall_autodetect_handler
<1> QED
  BY <1>1, <1>2, <1>3, Zenon DEF Next, vars

-----------------------------------------------------------------------------
(* The theorems.                                                           *)

(* The initial state satisfies the inductive invariant.                    *)
LEMMA InitIInv == Init => IInv
<1> SUFFICES ASSUME Init
             PROVE  IInv
  BY Zenon
<1> USE ConstantFacts, ConstantsAssumption
<1>1. TypeOK
  <2>1. exec_domains \in Seq(AllDomains)
    BY SMTT(60) DEF Init
  <2> QED
    BY <2>1, SMTT(60) DEF Init, TypeOK, MStates, PCs, Callers
<1>2. PcInv
  BY Zenon DEF Init, PcInv, PcOK
<1>3. RegInv
  <2>1. exec_domains = <<Default>> /\ nreg = [m \in Mods |-> 0]
    BY Zenon DEF Init
  <2>2. Len(exec_domains) = 1 /\ exec_domains[1] = Default
    BY <2>1, Zenon
  <2>3. \A d \in Domains : ~Listed(d)
    BY <2>2 DEF Listed
  <2>4. ASSUME NEW m \in Mods
        PROVE  /\ nreg[m] <= Len(DomainsOf[m]) /\ nreg[m] = 0
               /\ \A i \in 1 .. Len(DomainsOf[m]) : DomainsOf[m][i] \in Domains
    <3>1. DomainsOf[m] \in Seq(Domains) /\ Len(DomainsOf[m]) \in Nat
      BY DomainsOfAssumption, SMTT(60)
    <3> QED
      BY <2>1, <3>1, SMTT(60)
  <2>5. \A i, j \in 1 .. Len(exec_domains) : exec_domains[i] = exec_domains[j] => i = j
    BY <2>2
  <2>6. Len(exec_domains) > 0 /\ exec_domains[Len(exec_domains)] = Default
    BY <2>2
  <2> QED
    BY <2>3, <2>4, <2>5, <2>6, Zenon DEF RegInv
<1>4. GoneInv
  BY Zenon DEF Init, GoneInv
<1>5. RefsAccounted
  <2>1. ASSUME NEW m \in Mods
        PROVE  Holders(m) = {}
    BY DEF Holders, Held, Slots, Init
  <2>2. ASSUME NEW m \in Mods
        PROVE  mref[m] = 0 /\ leaked[m] = 0 /\ mstate[m] = "absent"
    BY Zenon DEF Init
  <2>3. ASSUME NEW m \in Mods
        PROVE  Cardinality(Holders(m)) = 0
    BY <2>1, FS_EmptySet, Zenon
  <2> QED
    BY ONLY <2>2, <2>3, SMTT(60) DEF RefsAccounted
<1> QED
  BY <1>1, <1>2, <1>3, <1>4, <1>5, Zenon DEF IInv

(* Every step preserves it.                                                *)
LEMMA StepIInv == IInv /\ [Next]_vars => IInv'
<1> SUFFICES ASSUME IInv, [Next]_vars
             PROVE  IInv'
  BY Zenon
<1>1. TypeOK'
  BY TypeStep, Zenon DEF IInv
<1> QED
  BY <1>1, PcStep, RegStep, GoneStep, RefStep, Zenon DEF IInv

(* IInv holds in every reachable state.                                    *)
THEOREM Inductive == Spec => []IInv
BY InitIInv, StepIInv, PTL DEF Spec

(* Every variable keeps its type through every interleaving of the calls   *)
(* of exec_domain.c, fork, exit and the module loader.                     *)
THEOREM TypeCorrect == Spec => []TypeOK
<1>1. IInv => TypeOK
  BY Zenon DEF IInv
<1> QED
  BY <1>1, Inductive, PTL

(* __set_personality(), copy_process() and exit account for every module   *)
(* reference they take and drop, the same-domain return's leak included.   *)
THEOREM RefsExact == Spec => []RefsAccounted
<1>1. IInv => RefsAccounted
  BY Zenon DEF IInv
<1> QED
  BY <1>1, Inductive, PTL

(* The domain a task runs in, installs or releases never lies in a module  *)
(* that is being removed or is gone, for any number of tasks, modules and  *)
(* domains.                                                                *)
THEOREM DomainsPinned == Spec => []DomainsInUsePinned
<1>1. IInv => DomainsInUsePinned
  <2> SUFFICES ASSUME IInv, NEW t \in Tasks
               PROVE  /\ Pinned(exec_domain[t])
                      /\ ep[t] # NoDomain => Pinned(ep[t])
                      /\ oep[t] # NoDomain => Pinned(oep[t])
    BY Zenon DEF DomainsInUsePinned
  <2>1. \A k \in Slots : Held(t, k) \in Domains =>
           mstate[ModOf[Held(t, k)]] \in {"coming", "live"}
    BY HolderPins, Zenon DEF IInv
  <2>2. /\ exec_domain[t] \in AllDomains
        /\ ep[t] \in AllDomains \cup {NoDomain} /\ oep[t] \in AllDomains \cup {NoDomain}
    BY Zenon DEF IInv, TypeOK
  <2> QED
    BY <2>1, <2>2, HeldSlots, ConstantFacts DEF Pinned, Slots
<1> QED
  BY <1>1, Inductive, PTL

(* The list lookup_exec_domain() walks only holds domains of modules still *)
(* in memory, each once, and it ends with the default domain.              *)
THEOREM RegistryIsSound == Spec => []RegistrySound
<1>1. IInv => RegistrySound
  <2> SUFFICES ASSUME IInv
               PROVE  RegistrySound
    BY Zenon
  <2>1. exec_domains \in Seq(AllDomains) /\ DOMAIN exec_domains = 1 .. Len(exec_domains)
    BY DEF IInv, TypeOK
  <2>2. ASSUME NEW i \in 1 .. Len(exec_domains), exec_domains[i] # Default
        PROVE  mstate[ModOf[exec_domains[i]]] # "absent"
    <3>1. exec_domains[i] \in Domains /\ Listed(exec_domains[i])
      BY <2>1, <2>2, ConstantFacts DEF Listed
    <3> QED
      BY <3>1, ListedResident, Zenon DEF IInv
  <2> QED
    BY <2>1, <2>2, SMTT(60) DEF IInv, RegInv, RegistrySound
<1> QED
  BY <1>1, Inductive, PTL

-----------------------------------------------------------------------------
(***************************************************************************)
(* ExecDomain implements DomainService: the switch of a task's domain,     *)
(* with its walk, late probing, counts and the module loader around it, is *)
(* one atomic step of the service, and everything else is invisible.       *)
(***************************************************************************)

(* The domain a task has, or has looked up, serves the personality that    *)
(* goes with it.                                                           *)
ServeOK(t) ==
    /\ ep[t] \in Domains => want[t] \in Serves[ep[t]]
    /\ exec_domain[t] \in Domains => personality[t] \in Serves[exec_domain[t]]

ServeInv == \A t \in Tasks : ServeOK(t)

-----------------------------------------------------------------------------
(* A step of a task leaves the domains of the other tasks alone, and what  *)
(* it looks up or installs serves the personality asked for.               *)
LEMMA ServeStep ==
    ASSUME TypeOK, PcInv, ServeInv, [Next]_vars
    PROVE  ServeInv'
<1> USE ConstantFacts
<1>1. CASE UNCHANGED <<ep, want, exec_domain, personality>>
  BY <1>1, Zenon DEF ServeInv, ServeOK
<1>2. ASSUME NEW m \in Mods, ModStep(m)
      PROVE  ServeInv'
  <2>1. UNCHANGED <<ep, want, exec_domain, personality>>
    BY <1>2, Zenon DEF ModStep, LoadModule, ModuleInit, ModuleInitDone, DeleteModule, ModuleExit,
       FreeModule, taskVars, callVars
  <2> QED
    BY <1>1, <2>1, Zenon
<1>3. ASSUME NEW t \in Tasks, TaskStep(t)
      PROVE  ServeInv'
  <2> USE DEF TypeOK
  <2>1. ASSUME NEW v, NEW p \in Personalities, set_personality(t, v, p)
        PROVE  ServeInv'
    <3>1. /\ want' = [want EXCEPT ![t] = p]
          /\ UNCHANGED <<ep, exec_domain, personality>>
          /\ ep[t] = NoDomain
      BY <2>1, Zenon DEF set_personality, taskVars, PcInv, PcOK
    <3> QED
      BY <3>1 DEF ServeInv, ServeOK
  <2>2. ASSUME WalkFound(t), UNCHANGED <<want, exec_domain, personality>>
        PROVE  ServeInv'
    <3>1. PICK d \in AllDomains : want[t] \in Serves[d] /\ ep' = [ep EXCEPT ![t] = d]
      BY <2>2, WalkFacts, Zenon
    <3> QED
      BY <2>2, <3>1 DEF ServeInv, ServeOK
  <2>3. CASE lookup_scan(t) \/ lookup_rescan(t)
    <3>1. UNCHANGED <<want, exec_domain, personality>>
      BY <2>3, Zenon DEF lookup_scan, lookup_rescan, taskVars
    <3>2. \/ WalkFound(t) \/ UNCHANGED ep
          \/ ep' = [ep EXCEPT ![t] = Default]
      BY <2>3, Zenon DEF lookup_scan, lookup_rescan
    <3>3. CASE ep' = [ep EXCEPT ![t] = Default]
      BY <3>1, <3>3 DEF ServeInv, ServeOK
    <3> QED
      BY <1>1, <2>2, <3>1, <3>2, <3>3, Zenon
  <2>4. CASE set_same_domain(t)
    <3>1. /\ personality' = [personality EXCEPT ![t] = want[t]]
          /\ ep' = [ep EXCEPT ![t] = NoDomain]
          /\ UNCHANGED <<want, exec_domain>>
          /\ ep[t] = exec_domain[t]
      BY <2>4, Zenon DEF set_same_domain
    <3> QED
      BY <3>1 DEF ServeInv, ServeOK
  <2>5. CASE set_copy_fs_fails(t)
    <3>1. /\ ep' = [ep EXCEPT ![t] = NoDomain]
          /\ UNCHANGED <<want, exec_domain, personality>>
      BY <2>5, Zenon DEF set_copy_fs_fails, taskVars
    <3> QED
      BY <3>1 DEF ServeInv, ServeOK
  <2>6. CASE set_commit(t)
    <3>1. /\ personality' = [personality EXCEPT ![t] = want[t]]
          /\ exec_domain' = [exec_domain EXCEPT ![t] = ep[t]]
          /\ ep' = [ep EXCEPT ![t] = NoDomain]
          /\ UNCHANGED want
      BY <2>6, Zenon DEF set_commit
    <3> QED
      BY <3>1 DEF ServeInv, ServeOK
  <2>7. CASE set_return(t)
    <3>1. /\ want' = [want EXCEPT ![t] = PerLinux]
          /\ UNCHANGED <<ep, exec_domain, personality>>
          /\ ep[t] = NoDomain
      BY <2>7, Zenon DEF set_return, taskVars, PcInv, PcOK
    <3> QED
      BY <3>1, Zenon DEF ServeInv, ServeOK
  <2>8. CASE fork_done(t)
    <3>1. PICK u \in Tasks :
            /\ personality' = [personality EXCEPT ![u] = personality[t]]
            /\ exec_domain' = [exec_domain EXCEPT ![u] = exec_domain[t]]
      BY <2>8, Zenon DEF fork_done
    <3>2. UNCHANGED <<want, ep>>
      BY <2>8, Zenon DEF fork_done
    <3> QED
      BY <3>1, <3>2 DEF ServeInv, ServeOK
  <2>9. CASE Exit(t)
    <3>1. /\ personality' = [personality EXCEPT ![t] = PerLinux]
          /\ exec_domain' = [exec_domain EXCEPT ![t] = Default]
          /\ UNCHANGED <<want, ep>>
      BY <2>9, Zenon DEF Exit
    <3> QED
      BY <3>1, Zenon DEF ServeInv, ServeOK
  <2>10. CASE \/ set_check_fs(t) \/ set_copy_fs(t) \/ set_put_fs(t) \/ set_put_old(t)
              \/ SurviveSegv(t) \/ fork_pin(t) \/ fork_fails(t)
    <3>1. UNCHANGED <<ep, want, exec_domain, personality>>
      BY <2>10, Zenon DEF set_check_fs, set_copy_fs, set_put_fs, set_put_old, SurviveSegv, fork_pin,
         fork_fails, taskVars
    <3> QED
      BY <1>1, <3>1, Zenon
  <2> QED
    BY <1>3, <2>1, <2>3, <2>4, <2>5, <2>6, <2>7, <2>8, <2>9, <2>10, ConstantsAssumption, Zenon
       DEF TaskStep, SetStep, Exec, sys_personality, lcall_autodetect_handler
<1> QED
  BY <1>1, <1>2, <1>3, Zenon DEF Next, vars

(* A task outside the default domain runs in one that serves its           *)
(* personality: __set_personality() installs the two together, and nothing *)
(* else than fork and exit touches either.                                 *)
THEOREM DomainServes == Spec => []DomainServesPersonality
<1>1. Init => ServeInv
  BY ConstantFacts DEF Init, ServeInv, ServeOK
<1>2. IInv /\ ServeInv /\ [Next]_vars => ServeInv'
  BY ServeStep, Zenon DEF IInv
<1>3. IInv /\ ServeInv => DomainServesPersonality
  BY ConstantFacts, Zenon DEF ServeInv, ServeOK, DomainServesPersonality, IInv, TypeOK
<1> QED
  BY <1>1, <1>2, <1>3, Inductive, PTL DEF Spec
-----------------------------------------------------------------------------
(* The refinement.                                                         *)

(* The modules whose domains the service offers.                           *)
Usable == {m \in Mods : mstate[m] \in {"coming", "live"}}

(* A step that changes neither the tasks' domains and personalities nor    *)
(* which modules are usable is invisible.                                  *)
LEMMA Stutter ==
    ASSUME UNCHANGED <<exec_domain, personality>>, Usable' = Usable
    PROVE  UNCHANGED Service!vars
BY Zenon DEF Service!vars, Usable

(* The module loader: a module becomes usable before its init function     *)
(* runs, and stops being so when delete_module() finds no reference left.  *)
LEMMA ModuleRefines ==
    ASSUME IInv, NEW m \in Mods, ModStep(m)
    PROVE  [Service!Next]_Service!vars
<1> USE ConstantFacts
<1>1. UNCHANGED <<exec_domain, personality>>
  BY Zenon DEF ModStep, LoadModule, ModuleInit, ModuleInitDone, DeleteModule, ModuleExit,
     FreeModule, taskVars
<1>2. mstate \in [Mods -> MStates]
  BY Zenon DEF IInv, TypeOK
<1>3. CASE LoadModule(m)
  <2>1. mstate[m] = "absent" /\ mstate' = [mstate EXCEPT ![m] = "coming"]
    BY <1>3, Zenon DEF LoadModule
  <2>2. m \notin Usable /\ Usable' = Usable \cup {m}
    BY <1>2, <2>1, Zenon DEF Usable
  <2>3. Service!Offer(m)
    BY <1>1, <2>2, Zenon DEF Service!Offer, Usable
  <2> QED
    BY <2>3, Zenon DEF Service!Next
<1>4. CASE DeleteModule(m)
  <2>1. mstate[m] = "live" /\ mstate' = [mstate EXCEPT ![m] = "going"] /\ mref[m] = 0
    BY <1>4, Zenon DEF DeleteModule
  <2>2. m \in Usable /\ Usable' = Usable \ {m}
    BY <1>2, <2>1, Zenon DEF Usable
  <2>3. ASSUME NEW t \in Tasks, exec_domain[t] # Default
        PROVE  ModOf[exec_domain[t]] # m
    <3>1. exec_domain[t] \in Domains
      BY <2>3, Zenon DEF IInv, TypeOK
    <3>2. Held(t, "current") = exec_domain[t] /\ "current" \in Slots
      BY HeldSlots, Zenon DEF Slots
    <3>3. ASSUME ModOf[exec_domain[t]] = m
          PROVE  FALSE
      <4>1. <<t, "current">> \in Holders(m)
        BY <3>1, <3>2, <3>3, Zenon DEF Holders
      <4>2. IsFiniteSet(Holders(m)) /\ Cardinality(Holders(m)) \in Nat
        <5>1. Holders(m) \subseteq Tasks \X Slots
          BY Zenon DEF Holders
        <5> QED
          BY ONLY <5>1, SlotsFinite, FS_Subset, FS_CardinalityType, Zenon
      <4>3. Cardinality(Holders(m)) # 0
        BY <4>1, <4>2, FS_EmptySet, Zenon
      <4>4. mref[m] = Cardinality(Holders(m)) + leaked[m] /\ leaked[m] \in Nat
        <5>1. leaked[m] \in Nat
          BY Zenon DEF IInv, TypeOK
        <5>2. mref[m] = Cardinality(Holders(m)) + leaked[m] + 0
          BY <2>1, Zenon DEF IInv, RefsAccounted
        <5> QED
          BY ONLY <4>2, <5>1, <5>2, SMTT(60)
      <4> QED
        BY <2>1, <4>2, <4>3, <4>4
    <3> QED
      BY <3>3, Zenon
  <2>4. Service!Withdraw(m)
    BY <1>1, <2>2, <2>3, Zenon DEF Service!Withdraw, Usable
  <2> QED
    BY <2>4, Zenon DEF Service!Next
<1>5. CASE ModuleInit(m)
  <2>1. UNCHANGED mstate
    BY <1>5, InitFacts, Zenon DEF IInv
  <2> QED
    BY <1>1, <2>1, Stutter, Zenon DEF Usable
<1>6. CASE ModuleInitDone(m) \/ ModuleExit(m) \/ FreeModule(m)
  <2>1. Usable' = Usable
    BY <1>2, <1>6, Zenon DEF ModuleInitDone, ModuleExit, FreeModule, Usable
  <2> QED
    BY <1>1, <2>1, Stutter, Zenon
<1> QED
  BY <1>3, <1>4, <1>5, <1>6, Zenon DEF ModStep

(* Tasks: set_commit() and set_same_domain() are the switch, fork hands    *)
(* both values on, and exit leaves the slot to the next task.              *)
LEMMA TaskRefines ==
    ASSUME IInv, ServeInv, DomainsInUsePinned, NEW t \in Tasks, TaskStep(t)
    PROVE  [Service!Next]_Service!vars
<1> USE ConstantFacts
<1>1. UNCHANGED mstate
  BY Zenon DEF TaskStep, SetStep, Exec, sys_personality, lcall_autodetect_handler, set_personality,
     lookup_scan, lookup_rescan, set_same_domain, set_check_fs, set_copy_fs,
     set_copy_fs_fails, set_put_fs, set_commit, set_put_old, set_return, SurviveSegv,
     fork_pin, fork_done, fork_fails, Exit, modVars
<1>2. /\ exec_domain[t] \in AllDomains /\ want[t] \in Personalities
      /\ ep[t] # NoDomain => ep[t] \in AllDomains
  BY Zenon DEF IInv, TypeOK
<1>3. ASSUME NEW d \in AllDomains, NEW p \in Personalities, Pinned(d),
             d \in Domains => p \in Serves[d],
             exec_domain' = [exec_domain EXCEPT ![t] = d],
             personality' = [personality EXCEPT ![t] = p]
      PROVE  Service!Next
  <2>1. Service!Switch(t, d, p)
    BY <1>1, <1>3, Zenon DEF Service!Switch, Service!Available, Pinned
  <2> QED
    BY <1>3, <2>1, Zenon DEF Service!Next
<1>4. CASE set_same_domain(t)
  <2>1. /\ personality' = [personality EXCEPT ![t] = want[t]]
        /\ exec_domain' = [exec_domain EXCEPT ![t] = exec_domain[t]]
        /\ ep[t] = exec_domain[t]
    BY <1>4, Zenon DEF set_same_domain, IInv, TypeOK
  <2>2. Pinned(exec_domain[t]) /\ (exec_domain[t] \in Domains => want[t] \in Serves[exec_domain[t]])
    BY <2>1, Zenon DEF DomainsInUsePinned, ServeInv, ServeOK
  <2> QED
    BY <1>2, <1>3, <2>1, <2>2, Zenon
<1>5. CASE set_commit(t)
  <2>1. /\ personality' = [personality EXCEPT ![t] = want[t]]
        /\ exec_domain' = [exec_domain EXCEPT ![t] = ep[t]]
        /\ ep[t] # NoDomain
    BY <1>5, Zenon DEF set_commit, IInv, PcInv, PcOK
  <2>2. Pinned(ep[t]) /\ (ep[t] \in Domains => want[t] \in Serves[ep[t]])
    BY <2>1, Zenon DEF DomainsInUsePinned, ServeInv, ServeOK
  <2> QED
    BY <1>2, <1>3, <2>1, <2>2, Zenon
<1>6. CASE Exit(t)
  <2>1. /\ personality' = [personality EXCEPT ![t] = PerLinux]
        /\ exec_domain' = [exec_domain EXCEPT ![t] = Default]
    BY <1>6, Zenon DEF Exit
  <2> QED
    BY <1>3, <2>1, Zenon DEF Pinned
<1>7. CASE fork_done(t)
  <2>1. PICK u \in Tasks :
          /\ personality' = [personality EXCEPT ![u] = personality[t]]
          /\ exec_domain' = [exec_domain EXCEPT ![u] = exec_domain[t]]
    BY <1>7, Zenon DEF fork_done
  <2>2. Service!Inherit(u, t)
    BY <1>1, <2>1, Zenon DEF Service!Inherit
  <2> QED
    BY <2>2, Zenon DEF Service!Next
<1>8. CASE \/ \E v, p : set_personality(t, v, p)
           \/ lookup_scan(t) \/ lookup_rescan(t) \/ set_check_fs(t) \/ set_copy_fs(t)
           \/ set_copy_fs_fails(t) \/ set_put_fs(t) \/ set_put_old(t) \/ set_return(t)
           \/ SurviveSegv(t) \/ fork_pin(t) \/ fork_fails(t)
  <2>1. UNCHANGED <<exec_domain, personality>>
    BY <1>8, Zenon DEF set_personality, lookup_scan, lookup_rescan, set_check_fs, set_copy_fs,
       set_copy_fs_fails, set_put_fs, set_put_old, set_return, SurviveSegv, fork_pin,
       fork_fails, taskVars
  <2> QED
    BY <1>1, <2>1, Stutter, Zenon DEF Usable
<1> QED
  BY <1>4, <1>5, <1>6, <1>7, <1>8, Zenon
     DEF TaskStep, SetStep, Exec, sys_personality, lcall_autodetect_handler

(* Whatever exec_domain.c, fork, exit and the module loader do, their      *)
(* users see the atomic switches of DomainService: no task ever has a      *)
(* domain that may not be called through, and a module in use stays.       *)
THEOREM Refines == Spec => ImplementsService
<1>1. Init => Service!Init
  BY DEF Init, Service!Init
<1>2. IInv /\ ServeInv /\ DomainsInUsePinned /\ [Next]_vars => [Service!Next]_Service!vars
  <2> SUFFICES ASSUME IInv, ServeInv, DomainsInUsePinned, [Next]_vars
               PROVE  [Service!Next]_Service!vars
    BY Zenon
  <2>1. CASE UNCHANGED vars
    BY <2>1, Zenon DEF vars, Service!vars
  <2> QED
    BY <2>1, ModuleRefines, TaskRefines, Zenon DEF Next
<1>3. Init => ServeInv
  BY ConstantFacts DEF Init, ServeInv, ServeOK
<1>4. IInv /\ ServeInv /\ [Next]_vars => ServeInv'
  BY ServeStep, Zenon DEF IInv
<1>5. QED
  BY <1>1, <1>2, <1>3, <1>4, Inductive, DomainsPinned, PTL
     DEF Spec, ImplementsService, Service!Spec
=============================================================================
