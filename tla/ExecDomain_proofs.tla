------------------------- MODULE ExecDomain_proofs --------------------------
(***************************************************************************)
(* Proofs about ExecDomain for every set of tasks, modules, domains and    *)
(* personalities: the invariants of the tasks and of the registry, the     *)
(* lemmas about the operators of the model and the registry, the types,    *)
(* and that every step keeps the reference counts exact.                   *)
(***************************************************************************)
EXTENDS ExecDomain, FiniteSetTheorems, SequenceTheorems, TLAPS

(* Where a task is determines which domains it holds besides its own.      *)
PcOK(t) ==
    /\ t \in alive <=> pc[t] # "dead"
    /\ t \notin alive => exec_domain[t] = Default
    /\ ep[t] # NoDomain <=> pc[t] \in {"compare", "copyfs", "putfs", "commit"}
    /\ oep[t] # NoDomain <=> pc[t] = "putold"
    /\ t \in alive => fs[t] \in Fs
    /\ t \notin alive => fs[t] = NoFs
    /\ ofsp[t] # NoFs <=> pc[t] = "putfs"

PcInv == \A t \in Tasks : PcOK(t)

(* The list against the progress of the modules' init and exit functions.  *)
Listed(d) == \E i \in 1 .. Len(exec_domains) : exec_domains[i] = d

RegInv ==
    /\ Len(exec_domains) > 0 /\ exec_domains[Len(exec_domains)] = Default
    /\ \A i, j \in 1 .. Len(exec_domains) : exec_domains[i] = exec_domains[j] => i = j
    /\ \A m \in Mods :
          /\ nreg[m] <= Len(DomainsOf[m])
          /\ mstate[m] = "absent" => nreg[m] = 0
          /\ \A i \in 1 .. Len(DomainsOf[m]) : Listed(DomainsOf[m][i]) => i <= nreg[m]

-----------------------------------------------------------------------------
(* Sequences and finite sets.                                              *)

(* Removing the element at position i of a sequence.                       *)
LEMMA WithoutFacts ==
    ASSUME NEW S, NEW s \in Seq(S), NEW i \in 1 .. Len(s)
    PROVE  /\ Without(s, i) \in Seq(S)
           /\ Len(Without(s, i)) = Len(s) - 1
           /\ \A a \in 1 .. Len(s) - 1 :
                 Without(s, i)[a] = IF a < i THEN s[a] ELSE s[a + 1]
<1> DEFINE p == SubSeq(s, 1, i - 1)
           q == SubSeq(s, i + 1, Len(s))
<1>1. p \in Seq(S) /\ Len(p) = i - 1 /\ \A a \in 1 .. i - 1 : p[a] = s[a]
  BY SubSeqProperties
<1>2. q \in Seq(S) /\ Len(q) = Len(s) - i /\ \A a \in 1 .. Len(s) - i : q[a] = s[i + a]
  BY SubSeqProperties
<1>3. Without(s, i) = p \o q
  BY Zenon DEF Without
<1> HIDE DEF p, q
<1>4. /\ p \o q \in Seq(S) /\ Len(p \o q) = Len(p) + Len(q)
      /\ \A a \in 1 .. Len(p) + Len(q) :
            (p \o q)[a] = IF a <= Len(p) THEN p[a] ELSE q[a - Len(p)]
  BY ONLY <1>1, <1>2, ConcatProperties, Zenon
<1>5. Len(s) \in Nat
  OBVIOUS
<1>6. ASSUME NEW a \in 1 .. Len(s) - 1
      PROVE  (p \o q)[a] = IF a < i THEN s[a] ELSE s[a + 1]
  <2>1. CASE a < i
    BY <1>1, <1>2, <1>4, <1>5, <2>1
  <2>2. CASE ~(a < i)
    <3>1. a - Len(p) \in 1 .. Len(s) - i /\ i + (a - Len(p)) = a + 1
      BY <1>1, <1>5, <2>2
    <3>2. (p \o q)[a] = q[a - Len(p)]
      BY <1>1, <1>2, <1>4, <1>5, <2>2
    <3> QED
      BY <1>2, <2>2, <3>1, <3>2, Zenon
  <2> QED
    BY <2>1, <2>2, Zenon
<1> QED
  BY <1>1, <1>2, <1>3, <1>4, <1>5, <1>6

-----------------------------------------------------------------------------
(* The type invariant and PcInv.                                           *)

(* The assumptions on the constants the steps below use.                   *)
LEMMA ConstantFacts ==
    /\ Default \in AllDomains /\ Default \notin Domains /\ NoDomain \notin AllDomains
    /\ AllDomains = Domains \cup {Default}
    /\ NoFs \notin Fs /\ PerLinux \in Personalities
    /\ ModOf \in [Domains -> Mods]
BY ConstantsAssumption, DomainsOfAssumption, Zenon DEF AllDomains

(* The domains and fs_structs a task in the middle of a call has.          *)
LEMMA PcFacts ==
    ASSUME TypeOK, PcInv, NEW t \in Tasks
    PROVE  /\ pc[t] \in {"compare", "copyfs", "putfs", "commit"} => ep[t] \in AllDomains
           /\ pc[t] = "putold" => oep[t] \in AllDomains
           /\ pc[t] # "dead" => fs[t] \in Fs
           /\ pc[t] = "putfs" => ofsp[t] \in Fs
BY Zenon DEF TypeOK, PcInv, PcOK

(* Whether a reference to d counts for module m.                           *)
In(d, m) == IF d \in Domains /\ ModOf[d] = m THEN 1 ELSE 0

(* What try_module_get() and module_put() do to the counts.                *)
LEMMA GotPut ==
    ASSUME mref \in [Mods -> Int], NEW d \in AllDomains
    PROVE  /\ Got(d) \in [Mods -> Int] /\ Put(d) \in [Mods -> Int]
           /\ \A m \in Mods : Got(d)[m] = mref[m] + In(d, m)
           /\ \A m \in Mods : Put(d)[m] = mref[m] - In(d, m)
BY ConstantFacts DEF Got, Put, In

(* What a walk that finds a domain returns.                                *)
LEMMA WalkFacts ==
    ASSUME TypeOK, NEW t \in Tasks, WalkFound(t)
    PROVE  \E d \in AllDomains :
              /\ \E i \in 1 .. Len(exec_domains) : exec_domains[i] = d
              /\ want[t] \in Serves[d] /\ try_module_get(d)
              /\ ep' = [ep EXCEPT ![t] = d] /\ mref' = Got(d)
              /\ pc' = [pc EXCEPT ![t] = "compare"]
<1>1. PICK i \in Hits(want[t]) :
          /\ ep' = [ep EXCEPT ![t] = exec_domains[i]]
          /\ mref' = Got(exec_domains[i])
          /\ Goto(t, "compare")
  BY Zenon DEF WalkFound
<1>2. i \in 1 .. Len(exec_domains) /\ exec_domains[i] \in AllDomains
  BY <1>1 DEF Hits, TypeOK
<1>3. want[t] \in Serves[exec_domains[i]] /\ try_module_get(exec_domains[i])
  BY <1>1, Zenon DEF Hits
<1> QED
  BY <1>1, <1>2, <1>3, Zenon DEF Goto

(* The list after an init function registered a domain: the registration   *)
(* never finds the domain already there.                                   *)
NextDomain(m) == DomainsOf[m][nreg[m] + 1]
(* What register_exec_domain() does to the list.                           *)
LEMMA InitFacts ==
    ASSUME TypeOK, RegInv, NEW m \in Mods, ModuleInit(m)
    PROVE  /\ NextDomain(m) \in Domains /\ ModOf[NextDomain(m)] = m
           /\ ~Listed(NextDomain(m))
           /\ nreg[m] + 1 \in 1 .. Len(DomainsOf[m])
           /\ nreg' = [nreg EXCEPT ![m] = nreg[m] + 1]
           /\ UNCHANGED <<mstate, mref>>
           /\ exec_domains' \in Seq(AllDomains)
           /\ Len(exec_domains') = Len(exec_domains) + 1
           /\ \A i \in 1 .. Len(exec_domains) + 1 :
                 exec_domains'[i] = IF i = 1 THEN NextDomain(m) ELSE exec_domains[i - 1]
<1> DEFINE d == NextDomain(m)
<1>1. nreg[m] \in Nat /\ Len(DomainsOf[m]) \in Nat /\ nreg[m] < Len(DomainsOf[m])
      /\ DomainsOf[m] \in Seq(Domains)
  BY DomainsOfAssumption DEF ModuleInit, TypeOK
<1>2. nreg[m] + 1 \in 1 .. Len(DomainsOf[m])
  BY <1>1
<1>3. d \in Domains
  BY <1>1, <1>2 DEF NextDomain
<1>4. ModOf[d] = m
  BY <1>2, DomainsOfAssumption, Zenon DEF NextDomain
<1>5. ~Listed(d)
  BY <1>1, <1>2 DEF RegInv, NextDomain
<1>6. register_exec_domain(d) = [err |-> FALSE, list |-> <<d>> \o exec_domains]
  BY <1>5 DEF register_exec_domain, Listed, TypeOK
<1>7. /\ exec_domains' = <<d>> \o exec_domains
      /\ nreg' = [nreg EXCEPT ![m] = nreg[m] + 1]
      /\ UNCHANGED <<mstate, mref>>
  BY <1>6 DEF ModuleInit, NextDomain
<1> HIDE DEF d
<1>8. <<d>> \in Seq(AllDomains) /\ Len(<<d>>) = 1 /\ <<d>>[1] = d
  BY <1>3, ConstantFacts
<1>9. exec_domains \in Seq(AllDomains) /\ Len(exec_domains) \in Nat
  BY DEF TypeOK
<1>10. /\ <<d>> \o exec_domains \in Seq(AllDomains)
       /\ Len(<<d>> \o exec_domains) = Len(<<d>>) + Len(exec_domains)
       /\ \A i \in 1 .. Len(<<d>>) + Len(exec_domains) : (<<d>> \o exec_domains)[i] =
             IF i <= Len(<<d>>) THEN <<d>>[i] ELSE exec_domains[i - Len(<<d>>)]
  BY <1>8, <1>9, ConcatProperties, Zenon
<1>11. ASSUME NEW i \in 1 .. Len(exec_domains) + 1
       PROVE  exec_domains'[i] = IF i = 1 THEN d ELSE exec_domains[i - 1]
  BY <1>7, <1>8, <1>9, <1>10
<1>12. exec_domains' \in Seq(AllDomains) /\ Len(exec_domains') = Len(exec_domains) + 1
  BY <1>7, <1>8, <1>9, <1>10
<1> QED
  BY <1>2, <1>3, <1>4, <1>5, <1>7, <1>11, <1>12, Zenon DEF d

(* The list after an exit function unregistered a domain.                  *)
LastDomain(m) == DomainsOf[m][nreg[m]]
(* What unregister_exec_domain() does to the list.                         *)
LEMMA ExitFacts ==
    ASSUME TypeOK, RegInv, NEW m \in Mods, ModuleExit(m)
    PROVE  /\ exec_domains' \in Seq(AllDomains)
           /\ Len(exec_domains') > 0 /\ exec_domains'[Len(exec_domains')] = Default
           /\ \A i, j \in 1 .. Len(exec_domains') :
                 exec_domains'[i] = exec_domains'[j] => i = j
           /\ \A i \in 1 .. Len(exec_domains') :
                 exec_domains'[i] # LastDomain(m) /\ Listed(exec_domains'[i])
<1> DEFINE d == LastDomain(m)
           I == {i \in 1 .. Len(exec_domains) : exec_domains[i] = d}
<1>1. /\ exec_domains \in Seq(AllDomains) /\ Len(exec_domains) \in Nat
      /\ DOMAIN exec_domains = 1 .. Len(exec_domains)
      /\ Len(exec_domains) > 0 /\ exec_domains[Len(exec_domains)] = Default
      /\ \A i, j \in 1 .. Len(exec_domains) : exec_domains[i] = exec_domains[j] => i = j
  BY DEF TypeOK, RegInv
<1>5. d # Default
  <2>1. nreg[m] \in Nat /\ nreg[m] > 0 /\ nreg[m] <= Len(DomainsOf[m])
    BY Zenon DEF ModuleExit, TypeOK, RegInv
  <2>2. DomainsOf[m] \in Seq(Domains) /\ Len(DomainsOf[m]) \in Nat
    BY DomainsOfAssumption
  <2> QED
    BY <2>1, <2>2, ConstantFacts DEF LastDomain
<1>2. exec_domains' = IF I = {} THEN exec_domains ELSE Without(exec_domains, CHOOSE i \in I : \A j \in I : i <= j)
  BY <1>1 DEF ModuleExit, unregister_exec_domain, LastDomain
<1>3. CASE I = {}
  BY <1>1, <1>2, <1>3, Zenon DEF Listed
<1>4. CASE I # {}
  <2>1. PICK k \in I : TRUE
    BY <1>4, Zenon
  <2>2. I = {k}
    BY <1>1, <2>1, Zenon
  <2>3. (CHOOSE i \in {k} : \A j \in {k} : i <= j) = k
    BY <2>1
  <2>4. exec_domains' = Without(exec_domains, k)
    BY <1>2, <2>2, <2>3, Zenon
  <2>5. k \in 1 .. Len(exec_domains) /\ exec_domains[k] = d
    BY <2>1, Zenon
  <2> HIDE DEF d, I
  <2>6. /\ exec_domains' \in Seq(AllDomains)
        /\ Len(exec_domains') = Len(exec_domains) - 1
        /\ \A a \in 1 .. Len(exec_domains) - 1 :
              exec_domains'[a] = IF a < k THEN exec_domains[a] ELSE exec_domains[a + 1]
    BY <1>1, <2>4, <2>5, WithoutFacts, Zenon
  <2>11. Len(exec_domains') > 0 /\ exec_domains'[Len(exec_domains')] = Default
    <3>1. k < Len(exec_domains)
      BY <1>1, <1>5, <2>5
    <3>2. Len(exec_domains') \in 1 .. Len(exec_domains) - 1
      BY <1>1, <2>5, <2>6, <3>1
    <3> QED
      BY <1>1, <2>5, <2>6, <3>1, <3>2
  <2> DEFINE at(a) == IF a < k THEN a ELSE a + 1
  <2>7. \A a \in 1 .. Len(exec_domains') :
           /\ at(a) \in 1 .. Len(exec_domains) /\ at(a) # k
           /\ exec_domains'[a] = exec_domains[at(a)]
    BY <1>1, <2>5, <2>6
  <2>8. \A a, b \in 1 .. Len(exec_domains') : at(a) = at(b) => a = b
    BY <1>1, <2>5, <2>6
  <2> HIDE DEF at
  <2>9. \A a, b \in 1 .. Len(exec_domains') : exec_domains'[a] = exec_domains'[b] => a = b
    BY <1>1, <2>7, <2>8, Zenon
  <2>10. \A a \in 1 .. Len(exec_domains') : exec_domains'[a] # d /\ Listed(exec_domains'[a])
    BY <1>1, <2>5, <2>7, Zenon DEF Listed
  <2> QED
    BY <2>6, <2>9, <2>10, <2>11, Zenon DEF d
<1> QED
  BY <1>3, <1>4, Zenon

-----------------------------------------------------------------------------
(* The registry.                                                           *)

(* A listed domain's module is in memory.                                  *)
LEMMA ListedResident ==
    ASSUME TypeOK, RegInv, NEW d \in Domains, Listed(d)
    PROVE  mstate[ModOf[d]] # "absent"
<1>1. PICK i \in 1 .. Len(DomainsOf[ModOf[d]]) : DomainsOf[ModOf[d]][i] = d
  BY DomainsOfAssumption, Zenon
<1>2. ModOf[d] \in Mods
  BY DomainsOfAssumption, Zenon
<1>3. i <= nreg[ModOf[d]] /\ i >= 1
  BY <1>1, <1>2 DEF RegInv
<1> QED
  BY <1>2, <1>3, SMTT(60) DEF RegInv

(* Registration and unregistration keep the list in step with nreg.        *)
LEMMA RegStep ==
    ASSUME TypeOK, RegInv, [Next]_vars
    PROVE  RegInv'
<1> USE ConstantFacts DEF TypeOK
<1>1. CASE UNCHANGED modVars
  BY <1>1, Zenon DEF RegInv, Listed, modVars
<1>2. ASSUME NEW m \in Mods, ModStep(m)
      PROVE  RegInv'
  <2>1. CASE LoadModule(m)
    BY <2>1, Zenon DEF LoadModule, RegInv, Listed
  <2>2. CASE ModuleInit(m)
    <3> HIDE DEF TypeOK
    <3> DEFINE d == NextDomain(m)
    <3>1. /\ d \in Domains /\ ModOf[d] = m /\ ~Listed(d)
          /\ nreg[m] + 1 \in 1 .. Len(DomainsOf[m])
          /\ nreg' = [nreg EXCEPT ![m] = nreg[m] + 1]
          /\ UNCHANGED <<mstate, mref>>
          /\ Len(exec_domains') = Len(exec_domains) + 1
          /\ \A i \in 1 .. Len(exec_domains) + 1 :
                exec_domains'[i] = IF i = 1 THEN d ELSE exec_domains[i - 1]
      BY <2>2, InitFacts, Zenon
    <3>2. DomainsOf[m][nreg[m] + 1] = d
      BY Zenon DEF NextDomain
    <3>3. Len(exec_domains) \in Nat /\ nreg \in [Mods -> Nat]
      BY DEF TypeOK
    <3> HIDE DEF d
    <3>4. Len(exec_domains') > 0 /\ exec_domains'[Len(exec_domains')] = Default
      BY <3>1, <3>3, SMTT(60) DEF RegInv
    <3>5. ASSUME NEW i \in 1 .. Len(exec_domains'), NEW j \in 1 .. Len(exec_domains'),
                 exec_domains'[i] = exec_domains'[j]
          PROVE  i = j
      BY <3>1, <3>3, <3>5, SMTT(60) DEF RegInv, Listed
    <3>6. \A e : Listed(e)' => Listed(e) \/ e = d
      BY <3>1, <3>3 DEF Listed
    <3>7. ASSUME NEW n \in Mods
          PROVE  /\ nreg'[n] <= Len(DomainsOf[n])
                 /\ mstate'[n] = "absent" => nreg'[n] = 0
      BY <2>2, <3>1, <3>3, SMTT(60) DEF RegInv, ModuleInit
    <3>8. ASSUME NEW n \in Mods, NEW i \in 1 .. Len(DomainsOf[n]),
                 Listed(DomainsOf[n][i])'
          PROVE  i <= nreg'[n]
      <4>1. CASE Listed(DomainsOf[n][i])
        <5>1. i <= nreg[n]
          BY <4>1, Zenon DEF RegInv
        <5> QED
          BY <3>1, <3>3, <5>1, SMTT(60)
      <4>2. CASE DomainsOf[n][i] = d
        <5>1. n = m
          BY <3>1, <4>2, DomainsOfAssumption, Zenon
        <5>2. \A a, b \in 1 .. Len(DomainsOf[m]) : DomainsOf[m][a] = DomainsOf[m][b] => a = b
          BY DomainsOfAssumption
        <5>3. i = nreg[m] + 1
          BY <3>1, <3>2, <4>2, <5>1, <5>2, SMTT(60)
        <5> QED
          BY <3>1, <3>3, <5>1, <5>3, SMTT(60)
      <4> QED
        BY <3>6, <3>8, <4>1, <4>2, Zenon
    <3> QED
      BY <3>4, <3>5, <3>7, <3>8, Zenon DEF RegInv
  <2>3. CASE ModuleInitDone(m)
    BY <2>3, Zenon DEF ModuleInitDone, RegInv, Listed
  <2>4. CASE DeleteModule(m)
    BY <2>4, SMTT(60) DEF DeleteModule, RegInv, Listed
  <2>5. CASE ModuleExit(m)
    <3> HIDE DEF TypeOK
    <3>1. /\ Len(exec_domains') > 0 /\ exec_domains'[Len(exec_domains')] = Default
          /\ \A i, j \in 1 .. Len(exec_domains') :
                exec_domains'[i] = exec_domains'[j] => i = j
          /\ \A i \in 1 .. Len(exec_domains') :
                exec_domains'[i] # LastDomain(m) /\ Listed(exec_domains'[i])
      BY <2>5, ExitFacts, Zenon
    <3>2. /\ nreg \in [Mods -> Nat] /\ nreg[m] > 0 /\ UNCHANGED mstate
          /\ mstate[m] = "going" /\ nreg' = [nreg EXCEPT ![m] = nreg[m] - 1]
      BY <2>5, Zenon DEF ModuleExit, TypeOK
    <3>3. \A e : Listed(e)' => Listed(e) /\ e # LastDomain(m)
      <4>1. \A e : Listed(e)' => \E i \in 1 .. Len(exec_domains') : exec_domains'[i] = e
        BY Zenon DEF Listed
      <4> QED
        BY <3>1, <4>1
    <3>4. ASSUME NEW n \in Mods
          PROVE  /\ nreg'[n] <= Len(DomainsOf[n])
                 /\ mstate'[n] = "absent" => nreg'[n] = 0
      <4>1. Len(DomainsOf[n]) \in Nat
        BY DomainsOfAssumption
      <4> QED
        BY <3>2, <4>1 DEF RegInv
    <3>5. ASSUME NEW n \in Mods, NEW i \in 1 .. Len(DomainsOf[n]),
                 Listed(DomainsOf[n][i])'
          PROVE  i <= nreg'[n]
      <4>1. i <= nreg[n] /\ DomainsOf[n][i] # LastDomain(m)
        BY <3>3, <3>5, Zenon DEF RegInv
      <4> QED
        BY <3>2, <4>1 DEF LastDomain
    <3> QED
      BY <3>1, <3>4, <3>5, Zenon DEF RegInv
  <2>6. CASE FreeModule(m)
    BY <2>6, SMTT(60) DEF FreeModule, RegInv, Listed
  <2> QED
    BY <1>2, <2>1, <2>2, <2>3, <2>4, <2>5, <2>6, Zenon DEF ModStep
<1>3. ASSUME NEW t \in Tasks, TaskStep(t)
      PROVE  UNCHANGED modVars
  <2> HIDE DEF TypeOK
  <2>1. CASE SetStep(t)
    BY <2>1, Zenon DEF SetStep, lookup_scan, lookup_rescan, set_same_domain, set_check_fs,
       set_copy_fs, set_copy_fs_fails, set_put_fs, set_commit, set_put_old, set_return
  <2> QED
    BY <1>3, <2>1, Zenon DEF TaskStep, Exec, sys_personality, lcall_autodetect_handler,
       set_personality, SurviveSegv, fork_pin, fork_done, fork_fails, Exit
<1> QED
  BY <1>1, <1>2, <1>3, Zenon DEF Next, vars, modVars

-----------------------------------------------------------------------------
(***************************************************************************)
(* Every step of ExecDomain keeps the types, and the pointers of a task in *)
(* line with where it is.                                                  *)
(***************************************************************************)

(* Every step keeps the types.                                             *)
LEMMA TypeStep ==
    ASSUME TypeOK, PcInv, RegInv, [Next]_vars
    PROVE  TypeOK'
<1> USE ConstantFacts DEF MStates, Callers, PCs
<1>1. CASE UNCHANGED vars
  BY <1>1, Zenon DEF TypeOK, vars
<1>2. ASSUME NEW m \in Mods, ModStep(m)
      PROVE  TypeOK'
  <2>1. CASE LoadModule(m)
    BY <2>1 DEF LoadModule, TypeOK, taskVars, fsVars, callVars, refVars
  <2>2. CASE ModuleInit(m)
    <3>1. exec_domains' \in Seq(AllDomains) /\ nreg' \in [Mods -> Nat]
          /\ UNCHANGED <<mstate, mref>>
      BY <2>2, InitFacts, SMTT(60) DEF TypeOK
    <3> QED
      BY <2>2, <3>1, Zenon DEF ModuleInit, TypeOK, taskVars, fsVars, callVars
  <2>3. CASE ModuleInitDone(m)
    BY <2>3 DEF ModuleInitDone, TypeOK, taskVars, fsVars, callVars, refVars
  <2>4. CASE DeleteModule(m)
    BY <2>4, Zenon DEF DeleteModule, TypeOK, taskVars, fsVars, callVars, refVars
  <2>5. CASE ModuleExit(m)
    <3>1. exec_domains' \in Seq(AllDomains)
      BY <2>5, ExitFacts, Zenon
    <3> QED
      BY <2>5, <3>1 DEF ModuleExit, TypeOK, refVars, taskVars, fsVars, callVars
  <2>6. CASE FreeModule(m)
    BY <2>6, Zenon DEF FreeModule, TypeOK, taskVars, fsVars, callVars, refVars
  <2> QED
    BY <1>2, <2>1, <2>2, <2>3, <2>4, <2>5, <2>6, Zenon DEF ModStep
<1>3. ASSUME NEW t \in Tasks, TaskStep(t)
      PROVE  TypeOK'
  <2>1. ASSUME NEW v \in Callers, NEW p \in Personalities, set_personality(t, v, p)
        PROVE  TypeOK'
    BY <2>1, Zenon DEF set_personality, TypeOK, modVars, refVars, taskVars, fsVars, Goto
  <2>2. CASE lookup_scan(t)
    <3>1. CASE WalkFound(t)
      <4>1. PICK d \in AllDomains : ep' = [ep EXCEPT ![t] = d] /\ mref' = Got(d)
                                    /\ pc' = [pc EXCEPT ![t] = "compare"]
        BY <3>1, WalkFacts, Zenon
      <4>2. mref' \in [Mods -> Int]
        BY <4>1, GotPut, Zenon DEF TypeOK
      <4> QED
        BY <2>2, <4>1, <4>2, Zenon DEF lookup_scan, TypeOK, modVars, refVars, taskVars, fsVars, Goto
    <3>2. CASE ~WalkFound(t)
      BY <2>2, <3>2, Zenon DEF lookup_scan, TypeOK, modVars, refVars, taskVars, fsVars, Goto
    <3> QED
      BY <3>1, <3>2, Zenon
  <2>3. CASE lookup_rescan(t)
    <3>1. CASE WalkFound(t)
      <4>1. PICK d \in AllDomains : ep' = [ep EXCEPT ![t] = d] /\ mref' = Got(d)
                                    /\ pc' = [pc EXCEPT ![t] = "compare"]
        BY <3>1, WalkFacts, Zenon
      <4>2. mref' \in [Mods -> Int]
        BY <4>1, GotPut, Zenon DEF TypeOK
      <4> QED
        BY <2>3, <4>1, <4>2, Zenon DEF lookup_rescan, TypeOK, modVars, refVars, taskVars, fsVars, Goto
    <3>2. CASE ~WalkFound(t)
      BY <2>3, <3>2, Zenon DEF lookup_rescan, TypeOK, modVars, refVars, taskVars, fsVars, Goto
    <3> QED
      BY <3>1, <3>2, Zenon
  <2>4. CASE set_same_domain(t)
    <3>1. ep[t] \in AllDomains
      BY <2>4, PcFacts, Zenon DEF set_same_domain
    <3>2. leaked' \in [Mods -> Nat]
      BY <2>4, <3>1 DEF set_same_domain, TypeOK
    <3> QED
      BY <2>4, <3>2, Zenon DEF set_same_domain, TypeOK, modVars, refVars, taskVars, fsVars, Goto
  <2>5. CASE set_check_fs(t)
    BY <2>5, Zenon DEF set_check_fs, TypeOK, modVars, refVars, taskVars, fsVars, Goto
  <2>6. CASE set_copy_fs(t)
    <3>1. fs[t] \in Fs
      BY <2>6, PcFacts, Zenon DEF set_copy_fs
    <3> QED
      BY <2>6, <3>1 DEF set_copy_fs, copy_fs_struct, TypeOK, modVars, refVars, taskVars, fsVars, Goto
  <2>7. CASE set_copy_fs_fails(t)
    <3>1. ep[t] \in AllDomains
      BY <2>7, PcFacts, Zenon DEF set_copy_fs_fails
    <3>2. mref' \in [Mods -> Int]
      BY <2>7, <3>1, GotPut, Zenon DEF set_copy_fs_fails, TypeOK
    <3> QED
      BY <2>7, <3>2, Zenon DEF set_copy_fs_fails, TypeOK, modVars, refVars, taskVars, fsVars, Goto
  <2>8. CASE set_put_fs(t)
    <3>1. ofsp[t] \in Fs
      BY <2>8, PcFacts, Zenon DEF set_put_fs
    <3>2. fscount' \in [Fs -> Int] /\ altroot' \in [Fs -> EmulPers \cup {NoAlt}]
      BY <2>8, <3>1 DEF set_put_fs, put_fs_struct, TypeOK
    <3> QED
      BY <2>8, <3>2, Zenon DEF set_put_fs, TypeOK, modVars, refVars, taskVars, fsVars, Goto
  <2>9. CASE set_commit(t)
    <3>1. ep[t] \in AllDomains
      BY <2>9, PcFacts, Zenon DEF set_commit
    <3>2. altroot' \in [Fs -> EmulPers \cup {NoAlt}]
      BY <2>9, Zenon DEF set_commit, set_fs_altroot, TypeOK
    <3> QED
      BY <2>9, <3>1, <3>2, Zenon DEF set_commit, TypeOK, modVars, refVars, taskVars, fsVars, Goto
  <2>10. CASE set_put_old(t)
    <3>1. oep[t] \in AllDomains
      BY <2>10, PcFacts, Zenon DEF set_put_old
    <3>2. mref' \in [Mods -> Int]
      BY <2>10, <3>1, GotPut, Zenon DEF set_put_old, TypeOK
    <3> QED
      BY <2>10, <3>2, Zenon DEF set_put_old, TypeOK, modVars, refVars, taskVars, fsVars, Goto
  <2>11. CASE set_return(t)
    BY <2>11, Zenon DEF set_return, TypeOK, modVars, refVars, taskVars, fsVars, Goto
  <2>12. CASE SurviveSegv(t)
    BY <2>12, Zenon DEF SurviveSegv, TypeOK, modVars, refVars, taskVars, fsVars, Goto
  <2>13. CASE fork_pin(t)
    <3>1. mref' \in [Mods -> Int]
      BY <2>13, GotPut, Zenon DEF fork_pin, TypeOK
    <3> QED
      BY <2>13, <3>1, Zenon DEF fork_pin, TypeOK, modVars, refVars, taskVars, fsVars, Goto
  <2>14. CASE fork_done(t)
    <3>1. fs[t] \in Fs
      BY <2>14, PcFacts, Zenon DEF fork_done
    <3>2. PICK u \in Tasks \ alive : 
            /\ copy_fs(t, u)
            /\ alive' = alive \cup {u}
            /\ personality' = [personality EXCEPT ![u] = personality[t]]
            /\ exec_domain' = [exec_domain EXCEPT ![u] = exec_domain[t]]
            /\ pc' = [pc EXCEPT ![t] = "user", ![u] = "user"]
      BY <2>14, Zenon DEF fork_done
    <3>3. /\ fscount' \in [Fs -> Int] /\ altroot' \in [Fs -> EmulPers \cup {NoAlt}]
          /\ fs' \in [Tasks -> Fs \cup {NoFs}]
      <4>1. CASE fs' = [fs EXCEPT ![u] = fs[t]]
                 /\ fscount' = [fscount EXCEPT ![fs[t]] = @ + 1] /\ UNCHANGED altroot
        BY <3>1, <4>1 DEF TypeOK
      <4>2. ASSUME NEW g \in Fs, copy_fs_struct(fs[t], g), fs' = [fs EXCEPT ![u] = g]
            PROVE  <3>3!:
        BY <3>1, <4>2 DEF copy_fs_struct, TypeOK
      <4> QED
        BY <3>2, <4>1, <4>2, Zenon DEF copy_fs
    <3> QED
      BY <2>14, <3>2, <3>3, Zenon DEF fork_done, TypeOK, modVars, refVars, taskVars, fsVars, Goto
  <2>15. CASE fork_fails(t)
    <3>1. mref' \in [Mods -> Int]
      BY <2>15, GotPut, Zenon DEF fork_fails, TypeOK
    <3> QED
      BY <2>15, <3>1, Zenon DEF fork_fails, TypeOK, modVars, refVars, taskVars, fsVars, Goto
  <2>16. CASE Exit(t)
    <3>1. fs[t] \in Fs
      BY <2>16, PcFacts, Zenon DEF Exit
    <3>2. mref' \in [Mods -> Int]
      BY <2>16, GotPut, Zenon DEF Exit, TypeOK
    <3>3. fscount' \in [Fs -> Int] /\ altroot' \in [Fs -> EmulPers \cup {NoAlt}]
      BY <2>16, <3>1 DEF Exit, put_fs_struct, TypeOK
    <3> QED
      BY <2>16, <3>2, <3>3, Zenon DEF Exit, TypeOK, modVars, refVars, taskVars, fsVars, Goto
  <2> QED
    BY <1>3, <2>1, <2>2, <2>3, <2>4, <2>5, <2>6, <2>7, <2>8, <2>9, <2>10, <2>11, <2>12, <2>13, <2>14, <2>15, <2>16, ConstantsAssumption, Zenon
       DEF TaskStep, SetStep, Exec, sys_personality, lcall_autodetect_handler, Callers
<1> QED
  BY <1>1, <1>2, <1>3, Zenon DEF Next

(* Every step keeps a task's pointers in line with where it is.            *)
LEMMA PcStep ==
    ASSUME TypeOK, PcInv, [Next]_vars
    PROVE  PcInv'
<1> USE ConstantFacts
<1>1. CASE UNCHANGED vars
  BY <1>1, Zenon DEF TypeOK, PcInv, PcOK, vars
<1>2. ASSUME NEW m \in Mods, ModStep(m)
      PROVE  PcInv'
  <2>1. CASE LoadModule(m)
    BY <2>1, Zenon DEF LoadModule, TypeOK, PcInv, PcOK, taskVars, fsVars, callVars, refVars
  <2>2. CASE ModuleInit(m)
    BY <2>2, Zenon DEF ModuleInit, register_exec_domain, TypeOK, PcInv, PcOK, taskVars, fsVars, callVars, refVars
  <2>3. CASE ModuleInitDone(m)
    BY <2>3, Zenon DEF ModuleInitDone, TypeOK, PcInv, PcOK, taskVars, fsVars, callVars, refVars
  <2>4. CASE DeleteModule(m)
    BY <2>4, Zenon DEF DeleteModule, TypeOK, PcInv, PcOK, taskVars, fsVars, callVars, refVars
  <2>5. CASE ModuleExit(m)
    BY <2>5, Zenon DEF ModuleExit, unregister_exec_domain, TypeOK, PcInv, PcOK, taskVars, fsVars, callVars, refVars
  <2>6. CASE FreeModule(m)
    BY <2>6, Zenon DEF FreeModule, TypeOK, PcInv, PcOK, taskVars, fsVars, callVars, refVars
  <2> QED
    BY <1>2, <2>1, <2>2, <2>3, <2>4, <2>5, <2>6, Zenon DEF ModStep
<1>3. ASSUME NEW t \in Tasks, TaskStep(t)
      PROVE  PcInv'
  <2>1. ASSUME NEW v \in Callers, NEW p \in Personalities, set_personality(t, v, p)
        PROVE  PcInv'
    BY <2>1, Zenon DEF set_personality, TypeOK, PcInv, PcOK, modVars, refVars, taskVars, fsVars, Goto
  <2>2. CASE lookup_scan(t)
    <3>1. CASE WalkFound(t)
      <4>1. PICK d \in AllDomains : ep' = [ep EXCEPT ![t] = d]
                                    /\ pc' = [pc EXCEPT ![t] = "compare"]
        BY <3>1, WalkFacts, Zenon
      <4> QED
        BY <2>2, <4>1, Zenon DEF lookup_scan, TypeOK, PcInv, PcOK, modVars, refVars, taskVars, fsVars
    <3>2. CASE ~WalkFound(t)
      BY <2>2, <3>2, SMTT(60) DEF lookup_scan, Goto, TypeOK, PcInv, PcOK, modVars, refVars, taskVars, fsVars
    <3> QED
      BY <3>1, <3>2, Zenon
  <2>3. CASE lookup_rescan(t)
    <3>1. CASE WalkFound(t)
      <4>1. PICK d \in AllDomains : ep' = [ep EXCEPT ![t] = d]
                                    /\ pc' = [pc EXCEPT ![t] = "compare"]
        BY <3>1, WalkFacts, Zenon
      <4> QED
        BY <2>3, <4>1, Zenon DEF lookup_rescan, TypeOK, PcInv, PcOK, modVars, refVars, taskVars, fsVars
    <3>2. CASE ~WalkFound(t)
      <4>1. pc[t] = "request" /\ ep' = [ep EXCEPT ![t] = Default]
            /\ pc' = [pc EXCEPT ![t] = "compare"]
            /\ UNCHANGED <<alive, exec_domain, oep, ofsp, fs>>
        BY <2>3, <3>2, Zenon DEF lookup_rescan, Goto, taskVars, fsVars
      <4> QED
        BY <4>1, Zenon DEF TypeOK, PcInv, PcOK
    <3> QED
      BY <3>1, <3>2, Zenon
  <2>4. CASE set_same_domain(t)
    BY <2>4, Zenon DEF set_same_domain, TypeOK, PcInv, PcOK, modVars, refVars, taskVars, fsVars, Goto
  <2>5. CASE set_check_fs(t)
    BY <2>5, Zenon DEF set_check_fs, TypeOK, PcInv, PcOK, modVars, refVars, taskVars, fsVars, Goto
  <2>6. CASE set_copy_fs(t)
    BY <2>6 DEF set_copy_fs, copy_fs_struct, TypeOK, PcInv, PcOK, modVars, refVars, taskVars, fsVars, Goto
  <2>7. CASE set_copy_fs_fails(t)
    BY <2>7, Zenon DEF set_copy_fs_fails, Put, TypeOK, PcInv, PcOK, modVars, refVars, taskVars, fsVars, Goto
  <2>8. CASE set_put_fs(t)
    BY <2>8, Zenon DEF set_put_fs, put_fs_struct, TypeOK, PcInv, PcOK, modVars, refVars, taskVars, fsVars, Goto
  <2>9. CASE set_commit(t)
    BY <2>9, SMTT(60) DEF set_commit, set_fs_altroot, TypeOK, PcInv, PcOK, modVars, refVars, taskVars, fsVars, Goto
  <2>10. CASE set_put_old(t)
    BY <2>10, Zenon DEF set_put_old, Put, TypeOK, PcInv, PcOK, modVars, refVars, taskVars, fsVars, Goto
  <2>11. CASE set_return(t)
    BY <2>11, Zenon DEF set_return, TypeOK, PcInv, PcOK, modVars, refVars, taskVars, fsVars, Goto
  <2>12. CASE SurviveSegv(t)
    BY <2>12, Zenon DEF SurviveSegv, TypeOK, PcInv, PcOK, modVars, refVars, taskVars, fsVars, Goto
  <2>13. CASE fork_pin(t)
    BY <2>13, Zenon DEF fork_pin, Got, TypeOK, PcInv, PcOK, modVars, refVars, taskVars, fsVars, Goto
  <2>14. CASE fork_done(t)
    <3>1. fs[t] \in Fs
      BY <2>14, PcFacts, Zenon DEF fork_done
    <3>2. PICK u \in Tasks \ alive :
            /\ copy_fs(t, u)
            /\ alive' = alive \cup {u}
            /\ exec_domain' = [exec_domain EXCEPT ![u] = exec_domain[t]]
            /\ pc' = [pc EXCEPT ![t] = "user", ![u] = "user"]
      BY <2>14, Zenon DEF fork_done
    <3>3. \E g \in Fs : fs' = [fs EXCEPT ![u] = g]
      BY <3>1, <3>2, Zenon DEF copy_fs
    <3>4. UNCHANGED <<ep, oep, ofsp>> /\ pc[t] = "fork" /\ pc[u] = "dead"
      BY <2>14, <3>2, Zenon DEF fork_done, PcInv, PcOK
    <3>5. PICK g \in Fs : fs' = [fs EXCEPT ![u] = g]
      BY <3>3, Zenon
    <3>6. ASSUME NEW w \in Tasks
          PROVE  PcOK(w)'
      <4>1. PcOK(w) /\ u # t /\ u \notin alive
        BY <3>2, <3>4, Zenon DEF PcInv
      <4>2. w \in alive' <=> w \in alive \/ w = u
        BY <3>2, Zenon
      <4>3. /\ pc'[w] = IF w \in {t, u} THEN "user" ELSE pc[w]
            /\ exec_domain'[w] = IF w = u THEN exec_domain[t] ELSE exec_domain[w]
            /\ fs'[w] = IF w = u THEN g ELSE fs[w]
        BY <3>2, <3>5, Zenon DEF TypeOK
      <4> QED
        BY <3>1, <3>4, <4>1, <4>2, <4>3, Zenon DEF PcOK
    <3> QED
      BY <3>6, Zenon DEF PcInv
  <2>15. CASE fork_fails(t)
    BY <2>15, Zenon DEF fork_fails, Put, TypeOK, PcInv, PcOK, modVars, refVars, taskVars, fsVars, Goto
  <2>16. CASE Exit(t)
    BY <2>16, SMTT(60) DEF Exit, Put, put_fs_struct, TypeOK, PcInv, PcOK, modVars, refVars, taskVars, fsVars, Goto
  <2> QED
    BY <1>3, <2>1, <2>2, <2>3, <2>4, <2>5, <2>6, <2>7, <2>8, <2>9, <2>10, <2>11, <2>12, <2>13, <2>14, <2>15, <2>16, ConstantsAssumption, Zenon
       DEF TaskStep, SetStep, Exec, sys_personality, lcall_autodetect_handler, Callers
<1> QED
  BY <1>1, <1>2, <1>3, Zenon DEF Next

-----------------------------------------------------------------------------
(***************************************************************************)
(* Counting the references to a module of ExecDomain: what tasks, lookups, *)
(* switches and forks in progress hold, as one finite set, and how it      *)
(* changes with one of them.                                               *)
(***************************************************************************)

(* A module on its way out has no references.                              *)
GoneInv == \A m \in Mods : mstate[m] \in {"going", "absent"} => mref[m] = 0

(* The inductive invariant: the counts are exact only as long as a step    *)
(* never takes a reference to a module on its way out, which the walk      *)
(* ensures because the list and the init and exit functions agree.         *)
IInv == TypeOK /\ PcInv /\ RegInv /\ GoneInv /\ RefsAccounted

-----------------------------------------------------------------------------
(* Finite sets.                                                            *)

(* Adding one element to a finite set.                                     *)
LEMMA AddOne ==
    ASSUME NEW S, IsFiniteSet(S), NEW x, x \notin S
    PROVE  Cardinality(S \cup {x}) = Cardinality(S) + 1
BY FS_AddElement, Zenon

(* Removing one element of a finite set.                                   *)
LEMMA RemoveOne ==
    ASSUME NEW S, IsFiniteSet(S), NEW x \in S
    PROVE  Cardinality(S \ {x}) = Cardinality(S) - 1
BY FS_RemoveElement, Zenon

-----------------------------------------------------------------------------
(* Counting the holders of a module.                                       *)

(* All references the tasks hold, as one function, and who holds m in it.  *)
HeldBy == [h \in Tasks \X Slots |-> Held(h[1], h[2])]
HoldersIn(H, m) == {h \in Tasks \X Slots : H[h] \in Domains /\ ModOf[H[h]] = m}
Count(H, m) == Cardinality(HoldersIn(H, m))

(* There are finitely many slots.                                          *)
LEMMA SlotsFinite == IsFiniteSet(Tasks \X Slots)
<1>1. IsFiniteSet({"current"}) /\ IsFiniteSet({"new"})
      /\ IsFiniteSet({"old"}) /\ IsFiniteSet({"child"})
  BY FS_Singleton, Zenon
<1>2. IsFiniteSet(({"current"} \cup {"new"}) \cup ({"old"} \cup {"child"}))
  BY <1>1, FS_Union, Zenon
<1>3. Slots = ({"current"} \cup {"new"}) \cup ({"old"} \cup {"child"})
  BY Zenon DEF Slots
<1> QED
  BY <1>2, <1>3, ConstantsAssumption, FS_Product, Zenon

(* So there are finitely many holders.                                     *)
LEMMA HoldersFinite ==
    ASSUME NEW H, NEW m
    PROVE  IsFiniteSet(HoldersIn(H, m)) /\ Count(H, m) \in Nat
BY SlotsFinite, FS_Subset, FS_CardinalityType, Zenon DEF HoldersIn, Count

(* G is H with e at x.                                                     *)
Changed(H, G, x, e) == \A h \in Tasks \X Slots : G[h] = IF h = x THEN e ELSE H[h]

(* Changing what one slot holds moves one unit from a module to another.   *)
LEMMA CountExcept ==
    ASSUME NEW H, NEW G, NEW x \in Tasks \X Slots, NEW e, NEW m, Changed(H, G, x, e)
    PROVE  /\ Count(G, m) = (Count(H, m) - In(H[x], m)) + In(e, m)
           /\ In(H[x], m) <= Count(H, m)
<1> DEFINE S == HoldersIn(H, m)
           T == HoldersIn(G, m)
<1>1. IsFiniteSet(S) /\ Cardinality(S) \in Nat /\ IsFiniteSet(S \ {x})
  BY HoldersFinite, FS_RemoveElement, Zenon DEF Count
<1>2. x \in S <=> In(H[x], m) = 1
  BY DEF HoldersIn, In
<1>3. x \in T <=> In(e, m) = 1
  BY DEF HoldersIn, In, Changed
<1>4. T \ {x} = S \ {x}
  BY Zenon DEF HoldersIn, Changed
<1>5. In(H[x], m) \in {0, 1} /\ In(e, m) \in {0, 1}
  BY Zenon DEF In
<1> HIDE DEF S, T
<1> DEFINE R == S \ {x}
<1>6. IsFiniteSet(R) /\ x \notin R /\ Cardinality(R) \in Nat
  BY <1>1, FS_CardinalityType, Zenon
<1>7. (x \notin S => R = S) /\ (x \notin T => R = T) /\ (x \in T => R \cup {x} = T)
  BY <1>4, Zenon
<1>8. x \in S => Cardinality(R) = Cardinality(S) - 1
  BY <1>1, RemoveOne, Zenon
<1> HIDE DEF R
<1>9. Cardinality(R \cup {x}) = Cardinality(R) + 1
  BY <1>6, AddOne, Zenon
<1>10. Cardinality(S) = Cardinality(R) + In(H[x], m)
  BY <1>1, <1>2, <1>5, <1>6, <1>7, <1>8
<1>11. Cardinality(T) = Cardinality(R) + In(e, m)
  <2>1. CASE x \in T
    BY ONLY <1>3, <1>7, <1>9, <2>1, Zenon
  <2>2. CASE x \notin T
    <3>1. In(e, m) = 0 /\ T = R
      BY ONLY <1>3, <1>5, <1>7, <2>2, Zenon
    <3> QED
      BY ONLY <1>6, <3>1
  <2> QED
    BY <2>1, <2>2, Zenon
<1>12. Count(H, m) = Cardinality(S) /\ Count(G, m) = Cardinality(T)
  BY Zenon DEF Count, S, T
<1> QED
  BY <1>1, <1>5, <1>6, <1>10, <1>11, <1>12
-----------------------------------------------------------------------------
(* The reference counts.                                                   *)

(* Counting HeldBy is counting Holders.                                    *)
LEMMA CountIsHolders == \A m : Count(HeldBy, m) = Cardinality(Holders(m))
<1> SUFFICES ASSUME NEW m
             PROVE  HoldersIn(HeldBy, m) = Holders(m)
  BY Zenon DEF Count
<1> QED
  BY Zenon DEF HoldersIn, HeldBy, Holders

(* The reference of a module's own init function.                          *)
Coming(m) == IF mstate[m] = "coming" THEN 1 ELSE 0

(* RefsAccounted as an equation about Count.                               *)
LEMMA RefsByCount ==
    RefsAccounted <=> \A m \in Mods : mref[m] = Count(HeldBy, m) + leaked[m] + Coming(m)
BY CountIsHolders, Zenon DEF RefsAccounted, Coming

(* The same for the state after a step.                                    *)
LEMMA RefsByCountNext ==
    ASSUME \A m \in Mods :
              mref'[m] = Count(HeldBy', m) + leaked'[m] + (IF mstate'[m] = "coming" THEN 1 ELSE 0)
    PROVE  RefsAccounted'
<1>1. ASSUME NEW m \in Mods
      PROVE  Count(HeldBy', m) = Cardinality(Holders(m)')
  <2>1. HoldersIn(HeldBy', m) = Holders(m)'
    BY Zenon DEF HoldersIn, HeldBy, Holders
  <2> QED
    BY <2>1, Zenon DEF Count
<1> QED
  BY <1>1, Zenon DEF RefsAccounted

(* What each slot holds.                                                   *)
LEMMA HeldSlots ==
    ASSUME NEW t
    PROVE  /\ Held(t, "current") = exec_domain[t]
           /\ Held(t, "new") = ep[t]
           /\ Held(t, "old") = oep[t]
           /\ Held(t, "child") = IF pc[t] = "fork" THEN exec_domain[t] ELSE NoDomain
BY Zenon DEF Held

(* A domain that some slot holds is in a module that is loaded and stays.  *)
LEMMA HolderPins ==
    ASSUME TypeOK, GoneInv, RefsAccounted, NEW t \in Tasks, NEW k \in Slots,
           Held(t, k) \in Domains
    PROVE  /\ mref[ModOf[Held(t, k)]] > 0
           /\ mstate[ModOf[Held(t, k)]] \in {"coming", "live"}
<1> DEFINE d == Held(t, k)
           m == ModOf[d]
<1>1. m \in Mods
  BY ConstantFacts, Zenon
<1>2. HeldBy[<<t, k>>] = d /\ DOMAIN HeldBy = Tasks \X Slots /\ <<t, k>> \in Tasks \X Slots
  BY Zenon DEF HeldBy
<1>3. In(d, m) = 1
  BY Zenon DEF In
<1> HIDE DEF d, m
<1>4. In(HeldBy[<<t, k>>], m) <= Count(HeldBy, m)
  <2>1. Changed(HeldBy, HeldBy, <<t, k>>, HeldBy[<<t, k>>])
    BY Zenon DEF Changed
  <2> QED
    BY <1>2, <2>1, CountExcept, Zenon
<1>5. mref[m] = Count(HeldBy, m) + leaked[m] + Coming(m)
  BY <1>1, RefsByCount, Zenon
<1>6. leaked[m] \in Nat /\ Coming(m) \in {0, 1} /\ Count(HeldBy, m) \in Nat
  BY <1>1, HoldersFinite, Zenon DEF TypeOK, Coming
<1>7. mref[m] > 0
  BY <1>2, <1>3, <1>4, <1>5, <1>6
<1>8. mstate[m] \in {"coming", "live"}
  <2>1. mstate[m] \in {"absent", "coming", "live", "going"}
    BY <1>1, Zenon DEF TypeOK, MStates
  <2>2. mref[m] # 0
    BY <1>7
  <2>3. mstate[m] \notin {"going", "absent"}
    BY <1>1, <2>2, Zenon DEF GoneInv
  <2> QED
    BY <2>1, <2>3, Zenon
<1> QED
  BY <1>7, <1>8, Zenon DEF d, m

(* Slot k of task t now holds e, and nothing else has moved.               *)
Moves(t, k, e) ==
    \A u \in Tasks : \A j \in Slots :
       Held(u, j)' = IF u = t /\ j = k THEN e ELSE Held(u, j)

(* The counts moved with it: what the slot held is put, e is taken.        *)
Balanced(t, k, e) ==
    \A m \in Mods : mref'[m] - leaked'[m] =
       ((mref[m] - leaked[m]) - In(Held(t, k), m)) + In(e, m)

(* A step that moves one reference in or out of a slot.                    *)
LEMMA RefMove ==
    ASSUME TypeOK, TypeOK', RefsAccounted, NEW t \in Tasks, NEW k \in Slots, NEW e,
           UNCHANGED mstate, Moves(t, k, e), Balanced(t, k, e)
    PROVE  RefsAccounted'
<1> DEFINE x == <<t, k>>
<1>1. Changed(HeldBy, HeldBy', x, e)
  BY DEF HeldBy, Moves, Changed
<1>2. HeldBy[x] = Held(t, k) /\ x \in Tasks \X Slots
  BY Zenon DEF HeldBy
<1> HIDE DEF x
<1>3. ASSUME NEW m \in Mods
      PROVE  mref'[m] = Count(HeldBy', m) + leaked'[m]
                        + (IF mstate'[m] = "coming" THEN 1 ELSE 0)
  <2>1. Count(HeldBy', m) = (Count(HeldBy, m) - In(HeldBy[x], m)) + In(e, m)
    BY <1>1, <1>2, CountExcept
  <2>2. mref[m] = Count(HeldBy, m) + leaked[m] + Coming(m)
    BY RefsByCount, Zenon
  <2>3. /\ Count(HeldBy, m) \in Nat /\ mref[m] \in Int /\ mref'[m] \in Int
        /\ leaked[m] \in Nat /\ leaked'[m] \in Nat
        /\ In(Held(t, k), m) \in {0, 1} /\ In(e, m) \in {0, 1}
    BY HoldersFinite, Zenon DEF TypeOK, In
  <2>4. Coming(m) = (IF mstate'[m] = "coming" THEN 1 ELSE 0) /\ Coming(m) \in {0, 1}
    BY Zenon DEF Coming
  <2>5. mref'[m] - leaked'[m] = ((mref[m] - leaked[m]) - In(HeldBy[x], m)) + In(e, m)
    BY <1>2, Zenon DEF Balanced
  <2> QED
    BY ONLY <1>2, <2>1, <2>2, <2>3, <2>4, <2>5
<1> QED
  BY <1>3, RefsByCountNext, Zenon

(* A step that moves no reference.                                         *)
LEMMA RefStay ==
    ASSUME TypeOK, TypeOK', RefsAccounted, UNCHANGED leaked,
           \A m \in Mods : Count(HeldBy', m) = Count(HeldBy, m),
           \A m \in Mods : mref'[m] - (IF mstate'[m] = "coming" THEN 1 ELSE 0)
                            = mref[m] - Coming(m)
    PROVE  RefsAccounted'
<1>1. ASSUME NEW m \in Mods
      PROVE  mref'[m] = Count(HeldBy', m) + leaked'[m]
                        + (IF mstate'[m] = "coming" THEN 1 ELSE 0)
  <2>1. mref[m] = Count(HeldBy, m) + leaked[m] + Coming(m)
    BY RefsByCount, Zenon
  <2>2. /\ Count(HeldBy, m) \in Nat /\ mref[m] \in Int /\ mref'[m] \in Int
        /\ leaked[m] \in Nat /\ Coming(m) \in {0, 1}
    BY HoldersFinite, Zenon DEF TypeOK, Coming
  <2> QED
    BY <2>1, <2>2
<1> QED
  BY <1>1, RefsByCountNext, Zenon

(* No slot has changed.                                                    *)
Stays == \A u \in Tasks : \A j \in Slots : Held(u, j)' = Held(u, j)

(* Then no module gained or lost a holder.                                 *)
LEMMA StaysCount ==
    ASSUME Stays
    PROVE  \A m \in Mods : Count(HeldBy', m) = Count(HeldBy, m)
<1>1. HeldBy' = HeldBy
  BY Zenon DEF HeldBy, Stays
<1> QED
  BY <1>1, Zenon

(* When only the four variables that Held reads decide.                    *)
LEMMA HeldFrame ==
    ASSUME TypeOK, NEW t \in Tasks, UNCHANGED <<exec_domain, ep, oep>>,
           NEW l, pc' = [pc EXCEPT ![t] = l], l # "fork", pc[t] # "fork"
    PROVE  Stays
<1>1. \A u \in Tasks : pc'[u] = "fork" <=> pc[u] = "fork"
  BY Zenon DEF TypeOK
<1> QED
  BY <1>1, Zenon DEF Stays, Held, Slots

-----------------------------------------------------------------------------
(* Every step keeps the counts exact.                                      *)
LEMMA RefStep ==
    ASSUME TypeOK, TypeOK', PcInv, RegInv, GoneInv, RefsAccounted, [Next]_vars
    PROVE  RefsAccounted'
<1> USE ConstantFacts
<1>1. ASSUME Stays, UNCHANGED <<mref, leaked, mstate>>
      PROVE  RefsAccounted'
  BY <1>1, StaysCount, RefStay, Zenon DEF Coming
<1>2. CASE UNCHANGED vars
  BY <1>1, <1>2, Zenon DEF vars, Stays, Held
<1>3. ASSUME NEW m \in Mods, ModStep(m)
      PROVE  RefsAccounted'
  <2>1. Stays /\ UNCHANGED leaked
    BY <1>3, Zenon DEF Stays, Held, ModStep, LoadModule, ModuleInit, ModuleInitDone, DeleteModule,
       ModuleExit, FreeModule, taskVars, callVars, refVars
  <2>2. ASSUME NEW n \in Mods
        PROVE  mref'[n] - (IF mstate'[n] = "coming" THEN 1 ELSE 0) = mref[n] - Coming(n)
    <3> USE DEF TypeOK, Coming
    <3>1. CASE LoadModule(m)
      BY <3>1, SMTT(60) DEF LoadModule, GoneInv
    <3>2. CASE ModuleInit(m)
      BY <3>2, InitFacts, Zenon
    <3>3. CASE ModuleInitDone(m)
      BY <3>3, SMTT(60) DEF ModuleInitDone
    <3>4. CASE DeleteModule(m) \/ ModuleExit(m) \/ FreeModule(m)
      BY <3>4, SMTT(60) DEF DeleteModule, ModuleExit, FreeModule, refVars
    <3> QED
      BY <1>3, <3>1, <3>2, <3>3, <3>4, Zenon DEF ModStep
  <2> QED
    BY <2>1, <2>2, StaysCount, RefStay, Zenon
<1>4. ASSUME NEW t \in Tasks, TaskStep(t)
      PROVE  RefsAccounted'
  <2>1. ASSUME NEW v \in Callers, NEW p \in Personalities, set_personality(t, v, p)
        PROVE  RefsAccounted'
    <3>1. Stays /\ UNCHANGED <<mref, leaked, mstate>>
      BY <2>1, HeldFrame, Zenon DEF set_personality, Goto, taskVars, refVars, modVars
    <3> QED
      BY <1>1, <3>1, Zenon
  <2>0. ASSUME NEW d \in AllDomains, ep' = [ep EXCEPT ![t] = d], mref' = Got(d),
               pc' = [pc EXCEPT ![t] = "compare"], pc[t] \in {"scan", "request"},
               ep[t] = NoDomain, UNCHANGED <<exec_domain, oep, leaked, mstate>>
        PROVE  RefsAccounted'
    <3>1. Moves(t, "new", d)
      <4>1. \A u \in Tasks : pc'[u] = "fork" <=> pc[u] = "fork"
        BY <2>0 DEF TypeOK
      <4> QED
        BY <2>0, <4>1 DEF Moves, Held, Slots, TypeOK
    <3>2. ASSUME NEW m \in Mods
          PROVE  mref'[m] - leaked'[m] =
                   ((mref[m] - leaked[m]) - In(Held(t, "new"), m)) + In(d, m)
      <4>1. In(Held(t, "new"), m) = 0 /\ In(d, m) \in {0, 1}
        BY <2>0, HeldSlots, Zenon DEF In
      <4>2. mref'[m] = mref[m] + In(d, m)
        BY <2>0, GotPut, Zenon DEF TypeOK
      <4> QED
        BY <2>0, <4>1, <4>2, SMTT(60) DEF TypeOK
    <3> QED
      <4>1. Balanced(t, "new", d)
        BY ONLY <3>2, Zenon DEF Balanced
      <4>2. "new" \in Slots /\ UNCHANGED mstate
        BY <2>0, Zenon DEF Slots
      <4> QED
        BY ONLY TypeOK, TypeOK', RefsAccounted, t \in Tasks, <3>1, <4>1, <4>2, RefMove, Zenon
  <2>2. CASE lookup_scan(t)
    <3>1. CASE WalkFound(t)
      <4>1. PICK d \in AllDomains : ep' = [ep EXCEPT ![t] = d] /\ mref' = Got(d)
                                    /\ pc' = [pc EXCEPT ![t] = "compare"]
        BY <3>1, WalkFacts, Zenon
      <4>2. pc[t] \in {"scan", "request"} /\ ep[t] = NoDomain
            /\ UNCHANGED <<exec_domain, oep, leaked, mstate>>
        BY <2>2, Zenon DEF lookup_scan, PcInv, PcOK, taskVars, modVars
      <4> QED
        BY <2>0, <4>1, <4>2, Zenon
    <3>2. CASE ~WalkFound(t)
      <4>1. Stays /\ UNCHANGED <<mref, leaked, mstate>>
        BY <2>2, <3>2, HeldFrame, Zenon DEF lookup_scan, Goto, taskVars, modVars
      <4> QED
        BY <1>1, <4>1, Zenon
    <3> QED
      BY <3>1, <3>2, Zenon
  <2>3. CASE lookup_rescan(t)
    <3>1. CASE WalkFound(t)
      <4>1. PICK d \in AllDomains : ep' = [ep EXCEPT ![t] = d] /\ mref' = Got(d)
                                    /\ pc' = [pc EXCEPT ![t] = "compare"]
        BY <3>1, WalkFacts, Zenon
      <4>2. pc[t] \in {"scan", "request"} /\ ep[t] = NoDomain
            /\ UNCHANGED <<exec_domain, oep, leaked, mstate>>
        BY <2>3, Zenon DEF lookup_rescan, PcInv, PcOK, taskVars, modVars
      <4> QED
        BY <2>0, <4>1, <4>2, Zenon
    <3>2. CASE ~WalkFound(t)
      <4>1. ep' = [ep EXCEPT ![t] = Default] /\ pc' = [pc EXCEPT ![t] = "compare"]
            /\ UNCHANGED mref /\ pc[t] = "request" /\ ep[t] = NoDomain
            /\ UNCHANGED <<exec_domain, oep, leaked, mstate>>
        BY <2>3, <3>2, Zenon DEF lookup_rescan, Goto, PcInv, PcOK, taskVars, modVars
      <4>2. mref' = Got(Default)
        BY <4>1, Zenon DEF Got
      <4> QED
        BY <2>0, <4>1, <4>2, Zenon
    <3> QED
      BY <3>1, <3>2, Zenon
  <2>4. CASE set_same_domain(t)
    <3>1. Moves(t, "new", NoDomain)
      <4>1. \A u \in Tasks : pc'[u] = "fork" <=> pc[u] = "fork"
        BY <2>4 DEF set_same_domain, Goto, TypeOK
      <4> QED
        BY <2>4, <4>1 DEF set_same_domain, taskVars, Moves, Held, Slots, TypeOK
    <3>2. ep[t] \in AllDomains
      BY <2>4, PcFacts, Zenon DEF set_same_domain, TypeOK
    <3>3. ASSUME NEW m \in Mods
          PROVE  mref'[m] - leaked'[m] =
                   ((mref[m] - leaked[m]) - In(Held(t, "new"), m)) + In(NoDomain, m)
      <4>1. Held(t, "new") = ep[t] /\ mref[m] \in Int /\ leaked[m] \in Nat
        BY <2>4, HeldSlots, Zenon DEF set_same_domain, TypeOK, PcInv, PcOK
      <4>2. In(ep[t], m) \in {0, 1} /\ In(NoDomain, m) = 0 /\ In(Default, m) = 0
        BY Zenon DEF In
      <4>3. leaked'[m] = leaked[m] + In(ep[t], m)
        BY <2>4, <3>2, SMTT(60) DEF set_same_domain, TypeOK, In
      <4>4. UNCHANGED mref
        BY <2>4, Zenon DEF set_same_domain
      <4> QED
        BY ONLY <4>1, <4>2, <4>3, <4>4, SMTT(60)
    <3>4. UNCHANGED mstate /\ {"current", "new", "old", "child"} \subseteq Slots
      BY <2>4, Zenon DEF set_same_domain, modVars, Slots
    <3>5. Balanced(t, "new", NoDomain)
      BY ONLY <3>3, Zenon DEF Balanced
    <3>6. "new" \in Slots /\ UNCHANGED mstate
      BY ONLY <3>4, Zenon
    <3> QED
      BY ONLY TypeOK, TypeOK', RefsAccounted, t \in Tasks, <3>1, <3>5, <3>6, RefMove, Zenon
  <2>5. CASE set_check_fs(t)
    <3>1. Stays /\ UNCHANGED <<mref, leaked, mstate>>
      BY <2>5, HeldFrame, Zenon DEF set_check_fs, Goto, taskVars, refVars, modVars
    <3> QED
      BY <1>1, <3>1, Zenon
  <2>6. CASE set_copy_fs(t)
    <3>1. Stays /\ UNCHANGED <<mref, leaked, mstate>>
      BY <2>6, HeldFrame, Zenon DEF set_copy_fs, Goto, taskVars, refVars, modVars
    <3> QED
      BY <1>1, <3>1, Zenon
  <2>7. CASE set_copy_fs_fails(t)
    <3>1. Moves(t, "new", NoDomain)
      <4>1. \A u \in Tasks : pc'[u] = "fork" <=> pc[u] = "fork"
        BY <2>7 DEF set_copy_fs_fails, Goto, TypeOK
      <4> QED
        BY <2>7, <4>1 DEF set_copy_fs_fails, taskVars, Moves, Held, Slots, TypeOK
    <3>2. ep[t] \in AllDomains
      BY <2>7, PcFacts, Zenon DEF set_copy_fs_fails, TypeOK
    <3>3. ASSUME NEW m \in Mods
          PROVE  mref'[m] - leaked'[m] =
                   ((mref[m] - leaked[m]) - In(Held(t, "new"), m)) + In(NoDomain, m)
      <4>1. Held(t, "new") = ep[t] /\ mref[m] \in Int /\ leaked[m] \in Nat
        BY <2>7, HeldSlots, Zenon DEF set_copy_fs_fails, TypeOK, PcInv, PcOK
      <4>2. In(ep[t], m) \in {0, 1} /\ In(NoDomain, m) = 0 /\ In(Default, m) = 0
        BY Zenon DEF In
      <4>3. mref'[m] = mref[m] - In(ep[t], m)
        BY <2>7, <3>2, GotPut, Zenon DEF set_copy_fs_fails, TypeOK
      <4>4. UNCHANGED leaked
        BY <2>7, Zenon DEF set_copy_fs_fails
      <4> QED
        BY ONLY <4>1, <4>2, <4>3, <4>4, SMTT(60)
    <3>4. UNCHANGED mstate /\ {"current", "new", "old", "child"} \subseteq Slots
      BY <2>7, Zenon DEF set_copy_fs_fails, modVars, Slots
    <3>5. Balanced(t, "new", NoDomain)
      BY ONLY <3>3, Zenon DEF Balanced
    <3>6. "new" \in Slots /\ UNCHANGED mstate
      BY ONLY <3>4, Zenon
    <3> QED
      BY ONLY TypeOK, TypeOK', RefsAccounted, t \in Tasks, <3>1, <3>5, <3>6, RefMove, Zenon
  <2>8. CASE set_put_fs(t)
    <3>1. Stays /\ UNCHANGED <<mref, leaked, mstate>>
      BY <2>8, HeldFrame, Zenon DEF set_put_fs, Goto, taskVars, refVars, modVars
    <3> QED
      BY <1>1, <3>1, Zenon
  <2>9. CASE set_commit(t)
    <3> DEFINE x == <<t, "current">>
               y == <<t, "new">>
               z == <<t, "old">>
               A == [h \in Tasks \X Slots |-> IF h = x THEN ep[t] ELSE HeldBy[h]]
               B == [h \in Tasks \X Slots |-> IF h = y THEN NoDomain ELSE A[h]]
    <3>1. x \in Tasks \X Slots /\ y \in Tasks \X Slots /\ z \in Tasks \X Slots
          /\ x # y /\ y # z /\ x # z
      BY Zenon DEF Slots
    <3>2. /\ HeldBy[x] = exec_domain[t] /\ HeldBy[y] = ep[t] /\ HeldBy[z] = NoDomain
      BY <2>9, <3>1, HeldSlots, Zenon DEF HeldBy, set_commit, PcInv, PcOK
    <3>3. ASSUME NEW h \in Tasks \X Slots
          PROVE  HeldBy'[h] = IF h = z THEN exec_domain[t] ELSE B[h]
      <4>1. PICK u \in Tasks, k \in Slots : h = <<u, k>>
        OBVIOUS
      <4>2. HeldBy'[h] = Held(u, k)' /\ HeldBy[h] = Held(u, k)
        BY <4>1, Zenon DEF HeldBy
      <4>3. \A w \in Tasks : pc'[w] = "fork" <=> pc[w] = "fork"
        BY <2>9 DEF set_commit, Goto, TypeOK
      <4>4. Held(u, k)' = IF u # t THEN Held(u, k)
                          ELSE CASE k = "current" -> ep[t] [] k = "new" -> NoDomain
                                 [] k = "old" -> exec_domain[t] [] k = "child" -> Held(u, k)
        BY <2>9, <4>3 DEF set_commit, Goto, Held, Slots, TypeOK
      <4>5. u # t => h # x /\ h # y /\ h # z
        BY <4>1, Zenon
      <4>6. u = t => /\ (h = x <=> k = "current") /\ (h = y <=> k = "new")
                     /\ (h = z <=> k = "old")
        BY <4>1, Zenon
      <4> HIDE DEF x, y, z
      <4>7. B[h] = IF h = y THEN NoDomain ELSE IF h = x THEN ep[t] ELSE Held(u, k)
        BY <4>2, Zenon
      <4>8. CASE u # t
        BY <4>2, <4>4, <4>5, <4>7, <4>8, Zenon
      <4>9. CASE u = t
        BY <4>2, <4>4, <4>6, <4>7, <4>9, Zenon DEF Slots
      <4> QED
        BY <4>8, <4>9, Zenon
    <3>4. A[y] = ep[t] /\ B[z] = NoDomain
      BY <3>1, <3>2, Zenon
    <3>7. Changed(HeldBy, A, x, ep[t])
      BY Zenon DEF Changed
    <3>8. Changed(A, B, y, NoDomain)
      BY Zenon DEF Changed
    <3>9. Changed(B, HeldBy', z, exec_domain[t])
      BY <3>3, Zenon DEF Changed
    <3> HIDE DEF x, y, z, A, B
    <3>5. ASSUME NEW m \in Mods
          PROVE  Count(HeldBy', m) = Count(HeldBy, m)
      <4>1. Count(A, m) = (Count(HeldBy, m) - In(HeldBy[x], m)) + In(ep[t], m)
        BY <3>1, <3>7, CountExcept, SMTT(60)
      <4>2. Count(B, m) = (Count(A, m) - In(A[y], m)) + In(NoDomain, m)
        BY <3>1, <3>8, CountExcept
      <4>3. Count(HeldBy', m) = (Count(B, m) - In(B[z], m)) + In(exec_domain[t], m)
        BY <3>1, <3>9, CountExcept, SMTT(60)
      <4>4. /\ In(NoDomain, m) \in {0, 1} /\ In(ep[t], m) \in {0, 1}
            /\ In(exec_domain[t], m) \in {0, 1} /\ Count(HeldBy, m) \in Nat
        BY HoldersFinite, Zenon DEF In
      <4> QED
        BY <3>2, <3>4, <4>1, <4>2, <4>3, <4>4, SMTT(60)
    <3>6. UNCHANGED <<mref, leaked, mstate>>
      BY <2>9, Zenon DEF set_commit, refVars, modVars
    <3> QED
      BY <3>5, <3>6, RefStay, Zenon DEF Coming
  <2>10. CASE set_put_old(t)
    <3>1. Moves(t, "old", NoDomain)
      <4>1. \A u \in Tasks : pc'[u] = "fork" <=> pc[u] = "fork"
        BY <2>10 DEF set_put_old, Goto, TypeOK
      <4> QED
        BY <2>10, <4>1 DEF set_put_old, taskVars, Moves, Held, Slots, TypeOK
    <3>2. oep[t] \in AllDomains
      BY <2>10, PcFacts, Zenon DEF set_put_old, TypeOK
    <3>3. ASSUME NEW m \in Mods
          PROVE  mref'[m] - leaked'[m] =
                   ((mref[m] - leaked[m]) - In(Held(t, "old"), m)) + In(NoDomain, m)
      <4>1. Held(t, "old") = oep[t] /\ mref[m] \in Int /\ leaked[m] \in Nat
        BY <2>10, HeldSlots, Zenon DEF set_put_old, TypeOK, PcInv, PcOK
      <4>2. In(oep[t], m) \in {0, 1} /\ In(NoDomain, m) = 0 /\ In(Default, m) = 0
        BY Zenon DEF In
      <4>3. mref'[m] = mref[m] - In(oep[t], m)
        BY <2>10, <3>2, GotPut, Zenon DEF set_put_old, TypeOK
      <4>4. UNCHANGED leaked
        BY <2>10, Zenon DEF set_put_old
      <4> QED
        BY ONLY <4>1, <4>2, <4>3, <4>4, SMTT(60)
    <3>4. UNCHANGED mstate /\ {"current", "new", "old", "child"} \subseteq Slots
      BY <2>10, Zenon DEF set_put_old, modVars, Slots
    <3>5. Balanced(t, "old", NoDomain)
      BY ONLY <3>3, Zenon DEF Balanced
    <3>6. "old" \in Slots /\ UNCHANGED mstate
      BY ONLY <3>4, Zenon
    <3> QED
      BY ONLY TypeOK, TypeOK', RefsAccounted, t \in Tasks, <3>1, <3>5, <3>6, RefMove, Zenon
  <2>11. CASE set_return(t)
    <3>1. Stays /\ UNCHANGED <<mref, leaked, mstate>>
      BY <2>11, HeldFrame, Zenon DEF set_return, Goto, taskVars, refVars, modVars
    <3> QED
      BY <1>1, <3>1, Zenon
  <2>12. CASE SurviveSegv(t)
    <3>1. Stays /\ UNCHANGED <<mref, leaked, mstate>>
      BY <2>12, HeldFrame, Zenon DEF SurviveSegv, Goto, taskVars, refVars, modVars
    <3> QED
      BY <1>1, <3>1, Zenon
  <2>13. CASE fork_pin(t)
    <3>1. Moves(t, "child", exec_domain[t])
      <4>1. \A u \in Tasks : pc'[u] = "fork" <=> pc[u] = "fork" \/ u = t
        BY <2>13, Zenon DEF fork_pin, Goto, TypeOK
      <4> QED
        BY <2>13, <4>1 DEF fork_pin, taskVars, Moves, Held, Slots, TypeOK
    <3>2. exec_domain[t] \in AllDomains
      BY <2>13, PcFacts, Zenon DEF fork_pin, TypeOK
    <3>3. ASSUME NEW m \in Mods
          PROVE  mref'[m] - leaked'[m] =
                   ((mref[m] - leaked[m]) - In(Held(t, "child"), m)) + In(exec_domain[t], m)
      <4>1. Held(t, "child") = NoDomain /\ mref[m] \in Int /\ leaked[m] \in Nat
        BY <2>13, HeldSlots, Zenon DEF fork_pin, TypeOK, PcInv, PcOK
      <4>2. In(exec_domain[t], m) \in {0, 1} /\ In(NoDomain, m) = 0 /\ In(Default, m) = 0
        BY Zenon DEF In
      <4>3. mref'[m] = mref[m] + In(exec_domain[t], m)
        BY <2>13, <3>2, GotPut, Zenon DEF fork_pin, TypeOK
      <4>4. leaked' = leaked
        BY <2>13, Zenon DEF fork_pin
      <4> QED
        BY ONLY <4>1, <4>2, <4>3, <4>4, SMTT(60)
    <3>4. UNCHANGED mstate /\ {"current", "new", "old", "child"} \subseteq Slots
      BY <2>13, Zenon DEF fork_pin, modVars, Slots
    <3>5. Balanced(t, "child", exec_domain[t])
      BY ONLY <3>3, Zenon DEF Balanced
    <3>6. "child" \in Slots /\ UNCHANGED mstate
      BY ONLY <3>4, Zenon
    <3> QED
      BY ONLY TypeOK, TypeOK', RefsAccounted, t \in Tasks, <3>1, <3>5, <3>6, RefMove, Zenon
  <2>14. CASE fork_done(t)
    <3>1. PICK u \in Tasks \ alive :
            /\ exec_domain' = [exec_domain EXCEPT ![u] = exec_domain[t]]
            /\ pc' = [pc EXCEPT ![t] = "user", ![u] = "user"]
      BY <2>14, Zenon DEF fork_done
    <3>2. /\ pc[t] = "fork" /\ pc[u] = "dead" /\ u # t /\ exec_domain[u] = Default
          /\ UNCHANGED <<ep, oep, mref, leaked, mstate>>
      BY <2>14, <3>1, Zenon DEF fork_done, PcInv, PcOK, refVars, modVars
    <3> DEFINE x == <<u, "current">>
               y == <<t, "child">>
               A == [h \in Tasks \X Slots |-> IF h = x THEN exec_domain[t] ELSE HeldBy[h]]
    <3>3. x \in Tasks \X Slots /\ y \in Tasks \X Slots /\ x # y
      BY Zenon DEF Slots
    <3>4. HeldBy[x] = Default /\ HeldBy[y] = exec_domain[t]
      BY <3>2, <3>3, HeldSlots, Zenon DEF HeldBy
    <3>5. ASSUME NEW h \in Tasks \X Slots
          PROVE  HeldBy'[h] = IF h = y THEN NoDomain ELSE A[h]
      <4>1. PICK w \in Tasks, k \in Slots : h = <<w, k>>
        OBVIOUS
      <4>2. HeldBy'[h] = Held(w, k)' /\ HeldBy[h] = Held(w, k)
        BY <4>1, Zenon DEF HeldBy
      <4>3. \A v \in Tasks : pc'[v] = "fork" <=> pc[v] = "fork" /\ v # t
        BY <3>1, <3>2 DEF TypeOK
      <4>4. Held(w, k)' = IF w = u /\ k = "current" THEN exec_domain[t]
                          ELSE IF w = t /\ k = "child" THEN NoDomain ELSE Held(w, k)
        BY <3>1, <3>2, <4>3 DEF Held, Slots, TypeOK
      <4>5. (h = x <=> w = u /\ k = "current") /\ (h = y <=> w = t /\ k = "child")
        BY <4>1, Zenon
      <4>6. A[h] = IF h = x THEN exec_domain[t] ELSE HeldBy[h]
        BY Zenon
      <4> HIDE DEF x, y, A
      <4> QED
        BY <3>2, <4>2, <4>4, <4>5, <4>6, Zenon
    <3>6. Changed(HeldBy, A, x, exec_domain[t]) /\ A[y] = exec_domain[t]
      BY <3>3, <3>4, Zenon DEF Changed
    <3>8. Changed(A, HeldBy', y, NoDomain)
      BY <3>5, Zenon DEF Changed
    <3> HIDE DEF x, y, A
    <3>7. ASSUME NEW m \in Mods
          PROVE  Count(HeldBy', m) = Count(HeldBy, m)
      <4>1. Count(A, m) = (Count(HeldBy, m) - In(HeldBy[x], m)) + In(exec_domain[t], m)
        BY <3>3, <3>6, CountExcept, SMTT(60)
      <4>2. Count(HeldBy', m) = (Count(A, m) - In(A[y], m)) + In(NoDomain, m)
        BY <3>3, <3>8, CountExcept, SMTT(60)
      <4>3. /\ In(NoDomain, m) = 0 /\ In(Default, m) = 0
            /\ In(exec_domain[t], m) \in {0, 1} /\ Count(HeldBy, m) \in Nat
        BY HoldersFinite, Zenon DEF In
      <4> QED
        BY <3>4, <3>6, <4>1, <4>2, <4>3, SMTT(60)
    <3> QED
      BY <3>2, <3>7, RefStay, Zenon DEF Coming
  <2>15. CASE fork_fails(t)
    <3>1. Moves(t, "child", NoDomain)
      <4>1. \A u \in Tasks : pc'[u] = "fork" <=> pc[u] = "fork" /\ u # t
        BY <2>15 DEF fork_fails, Goto, TypeOK
      <4> QED
        BY <2>15, <4>1 DEF fork_fails, taskVars, Moves, Held, Slots, TypeOK
    <3>2. exec_domain[t] \in AllDomains
      BY <2>15, PcFacts, Zenon DEF fork_fails, TypeOK
    <3>3. ASSUME NEW m \in Mods
          PROVE  mref'[m] - leaked'[m] =
                   ((mref[m] - leaked[m]) - In(Held(t, "child"), m)) + In(NoDomain, m)
      <4>1. Held(t, "child") = exec_domain[t] /\ mref[m] \in Int /\ leaked[m] \in Nat
        BY <2>15, HeldSlots, Zenon DEF fork_fails, TypeOK, PcInv, PcOK
      <4>2. In(exec_domain[t], m) \in {0, 1} /\ In(NoDomain, m) = 0 /\ In(Default, m) = 0
        BY Zenon DEF In
      <4>3. mref'[m] = mref[m] - In(exec_domain[t], m)
        BY <2>15, <3>2, GotPut, Zenon DEF fork_fails, TypeOK
      <4>4. leaked' = leaked
        BY <2>15, Zenon DEF fork_fails
      <4> QED
        BY ONLY <4>1, <4>2, <4>3, <4>4, SMTT(60)
    <3>4. UNCHANGED mstate /\ {"current", "new", "old", "child"} \subseteq Slots
      BY <2>15, Zenon DEF fork_fails, modVars, Slots
    <3>5. Balanced(t, "child", NoDomain)
      BY ONLY <3>3, Zenon DEF Balanced
    <3>6. "child" \in Slots /\ UNCHANGED mstate
      BY ONLY <3>4, Zenon
    <3> QED
      BY ONLY TypeOK, TypeOK', RefsAccounted, t \in Tasks, <3>1, <3>5, <3>6, RefMove, Zenon
  <2>16. CASE Exit(t)
    <3>1. Moves(t, "current", Default)
      <4>1. \A u \in Tasks : pc'[u] = "fork" <=> pc[u] = "fork"
        BY <2>16 DEF Exit, Goto, TypeOK
      <4> QED
        BY <2>16, <4>1 DEF Exit, taskVars, Moves, Held, Slots, TypeOK
    <3>2. exec_domain[t] \in AllDomains
      BY <2>16, PcFacts, Zenon DEF Exit, TypeOK
    <3>3. ASSUME NEW m \in Mods
          PROVE  mref'[m] - leaked'[m] =
                   ((mref[m] - leaked[m]) - In(Held(t, "current"), m)) + In(Default, m)
      <4>1. Held(t, "current") = exec_domain[t] /\ mref[m] \in Int /\ leaked[m] \in Nat
        BY <2>16, HeldSlots, Zenon DEF Exit, TypeOK, PcInv, PcOK
      <4>2. In(exec_domain[t], m) \in {0, 1} /\ In(NoDomain, m) = 0 /\ In(Default, m) = 0
        BY Zenon DEF In
      <4>3. mref'[m] = mref[m] - In(exec_domain[t], m)
        BY <2>16, <3>2, GotPut, Zenon DEF Exit, TypeOK
      <4>4. leaked' = leaked
        BY <2>16, Zenon DEF Exit
      <4> QED
        BY ONLY <4>1, <4>2, <4>3, <4>4, SMTT(60)
    <3>4. UNCHANGED mstate /\ {"current", "new", "old", "child"} \subseteq Slots
      BY <2>16, Zenon DEF Exit, modVars, Slots
    <3>5. Balanced(t, "current", Default)
      BY ONLY <3>3, Zenon DEF Balanced
    <3>6. "current" \in Slots /\ UNCHANGED mstate
      BY ONLY <3>4, Zenon
    <3> QED
      BY ONLY TypeOK, TypeOK', RefsAccounted, t \in Tasks, <3>1, <3>5, <3>6, RefMove, Zenon
  <2> QED
    BY <1>4, <2>1, <2>2, <2>3, <2>4, <2>5, <2>6, <2>7, <2>8, <2>9, <2>10, <2>11, <2>12,
       <2>13, <2>14, <2>15, <2>16, ConstantsAssumption, Zenon
       DEF TaskStep, SetStep, Exec, sys_personality, lcall_autodetect_handler, Callers
<1> QED
  BY <1>2, <1>3, <1>4, Zenon DEF Next
=============================================================================
