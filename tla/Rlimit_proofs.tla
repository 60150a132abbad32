---------------------------- MODULE Rlimit_proofs ---------------------------
(***************************************************************************)
(* Hard and soft limits, for any threads, limits and starting values.      *)
(***************************************************************************)
EXTENDS Rlimit, TLAPS

PCs == {"user", "ulimit_max", "ulimit_cur", "rlim64_cur", "rlim64_max"}
Setting == {"rlim64_cur", "rlim64_max"}

Types ==
    /\ rlim \in [Resources -> [cur : Int, max : Int]]
    /\ arg \in [Threads -> [res : Resources, cur : Int, max : Int]]
    /\ pc \in [Threads -> PCs]
    /\ cap \in BOOLEAN /\ raced \in BOOLEAN /\ loose \in BOOLEAN

(* What a call in progress has tested or written, as long as no other      *)
(* thread wrote since.                                                     *)
CallOK(t) ==
    /\ pc[t] = "ulimit_max" => cap /\ arg[t].cur > rlim[RLIMIT_FSIZE].max
    /\ pc[t] = "ulimit_cur" => arg[t].cur <= rlim[RLIMIT_FSIZE].max
    /\ pc[t] \in Setting => (cap \/ arg[t].max <= rlim[arg[t].res].max)
    /\ pc[t] \in Setting => (loose \/ arg[t].cur <= arg[t].max)
    /\ pc[t] = "rlim64_max" => rlim[arg[t].res].cur = arg[t].cur

(* Only a setrlimit64() between its two writes leaves a soft limit above   *)
(* its hard limit.                                                         *)
SoftOK(r) ==
    rlim[r].cur <= rlim[r].max \/ \E t \in Threads : pc[t] = "rlim64_max" /\ arg[t].res = r

Calls == \A t \in Threads : CallOK(t)
Softs == \A r \in Resources : SoftOK(r)

IInv ==
    /\ Types
    /\ raced \/ Calls
    /\ raced \/ loose \/ Softs

-----------------------------------------------------------------------------
(* The limits are numbers.                                                 *)
LEMMA Numbers == INFINITY \in Int /\ Limits \subseteq Int /\ Start \subseteq [cur : Int, max : Int]
<1>1. INFINITY \in Int
  BY SMT DEF INFINITY
<1> QED
  BY <1>1, RlimitAssumption, SMT

(* A process starts with no call in progress.                              *)
LEMMA InitIInv == Init => IInv
<1> SUFFICES ASSUME Init
             PROVE  IInv
  OBVIOUS
<1>1. PICK s \in Start : rlim = [r \in Resources |-> s]
  BY DEF Init
<1>2. s \in [cur : Int, max : Int] /\ s.cur <= s.max
  BY RlimitAssumption, Numbers
<1>3. Types
  <2>1. rlim \in [Resources -> [cur : Int, max : Int]]
    BY <1>1, <1>2
  <2>2. NoArg \in [res : Resources, cur : Int, max : Int]
    BY DEF NoArg, Resources
  <2>3. arg \in [Threads -> [res : Resources, cur : Int, max : Int]]
    BY <2>2 DEF Init
  <2>4. pc \in [Threads -> PCs] /\ cap \in BOOLEAN /\ raced \in BOOLEAN /\ loose \in BOOLEAN
    BY DEF Init, PCs
  <2> QED
    BY <2>1, <2>3, <2>4 DEF Types
<1>4. Calls
  BY DEF Init, Calls, CallOK, Setting
<1>5. Softs
  BY <1>1, <1>2 DEF Softs, SoftOK
<1> QED
  BY <1>3, <1>4, <1>5 DEF IInv

(* A call that starts writes nothing.                                      *)
LEMMA StartStep ==
    ASSUME IInv, NEW t \in Threads, NEW a \in [res : Resources, cur : Int, max : Int],
           NEW l \in PCs \ {"rlim64_max"}, pc[t] = "user", Go(t, l), arg' = [arg EXCEPT ![t] = a],
           UNCHANGED <<rlim, cap, raced>>, loose' \in BOOLEAN, loose => loose', CallOK(t)'
    PROVE  IInv'
<1>1. Types'
  BY DEF IInv, Types, Go
<1>2. ASSUME NEW u \in Threads, u # t
      PROVE  pc'[u] = pc[u] /\ arg'[u] = arg[u]
  BY <1>2 DEF Go, IInv, Types
<1>3. ASSUME Calls
      PROVE  Calls'
  BY <1>2, <1>3 DEF Calls, CallOK
<1>4. ASSUME Softs
      PROVE  Softs'
  <2> SUFFICES ASSUME NEW r \in Resources
               PROVE  SoftOK(r)'
    BY DEF Softs
  <2>1. CASE rlim[r].cur <= rlim[r].max
    BY <2>1 DEF SoftOK
  <2>2. CASE \E u \in Threads : pc[u] = "rlim64_max" /\ arg[u].res = r
    BY <1>2, <2>2 DEF SoftOK
  <2> QED
    BY <1>4, <2>1, <2>2 DEF Softs, SoftOK
<1> QED
  BY <1>1, <1>3, <1>4 DEF IInv

(* A write by t: either it raced, or t is the only thread in a call.       *)
LEMMA Alone ==
    ASSUME NEW t \in Threads, Races(t), Types
    PROVE  /\ raced' \in BOOLEAN
           /\ ~raced' => ~raced /\ \A u \in Threads : u # t => pc[u] = "user"
BY DEF Races, Types

(* A write of thread t that no other one raced leaves every hard limit, or *)
(* lowers it, and keeps the invariant.                                     *)
LEMMA WriteStep ==
    ASSUME IInv, NEW t \in Threads,
           ulimit_max(t) \/ ulimit_cur(t) \/ rlim64_cur(t) \/ rlim64_max(t)
    PROVE  IInv' /\ Falls
<1> DEFINE old == rlim[arg[t].res]
<1> USE DEF IInv
<1>1. Races(t) /\ UNCHANGED <<cap, loose>>
  BY DEF ulimit_max, ulimit_cur, rlim64_cur, rlim64_max
<1>2. /\ arg[t] \in [res : Resources, cur : Int, max : Int] /\ RLIMIT_FSIZE \in Resources
      /\ NoArg \in [res : Resources, cur : Int, max : Int]
  BY DEF Types, RLIMIT_FSIZE, Resources, NoArg
<1>3. Types'
  <2>1. arg' \in [Threads -> [res : Resources, cur : Int, max : Int]]
    BY <1>2 DEF Types, ulimit_max, ulimit_cur, rlim64_cur, rlim64_max, Return
  <2>2. pc' \in [Threads -> PCs]
    BY DEF Types, ulimit_max, ulimit_cur, rlim64_cur, rlim64_max, Return, Go, PCs
  <2>3. rlim' \in [Resources -> [cur : Int, max : Int]]
    BY <1>2 DEF Types, ulimit_max, ulimit_cur, rlim64_cur, rlim64_max
  <2> QED
    BY <1>1, <2>1, <2>2, <2>3, Alone DEF Types
<1>4. CASE raced'
  BY <1>3, <1>4 DEF Falls
<1>5. CASE ~raced'
  <2>1. ~raced /\ Calls /\ CallOK(t)
    BY <1>1, <1>5, Alone DEF Calls
  <2>2. ASSUME NEW u \in Threads, u # t
        PROVE  pc[u] = "user" /\ pc'[u] = "user"
    BY <1>1, <1>5, <2>2, Alone DEF Types, ulimit_max, ulimit_cur, rlim64_cur, rlim64_max,
       Return, Go
  <2>3. ASSUME NEW u \in Threads, u # t
        PROVE  CallOK(u)'
    BY <2>2, <2>3 DEF CallOK, Setting
  <2>4. ASSUME ~loose, NEW r \in Resources, pc[t] # "rlim64_max"
        PROVE  rlim[r].cur <= rlim[r].max
    BY <2>1, <2>2, <2>4 DEF Softs, SoftOK
  <2>5. ASSUME ~loose, NEW r \in Resources, r # arg[t].res
        PROVE  rlim[r].cur <= rlim[r].max
    BY <2>1, <2>2, <2>5 DEF Softs, SoftOK
  <2>6. SUFFICES ASSUME TRUE
                 PROVE  CallOK(t)' /\ (loose \/ Softs') /\ Falls
    BY <1>1, <1>3, <1>5, <2>3, <2>6 DEF Calls
  <2>7. CASE ulimit_max(t)
    <3>1. /\ pc[t] = "ulimit_max" /\ pc'[t] = "ulimit_cur" /\ arg' = arg
          /\ rlim' = [rlim EXCEPT ![RLIMIT_FSIZE].max = arg[t].cur]
      BY <2>7 DEF ulimit_max, Go, Types
    <3>2. cap /\ arg[t].cur > rlim[RLIMIT_FSIZE].max
      BY <2>1, <3>1 DEF CallOK
    <3>3. CallOK(t)'
      BY <1>2, <3>1 DEF CallOK, Types, Setting
    <3>4. loose \/ Softs'
      BY <1>2, <2>4, <3>1, <3>2 DEF Softs, SoftOK, Types
    <3> QED
      BY <3>2, <3>3, <3>4 DEF Falls
  <2>8. CASE ulimit_cur(t)
    <3>1. /\ pc[t] = "ulimit_cur" /\ pc'[t] = "user"
          /\ rlim' = [rlim EXCEPT ![RLIMIT_FSIZE].cur = arg[t].cur]
      BY <2>8 DEF ulimit_cur, Return, Go, Types
    <3>2. CallOK(t)'
      BY <3>1 DEF CallOK, Setting
    <3>3. arg[t].cur <= rlim[RLIMIT_FSIZE].max
      BY <2>1, <3>1 DEF CallOK
    <3>4. loose \/ Softs'
      BY <1>2, <2>4, <3>1, <3>3 DEF Softs, SoftOK, Types
    <3> QED
      BY <1>2, <3>1, <3>2, <3>4 DEF Falls, Types
  <2>9. CASE rlim64_cur(t)
    <3>1. /\ pc[t] = "rlim64_cur" /\ pc'[t] = "rlim64_max" /\ arg' = arg
          /\ rlim' = [rlim EXCEPT ![arg[t].res].cur = arg[t].cur]
      BY <2>9 DEF rlim64_cur, Go, Types
    <3>2. CallOK(t)'
      BY <1>1, <1>2, <2>1, <3>1 DEF CallOK, Setting, Types
    <3>3. loose \/ Softs'
      BY <1>2, <2>4, <3>1 DEF Softs, SoftOK, Types
    <3> QED
      BY <1>2, <3>1, <3>2, <3>3 DEF Falls, Types
  <2>10. CASE rlim64_max(t)
    <3>1. /\ pc[t] = "rlim64_max" /\ pc'[t] = "user"
          /\ rlim' = [rlim EXCEPT ![arg[t].res].max = arg[t].max]
      BY <2>10 DEF rlim64_max, Return, Go, Types
    <3>2. CallOK(t)'
      BY <3>1 DEF CallOK, Setting
    <3>3. /\ cap \/ arg[t].max <= rlim[arg[t].res].max
          /\ loose \/ rlim[arg[t].res].cur <= arg[t].max
      BY <2>1, <3>1 DEF CallOK, Setting
    <3>4. loose \/ Softs'
      BY <1>2, <2>5, <3>1, <3>3 DEF Softs, SoftOK, Types
    <3> QED
      BY <1>2, <3>1, <3>2, <3>3, <3>4 DEF Falls, Types
  <2> QED
    BY <2>7, <2>8, <2>9, <2>10
<1> QED
  BY <1>4, <1>5

(* Every step keeps the invariant and lets hard limits only fall.          *)
LEMMA Step == IInv /\ [Next]_vars => IInv' /\ [Falls]_vars
<1> SUFFICES ASSUME IInv, [Next]_vars
             PROVE  IInv' /\ [Falls]_vars
  OBVIOUS
<1>1. CASE UNCHANGED vars
  BY <1>1 DEF vars, IInv, Types, Calls, CallOK, Softs, SoftOK
<1>2. ASSUME UNCHANGED rlim, Types
      PROVE  Falls
  BY <1>2 DEF Falls, Types
<1>3. ASSUME NEW t \in Threads, NEW val \in Limits \cup {INFINITY}, ulimit_set(t, val), ~UNCHANGED vars
      PROVE  IInv' /\ Falls
  <2> DEFINE l == IF val > rlim[RLIMIT_FSIZE].max THEN "ulimit_max" ELSE "ulimit_cur"
             a == [NoArg EXCEPT !.cur = val]
  <2>1. /\ pc[t] = "user" /\ Go(t, l) /\ arg' = [arg EXCEPT ![t] = a]
        /\ UNCHANGED <<rlim, cap, raced, loose>>
        /\ ~(val > rlim[RLIMIT_FSIZE].max /\ ~cap)
    BY <1>3 DEF ulimit_set, Error
  <2>2. val \in Int /\ rlim[RLIMIT_FSIZE].max \in Int
    BY RlimitAssumption, Numbers DEF IInv, Types, Resources, RLIMIT_FSIZE
  <2>3. a \in [res : Resources, cur : Int, max : Int] /\ a.cur = val
    BY <2>2 DEF NoArg, Resources
  <2>4. pc'[t] = l /\ arg'[t] = a
    BY <2>1 DEF Go, IInv, Types
  <2>5. l \in PCs \ {"rlim64_max"} /\ CallOK(t)'
    BY <2>1, <2>2, <2>3, <2>4 DEF PCs, CallOK, Setting
  <2>6. loose' \in BOOLEAN /\ (loose => loose')
    BY <2>1 DEF IInv, Types
  <2> HIDE DEF a, l
  <2>7. IInv'
    BY <2>1, <2>3, <2>5, <2>6, StartStep
  <2> QED
    BY <1>2, <2>1, <2>7 DEF IInv
<1>4. ASSUME NEW t \in Threads, NEW r \in Asked, NEW c \in Limits, NEW x \in Limits,
             uw7_setrlimit64(t, r, c, x), ~UNCHANGED vars
      PROVE  IInv' /\ Falls
  <2> DEFINE a == [res |-> r, cur |-> c, max |-> x]
  <2>1. /\ pc[t] = "user" /\ Go(t, "rlim64_cur") /\ arg' = [arg EXCEPT ![t] = a]
        /\ UNCHANGED <<rlim, cap, raced>> /\ loose' = (loose \/ c > x)
        /\ uw7_check_rlimit64([cur |-> c, max |-> x], rlim[r])
    BY <1>4 DEF uw7_setrlimit64, Error
  <2>2. r \in Resources /\ c \in Int /\ x \in Int /\ cap \in BOOLEAN /\ loose \in BOOLEAN
    BY RlimitAssumption, Numbers DEF IInv, Types
  <2>3. a \in [res : Resources, cur : Int, max : Int] /\ a.res = r /\ a.cur = c /\ a.max = x
    BY <2>2
  <2>4. pc'[t] = "rlim64_cur" /\ arg'[t] = a
    BY <2>1 DEF Go, IInv, Types
  <2>5. cap \/ x <= rlim[r].max
    BY <2>1 DEF uw7_check_rlimit64
  <2>6. loose' \in BOOLEAN /\ (loose => loose') /\ (loose' \/ c <= x)
    <3>1. c > x \/ c <= x
      BY <2>2
    <3>2. (c > x) \in BOOLEAN
      BY <2>2
    <3> QED
      BY <2>1, <2>2, <3>1, <3>2, Zenon
  <2>7. CallOK(t)'
    BY <2>1, <2>3, <2>4, <2>5, <2>6 DEF CallOK, Setting
  <2> HIDE DEF a
  <2>8. IInv'
    BY <2>1, <2>3, <2>6, <2>7, StartStep DEF PCs
  <2> QED
    BY <1>2, <2>1, <2>8 DEF IInv
<1>5. ASSUME NEW t \in Threads, svr4_setrlimit(t)
      PROVE  UNCHANGED vars
  BY <1>5 DEF svr4_setrlimit, Error
<1> QED
  BY <1>1, <1>3, <1>4, <1>5, WriteStep DEF Next

(* IInv holds in every reachable state.                                    *)
THEOREM Inductive == Spec => []IInv
BY InitIInv, Step, PTL DEF Spec

(* svr4_ulimit() and uw7_setrlimit64() never raise a hard limit of a       *)
(* process without CAP_SYS_RESOURCE, unless its threads race.              *)
THEOREM HardLimitsFall == Spec => HardLimitOnlyFalls
BY Inductive, Step, PTL DEF Spec, HardLimitOnlyFalls

(* Between calls, a process whose threads do not race and that asks for no *)
(* soft limit above the hard one has none.                                 *)
THEOREM SoftLimitsHold == Spec => []SoftWithinHard
<1>1. IInv => SoftWithinHard
  BY DEF IInv, Softs, SoftOK, SoftWithinHard
<1> QED
  BY <1>1, Inductive, PTL
=============================================================================
