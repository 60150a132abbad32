------------------------------- MODULE Rlimit -------------------------------
(***************************************************************************)
(* Resource limits that System V programs set: svr4_ulimit() and           *)
(* svr4_setrlimit() (abi/svr4/ulimit.c), uw7_setrlimit64() (abi/uw7/lfs.c, *)
(* include/abi/uw7/resource.h).  The threads of a process share            *)
(* current->signal->rlim, and nothing locks it.                            *)
(*                                                                         *)
(* Limits are counted in blocks of 512 bytes, ulimit()'s unit, so that the *)
(* two shifts by ULIM_BLOCKSIZE_BITS are left out.                         *)
(***************************************************************************)
EXTENDS RlimitConst

CONSTANT Threads

VARIABLES rlim,    \* Linux: the limits, by resource
          cap,     \* capable(CAP_SYS_RESOURCE)
          pc, arg, \* of the threads; arg is the resource, cur and max
          raced,   \* history: a thread wrote while another was in its call
          loose    \* history: setrlimit64() was asked for cur above max

vars == <<rlim, cap, pc, arg, raced, loose>>

NoArg == [res |-> 0, cur |-> 0, max |-> 0]

Init ==
    /\ rlim \in {[r \in Resources |-> s] : s \in Start} /\ cap \in BOOLEAN
    /\ pc = [t \in Threads |-> "user"] /\ arg = [t \in Threads |-> NoArg]
    /\ raced = FALSE /\ loose = FALSE

Races(t) == raced' = (raced \/ \E u \in Threads \ {t} : pc[u] # "user")
Go(t, l) == pc' = [pc EXCEPT ![t] = l]
Return(t) == Go(t, "user") /\ arg' = [arg EXCEPT ![t] = NoArg]
Error(t) == pc[t] = "user" /\ UNCHANGED vars

-----------------------------------------------------------------------------
(* svr4_ulimit(), U_SETFSIZE: the range, then the hard limit. *)
ulimit_set(t, val) ==
    IF val > ULIM_MAX_BLOCKSIZE \/ (val > rlim[RLIMIT_FSIZE].max /\ ~cap) THEN Error(t)
    ELSE /\ pc[t] = "user" /\ Go(t, IF val > rlim[RLIMIT_FSIZE].max THEN "ulimit_max" ELSE "ulimit_cur")
         /\ arg' = [arg EXCEPT ![t] = [NoArg EXCEPT !.cur = val]]
         /\ UNCHANGED <<rlim, cap, raced, loose>>
ulimit_max(t) ==
    /\ pc[t] = "ulimit_max" /\ Go(t, "ulimit_cur")
    /\ rlim' = [rlim EXCEPT ![RLIMIT_FSIZE].max = arg[t].cur]
    /\ Races(t) /\ UNCHANGED <<cap, arg, loose>>
ulimit_cur(t) ==
    /\ pc[t] = "ulimit_cur" /\ Return(t)
    /\ rlim' = [rlim EXCEPT ![RLIMIT_FSIZE].cur = arg[t].cur]
    /\ Races(t) /\ UNCHANGED <<cap, loose>>

(* svr4_setrlimit() ends in sys_getrlimit(), and sets nothing. *)
svr4_setrlimit(t) == Error(t)

(* uw7_setrlimit64() uses the number of the program as it is. *)
uw7_check_rlimit64_any(new, old) == TRUE
uw7_check_rlimit64(new, old) ==
    \/ cap
    \/ new.cur <= old.max /\ new.max <= old.max
uw7_setrlimit64(t, resource, cur, max) ==
    IF \/ ~uw7_check_rlimit64([cur |-> cur, max |-> max], rlim[resource])
       \/ resource = RLIMIT_NOFILE /\ (cur > NR_OPEN \/ max > NR_OPEN)
    THEN Error(t)
    ELSE /\ pc[t] = "user" /\ Go(t, "rlim64_cur")
         /\ arg' = [arg EXCEPT ![t] = [res |-> resource, cur |-> cur, max |-> max]]
         /\ loose' = (loose \/ cur > max) /\ UNCHANGED <<rlim, cap, raced>>
rlim64_cur(t) ==
    /\ pc[t] = "rlim64_cur" /\ Go(t, "rlim64_max")
    /\ rlim' = [rlim EXCEPT ![arg[t].res].cur = arg[t].cur]
    /\ Races(t) /\ UNCHANGED <<cap, arg, loose>>
rlim64_max(t) ==
    /\ pc[t] = "rlim64_max" /\ Return(t)
    /\ rlim' = [rlim EXCEPT ![arg[t].res].max = arg[t].max]
    /\ Races(t) /\ UNCHANGED <<cap, loose>>

Next ==
    \E t \in Threads :
      \/ svr4_setrlimit(t) \/ (\E val \in Limits \cup {INFINITY} : ulimit_set(t, val))
      \/ ulimit_max(t) \/ ulimit_cur(t) \/ rlim64_cur(t) \/ rlim64_max(t)
      \/ \E res \in Asked, cur, max \in Limits : uw7_setrlimit64(t, res, cur, max)

Spec == Init /\ [][Next]_vars

-----------------------------------------------------------------------------
TypeOK ==
    /\ \A r \in Resources : rlim[r].cur \in 0 .. INFINITY /\ rlim[r].max \in 0 .. INFINITY
    /\ {cap, raced, loose} \subseteq BOOLEAN
    /\ \A t \in Threads : pc[t] = "user" => arg[t] = NoArg

(* Without CAP_SYS_RESOURCE no hard limit ever rises, by ulimit() or by    *)
(* setrlimit64(), as long as threads do not change limits at once: both    *)
(* calls compare with a maximum that another thread may lower before they  *)
(* write.                                                                  *)
Falls == (~cap /\ ~raced') => \A r \in Resources : rlim'[r].max <= rlim[r].max
HardLimitOnlyFalls == [][Falls]_vars

(* Between calls a soft limit is within its hard limit: ulimit() raises    *)
(* the hard limit with the soft one.  setrlimit64() does not compare the   *)
(* two values of one request.                                              *)
SoftWithinHard ==
    ((\A t \in Threads : pc[t] = "user") /\ ~raced /\ ~loose) =>
        \A r \in Resources : rlim[r].cur <= rlim[r].max
=============================================================================
