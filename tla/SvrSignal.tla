------------------------------ MODULE SvrSignal ------------------------------
(***************************************************************************)
(* The signal calls of System V programs (abi/svr4/signal.c and            *)
(* abi/cxenix/signal.c) on top of Linux signals: one task calls them while *)
(* others send it signals at any moment, between the two halves of         *)
(* sigset() too.                                                           *)
(*                                                                         *)
(* The calls take the personality's signal numbers; pending, shared,       *)
(* blocked and action hold Linux ones.  want and wantAct are the mask and  *)
(* the handlers as the program asked for them, in its own numbers.         *)
(***************************************************************************)
EXTENDS Personality, FiniteSets

CONSTANTS Pers,         \* personalities
          UserSignals,  \* the numbers the program passes
          Handled,      \* those it installs handlers for, and is sent
          Masks,        \* the sets of numbers it passes
          MaxFrames     \* how deep handlers nest

VARIABLES pers,
          pending, shared,  \* sent to the task, sent to its process
          blocked, action,
          pc,               \* where the task is
          sig, vec,         \* sigset(), sigpause(): the Linux signal and the handler
          saved,            \* sys_sigsuspend()'s saveset, and the mask to go back to
          frames,           \* the handlers that run, innermost last
          err,              \* the carry flag of the last call
          want, wantAct

kernel == <<pending, shared, blocked, action>>
vars == <<pers, pending, shared, blocked, action, pc, sig, vec, saved, frames, err,
          want, wantAct>>

LinuxSignals == 1 .. 31
SIGKILL == 9
SIGSTOP == 19
Act(h, flags, mask) == [handler |-> h, flags |-> flags, mask |-> mask]
Default == Act("DFL", {}, {})
Handlers == {"DFL", "IGN", "H"}
Unsaved == [blocked |-> {-1}, want |-> {-1}]

Map == exec_domain[pers].signal_map
Invmap == exec_domain[pers].signal_invmap

(* abi_mapsig() and abi_signo(): -1 is the error. *)
abi_mapsig(s) == IF s >= NSIGNALS THEN -1 ELSE Map[s + 1]

(* A mask as the word the program passes: bit s - 1 is signal s. *)
Word(S) == {s - 1 : s \in S}
Numbers(w) == {b + 1 : b \in w}

-----------------------------------------------------------------------------
(* The kernel's own calls. *)
sys_rt_sigprocmask(how, set) ==
    blocked' = (CASE how = "SIG_BLOCK" -> blocked \cup set
                  [] how = "SIG_UNBLOCK" -> blocked \ set
                  [] how = "SIG_SETMASK" -> set) \ {SIGKILL, SIGSTOP}

MayChange(s) == s \in LinuxSignals \ {SIGKILL, SIGSTOP}
sys_rt_sigaction(s, act) ==
    /\ action' = [action EXCEPT ![s] = [act EXCEPT !.mask = @ \ {SIGKILL, SIGSTOP}]]
    /\ IF act.handler = "IGN"
       THEN pending' = pending \ {s} /\ shared' = shared \ {s}
       ELSE UNCHANGED <<pending, shared>>

(* The numbers that have a Linux signal of their own, which may be masked. *)
OwnSignals ==
    [p \in Pers |->
        LET map == exec_domain[p].signal_map
        IN  {a \in UserSignals \cap (1 .. 31) :
               /\ map[a + 1] \notin {-1, SIGKILL, SIGSTOP}
               /\ \A b \in (1 .. 31) \ {a} : map[b + 1] # map[a + 1]}]
Views == OwnSignals[pers]

Init ==
    /\ pers \in Pers
    /\ pending = {} /\ shared = {} /\ blocked = {}
    /\ action = [s \in LinuxSignals |-> Default]
    /\ pc = "user" /\ sig = 0 /\ vec = "DFL" /\ saved = Unsaved /\ frames = << >>
    /\ err = FALSE
    /\ want = {} /\ wantAct = [a \in Views |-> Default]

(* Every signal call begins with eax and the carry cleared and abi_signo(). *)
Call == pc = "user"
Refused ==
    /\ err' = TRUE
    /\ UNCHANGED <<kernel, pers, pc, sig, vec, saved, frames, want, wantAct>>

Wants(a, act) == wantAct' = [v \in Views |-> IF v = a THEN act ELSE wantAct[v]]

-----------------------------------------------------------------------------
(* abi_sig_handler() for signal(): one shot, not masked. *)
abi_signal(a, h) ==
    /\ Call
    /\ IF ~MayChange(abi_mapsig(a)) THEN Refused
       ELSE /\ sys_rt_sigaction(abi_mapsig(a), Act(h, {"ONESHOT", "NOMASK"}, {}))
            /\ Wants(a, Act(h, {"ONESHOT", "NOMASK"}, {}))
            /\ err' = FALSE
            /\ UNCHANGED <<pers, blocked, pc, sig, vec, saved, frames, want>>

(* abi_sigset(): SIG_HOLD blocks; a handler drops what is pending for the  *)
(* task, is installed, and the signal is unblocked, in three steps.        *)
sigset_hold_late(a) ==
    /\ Call
    /\ sys_rt_sigprocmask("SIG_BLOCK", {IF abi_mapsig(a) = -1 THEN 31 ELSE abi_mapsig(a)})
    /\ want' = want \cup ({a} \cap Views) /\ err' = (abi_mapsig(a) = -1)
    /\ UNCHANGED <<pers, pending, shared, action, pc, sig, vec, saved, frames, wantAct>>
sigset_hold(a) ==
    /\ Call
    /\ IF abi_mapsig(a) = -1 THEN Refused
       ELSE /\ sys_rt_sigprocmask("SIG_BLOCK", {abi_mapsig(a)})
            /\ want' = want \cup ({a} \cap Views) /\ err' = FALSE
            /\ UNCHANGED <<pers, pending, shared, action, pc, sig, vec, saved, frames, wantAct>>

deactivate_signal(a, h) ==
    /\ Call
    /\ IF abi_mapsig(a) = -1 THEN Refused
       ELSE /\ pending' = pending \ {abi_mapsig(a)}
            /\ pc' = "sigset_action" /\ sig' = a /\ vec' = h /\ err' = FALSE
            /\ UNCHANGED <<pers, shared, blocked, action, saved, frames, want, wantAct>>

sigset_action ==
    /\ pc = "sigset_action" /\ pc' = "sigset_unblock"
    /\ IF MayChange(abi_mapsig(sig))
       THEN /\ sys_rt_sigaction(abi_mapsig(sig), Act(vec, {}, {}))
            /\ Wants(sig, Act(vec, {}, {}))
            /\ UNCHANGED err
       ELSE err' = TRUE /\ UNCHANGED <<pending, shared, action, wantAct>>
    /\ UNCHANGED <<pers, blocked, sig, vec, saved, frames, want>>

sigset_unblock ==
    /\ pc = "sigset_unblock" /\ pc' = "user" /\ sig' = 0 /\ vec' = "DFL"
    /\ sys_rt_sigprocmask("SIG_UNBLOCK", {abi_mapsig(sig)}) /\ want' = want \ {sig}
    /\ UNCHANGED <<pers, pending, shared, action, saved, frames, err, wantAct>>

abi_sighold(a) == sigset_hold(a)

abi_sigrelse(a) ==
    /\ Call
    /\ IF abi_mapsig(a) = -1 THEN Refused
       ELSE /\ sys_rt_sigprocmask("SIG_UNBLOCK", {abi_mapsig(a)})
            /\ want' = want \ {a} /\ err' = FALSE
            /\ UNCHANGED <<pers, pending, shared, action, pc, sig, vec, saved, frames, wantAct>>

abi_sigignore(a) ==
    /\ Call
    /\ IF ~MayChange(abi_mapsig(a)) THEN Refused
       ELSE /\ sys_rt_sigaction(abi_mapsig(a), Act("IGN", {}, {}))
            /\ Wants(a, Act("IGN", {}, {})) /\ err' = FALSE
            /\ UNCHANGED <<pers, blocked, pc, sig, vec, saved, frames, want>>

(* sys_sigsuspend(): the mask is replaced until a handler has run. *)
sys_sigsuspend(mask, label) ==
    /\ saved' = [blocked |-> blocked, want |-> want]
    /\ blocked' = mask \ {SIGKILL, SIGSTOP}
    /\ pc' = label /\ err' = FALSE
    /\ UNCHANGED <<pers, pending, shared, action, vec, frames, wantAct>>

(* abi_sigpause(): newset = (~0UL) & (1UL << (sig-1)). *)
abi_sigpause(a) ==
    /\ Call
    /\ IF abi_mapsig(a) = -1 THEN Refused
       ELSE sys_sigsuspend({abi_mapsig(a)}, "sigpause") /\ sig' = a /\ UNCHANGED want

(* abi_sigsuspend(): map_bitvec() gives bit numbers. *)
abi_sigsuspend(M) ==
    /\ Call
    /\ sys_sigsuspend(Numbers(map_bitvec(Word(M), Map)), "sigsuspend")
    /\ want' = M \cap Views /\ UNCHANGED sig

(* abi_sigprocmask(): how is 0 to 3. *)
howcnv == <<"SIG_SETMASK", "SIG_BLOCK", "SIG_UNBLOCK", "SIG_SETMASK">>
Combined(how, S, M) ==
    CASE how = 1 -> S \cup M [] how = 2 -> S \ M [] how \in {0, 3} -> M
abi_sigprocmask(how, M) ==
    /\ Call
    /\ sys_rt_sigprocmask(howcnv[how + 1], map_sigvec_to_kernel(Word(M), Map))
    /\ want' = Combined(how, want, M) \cap Views
    /\ err' = FALSE
    /\ UNCHANGED <<pers, pending, shared, action, pc, sig, vec, saved, frames, wantAct>>

(* abi_sigaction() never clears nsa.sa_flags: besides the flags that are   *)
(* asked for, any may be set.  xnx_sigaction() starts from none and knows  *)
(* SA_NOCLDSTOP only.                                                      *)
abi_sigaction(a, h, M) ==
    /\ Call
    /\ \E garbage \in {{}, {"ONESHOT"}, {"NOMASK"}} :
         IF ~MayChange(abi_mapsig(a)) THEN Refused
         ELSE /\ sys_rt_sigaction(abi_mapsig(a),
                     Act(h, garbage, map_sigvec_to_kernel(Word(M), Map)))
              /\ Wants(a, Act(h, {"unknown"}, M))
              /\ err' = FALSE
              /\ UNCHANGED <<pers, blocked, pc, sig, vec, saved, frames, want>>
xnx_sigaction(a, h, M) ==
    /\ Call
    /\ IF a >= NSIGNALS \/ ~MayChange(Map[a + 1]) THEN Refused
       ELSE /\ sys_rt_sigaction(Map[a + 1], Act(h, {}, map_sigvec_to_kernel(Word(M), Map)))
            /\ Wants(a, Act(h, {}, M))
            /\ err' = FALSE
            /\ UNCHANGED <<pers, blocked, pc, sig, vec, saved, frames, want>>

(* What abi_sigprocmask() and the two sigaction()s read back, and           *)
(* xnx_sigpending(), which looks at the signals sent to the task only.     *)
Numbered(S) == Numbers(map_sigvec_from_kernel(S, Invmap))
old_set == Numbered(blocked)
old_mask(a) == Numbered(action[Map[a + 1]].mask)
xnx_sigpending == Numbered(blocked \cap pending)

-----------------------------------------------------------------------------
(* Linux: a signal is sent to the task or to the process; an ignored one   *)
(* is dropped unless it is blocked.                                        *)
Send(s) ==
    /\ action[s].handler # "IGN" \/ s \in blocked
    /\ \/ pending' = pending \cup {s} /\ UNCHANGED shared
       \/ shared' = shared \cup {s} /\ UNCHANGED pending
    /\ UNCHANGED <<pers, blocked, action, pc, sig, vec, saved, frames, err, want, wantAct>>

Deliverable == (pending \cup shared) \ blocked

(* get_signal_to_deliver() and handle_signal(), on the way back to the     *)
(* program; a signal of the task goes first.                               *)
Taken(s) ==
    IF s \in pending THEN pending' = pending \ {s} /\ UNCHANGED shared
    ELSE shared' = shared \ {s} /\ UNCHANGED pending
deliver(s) ==
    LET act == action[s]
        oneshot == "ONESHOT" \in act.flags
        self == IF "NOMASK" \in act.flags THEN {} ELSE {s}
        back == IF saved = Unsaved THEN [blocked |-> blocked, want |-> want] ELSE saved
    IN  /\ pc \in {"user", "sigpause", "sigsuspend"} /\ s \in Deliverable
        /\ act.handler = "H" /\ Len(frames) < MaxFrames
        /\ Taken(s)
        /\ frames' = Append(frames, [back |-> back, sig |-> s, pause |-> pc = "sigpause"])
        /\ action' = IF oneshot THEN [action EXCEPT ![s] = Default] ELSE action
        /\ wantAct' = [a \in Views |->
              IF Map[a + 1] = s /\ "ONESHOT" \in wantAct[a].flags THEN Default ELSE wantAct[a]]
        /\ blocked' = blocked \cup (act.mask \cup self)
        /\ want' = want \cup {a \in Views : Map[a + 1] \in act.mask \cup self}
        /\ pc' = "user" /\ saved' = Unsaved /\ sig' = 0 /\ UNCHANGED <<pers, vec, err>>

(* An ignored signal, and one whose default is to do nothing, is thrown    *)
(* away; the others end the program.                                       *)
discard(s) ==
    /\ pc \in {"user", "sigpause", "sigsuspend"} /\ s \in Deliverable
    /\ action[s].handler # "H"
    /\ Taken(s)
    /\ UNCHANGED <<pers, blocked, action, pc, sig, vec, saved, frames, err, want, wantAct>>

(* The handler returns: the mask under it is back. *)
sigreturn ==
    /\ Call /\ frames # << >>
    /\ blocked' = frames[Len(frames)].back.blocked /\ want' = frames[Len(frames)].back.want
    /\ frames' = SubSeq(frames, 1, Len(frames) - 1)
    /\ UNCHANGED <<pers, pending, shared, action, pc, sig, vec, saved, err, wantAct>>

abi_sigfunc ==
    \/ \E a \in UserSignals :
         sigset_hold(a) \/ abi_sighold(a) \/ abi_sigrelse(a) \/ abi_sigpause(a)
    \/ \E a \in Handled :
         \/ abi_sigignore(a)
         \/ \E h \in Handlers : abi_signal(a, h) \/ deactivate_signal(a, h)
    \/ sigset_action \/ sigset_unblock

Sent == {Map[a + 1] : a \in Views \cap Handled}
Next ==
    \/ abi_sigfunc
    \/ \E M \in Masks : abi_sigsuspend(M) \/ \E how \in 0 .. 3 : abi_sigprocmask(how, M)
    \/ \E a \in Handled, M \in Masks :
         abi_sigaction(a, "H", M) \/ xnx_sigaction(a, "H", M)
    \/ \E s \in Sent : Send(s) \/ deliver(s) \/ discard(s)
    \/ sigreturn

Spec == Init /\ [][Next]_vars

-----------------------------------------------------------------------------
TypeOK ==
    /\ pers \in Pers /\ err \in BOOLEAN
    /\ pending \cup shared \cup blocked \subseteq LinuxSignals
    /\ SIGKILL \notin blocked /\ SIGSTOP \notin blocked
    /\ pc \in {"user", "sigset_action", "sigset_unblock", "sigpause", "sigsuspend"}
    /\ DOMAIN action = LinuxSignals

(* A handler that sigpause() let in runs with sigpause()'s mask. *)
InSigpause == pc = "sigpause" \/ \E i \in DOMAIN frames : frames[i].pause

(* Whatever mixture of sighold(), sigrelse(), sigset(), sigprocmask(),     *)
(* sigsuspend() and handlers led here, a signal that has a Linux signal of *)
(* its own is blocked exactly when the program asked for that, outside     *)
(* sigpause(), and sigprocmask() reads it back so (abi/svr4/signal.c,      *)
(* abi/util/map.h).                                                        *)
MaskIsWhatTheProgramSet ==
    ~InSigpause =>
        /\ \A a \in Views : (a \in want) <=> (Map[a + 1] \in blocked)
        /\ old_set \cap Views = want

(* The handler of such a signal is the last one that signal(), sigset(),   *)
(* sigignore() or Xenix's sigaction() installed, DFL once a one-shot       *)
(* handler has run; it runs with the mask that was asked for               *)
(* (abi_sig_handler(), xnx_sigaction()).  abi_sigaction() cannot promise   *)
(* that: its flags are not initialised.                                    *)
HandlerIsWhatTheProgramSet ==
    \A a \in Views : "unknown" \notin wantAct[a].flags =>
        LET act == action[Map[a + 1]]
        IN  /\ act.handler = wantAct[a].handler /\ act.flags = wantAct[a].flags
            /\ old_mask(a) \cap Views = wantAct[a].mask \cap Views

(* A call that reports an error has changed neither mask nor handlers nor  *)
(* lost a signal: abi_signo() and sys_rt_sigaction() refuse before         *)
(* anything is done, and the rest of sigset() has no effect then.          *)
FailedCall == err' /\ ~err => UNCHANGED kernel
FailedCallChangesNothing == [][FailedCall]_vars
=============================================================================
