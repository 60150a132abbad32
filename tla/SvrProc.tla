------------------------------ MODULE SvrProc ------------------------------
(***************************************************************************)
(* Processes of System V programs: abi_fork(), abi_wait(), abi_kill() and  *)
(* abi_procids() (abi/svr4/misc.c), svr4_waitid() (abi/svr4/svr4.c) and    *)
(* wyse_wait3() (abi/wyse/socket.c).  A program has children that exit,    *)
(* are killed or stopped, and asks for them in one of three ways; every    *)
(* process may ask for or change its group and session.                    *)
(*                                                                         *)
(* A status is the word that Linux makes: code * 256 of an exit, the       *)
(* signal (and 128 with a core) of a death, signal * 256 + 127 of a stop.  *)
(* A word with its upper bits set is negative.  The signals are below      *)
(* NSIGNALS: wyse_wait3() and abi_kill() index their table with more.      *)
(***************************************************************************)
EXTENDS Personality

CONSTANTS Pers,      \* personalities of the program
          Children,  \* process ids of children, numbers above Self
          Exits,     \* exit codes
          Hits,      \* Linux signals that others send the children
          Kills      \* the program's numbers of signals it sends

VARIABLES per,    \* the program's personality
          proc,   \* the children: state, status, group, session
          loc,    \* the word the program keeps statuses in; Xenix: its register edx
          said    \* the last wait: the call, its result, Linux' status, and what waitid() told

vars == <<per, proc, loc, said>>

Self == 1
Procs == {Self} \cup Children
Shell == 0    \* leads the session and the group the program starts in
SIGKILL == 9
SIGCHLD == 17
SIGCONT == 18
Stops == 19 .. 22
Ignored == {SIGCHLD, 23, 28}
Cores == {3, 4, 5, 6, 7, 8, 11, 24, 25, 31}
ECHILD == 10
NoInfo == [code |-> 0, status |-> 0]
Nothing == [call |-> "none", result |-> 0, fate |-> 0, info |-> NoInfo]

Map == exec_domain[per].signal_map
Invmap == exec_domain[per].signal_invmap

Init ==
    /\ per \in Pers
    /\ proc = [p \in Procs |-> [st |-> IF p = Self THEN "running" ELSE "none", status |-> 0,
                                pgrp |-> Shell, sid |-> Shell]]
    /\ loc = 0 /\ said = Nothing

-----------------------------------------------------------------------------
(* Linux: the children's lives.  A stop is reported once. *)
exit(c, status) == proc' = [proc EXCEPT ![c].st = "zombie", ![c].status = status]
Lives(c) == proc[c].st \in {"running", "stopped", "held"}
take(c, s) ==
    IF ~Lives(c) \/ s \in Ignored \/ (proc[c].st # "running" /\ s \notin {SIGKILL, SIGCONT})
    THEN UNCHANGED proc
    ELSE IF s = SIGCONT THEN proc' = [proc EXCEPT ![c].st = "running"]
    ELSE IF s \in Stops
         THEN proc' = [proc EXCEPT ![c].st = "stopped", ![c].status = s * 256 + 127]
    ELSE exit(c, IF s \in Cores THEN s + 128 ELSE s)

abi_fork(c) ==
    /\ proc[c].st = "none" /\ proc' = [proc EXCEPT ![c] = [proc[Self] EXCEPT !.status = 0]]
    /\ said' = Nothing /\ UNCHANGED <<per, loc>>
child_exits(c, code) ==
    /\ proc[c].st = "running" /\ exit(c, code * 256) /\ UNCHANGED <<per, loc, said>>
child_hit(c, s) == Lives(c) /\ take(c, s) /\ UNCHANGED <<per, loc, said>>

abi_kill(c, sig) ==
    /\ proc[c].st # "none" /\ said' = Nothing /\ UNCHANGED <<per, loc>>
    /\ LET outsig == Map[(sig % 256) + 1]
       IN IF outsig < 1 THEN UNCHANGED proc ELSE take(c, outsig)

(* sys_wait4() of the children in C: the calls return at once, or find one *)
(* that has something to report.                                           *)
Reported(c) == [proc EXCEPT ![c].st = IF @ = "zombie" THEN "none" ELSE "held"]
Ready(C, untraced) ==
    {c \in C : proc[c].st = "zombie" \/ (untraced /\ proc[c].st = "stopped")}
Told(call, result, fate, info) ==
    said' = [call |-> call, result |-> result, fate |-> fate, info |-> info]
sys_wait4(C, nohang, untraced, Found(_), None(_)) ==
    /\ UNCHANGED per
    /\ \/ \E c \in Ready(C, untraced) : proc' = Reported(c) /\ Found(c)
       \/ /\ Ready(C, untraced) = {} /\ UNCHANGED proc
          /\ \/ (\A c \in C : proc[c].st = "none") /\ None(-ECHILD)
             \/ (\E c \in C : proc[c].st # "none") /\ nohang /\ None(0)

-----------------------------------------------------------------------------
(* What abi_wait() and wyse_wait3() make of the word at loc: the number in *)
(* a stop or in a death goes through the map, and the core flag is lost.   *)
Sig(s) == Map[s + 1]
translate(w) ==
    LET high == (w \div 256) % 256
    IN IF w % 256 = 127
       THEN IF high >= NSIGNALS THEN w
            ELSE IF Sig(high) < 0 THEN -129 ELSE w - high * 256 + Sig(high) * 256
       ELSE IF w # 0 /\ w = w % 256 /\ w % 128 < NSIGNALS THEN Sig(w % 128) ELSE w

(* A call with WNOHANG that finds nothing leaves the word as it was, and   *)
(* it is translated again; wyse_wait3() does so when it fails, too.        *)
found_none_zero(w) == 0
found_none(w) == translate(w)

(* abi_wait(): wait() and waitpid(), without a word as well; Xenix' own.   *)
abi_wait(C, nohang, untraced, null) ==
    sys_wait4(C, nohang, untraced,
        LAMBDA c : loc' = (IF null THEN loc ELSE translate(proc[c].status))
                   /\ Told(IF null THEN "null" ELSE "wait", c, proc[c].status, NoInfo),
        LAMBDA r : loc' = (IF null \/ r < 0 THEN loc ELSE found_none(loc))
                   /\ Told("wait", r, loc, NoInfo))
xenix_wait ==
    sys_wait4(Children, FALSE, FALSE,
        LAMBDA c : loc' = proc[c].status /\ Told("wait", c, proc[c].status, NoInfo),
        LAMBDA r : Told("wait", r, loc, NoInfo) /\ UNCHANGED loc)
wyse_wait3(null) ==
    sys_wait4(Children, TRUE, FALSE,
        LAMBDA c : loc' = (IF null THEN loc ELSE translate(proc[c].status))
                   /\ Told(IF null THEN "null" ELSE "wait", c, proc[c].status, NoInfo),
        LAMBDA r : loc' = (IF null THEN loc ELSE found_none(loc)) /\ Told("wait", r, loc, NoInfo))

(* svr4_waitid().  The signal of a child that died is looked for where a   *)
(* stop has it, and is 0.                                                  *)
CLD_EXITED == 1
CLD_KILLED == 2
CLD_DUMPED == 3
CLD_STOPPED == 5
CLD_CONTINUED == 6
child_info(status) ==
    LET high == status \div 256
    IN IF status % 256 = 0 THEN [code |-> CLD_EXITED, status |-> high]
       ELSE [code |-> IF status % 256 = 127
                      THEN IF high \in {19, 20} THEN CLD_STOPPED ELSE CLD_CONTINUED
                      ELSE IF status >= 128 THEN CLD_DUMPED ELSE CLD_KILLED,
             status |-> Invmap[high + 1]]
(* With WNOHANG and no child it tells of a status that nobody stored. *)
svr4_waitid(C, nohang, untraced) ==
    sys_wait4(C, nohang, untraced,
        LAMBDA c : Told("waitid", c, proc[c].status, child_info(proc[c].status)) /\ UNCHANGED loc,
        LAMBDA r : Told("none", r, 0, NoInfo) /\ UNCHANGED loc)

wait ==
    CASE per = "xenix" -> xenix_wait
      [] per = "wyse"  -> \E null \in BOOLEAN : wyse_wait3(null) \/ abi_wait(Children, FALSE, TRUE, null)
      [] OTHER         -> \/ \E null \in BOOLEAN : abi_wait(Children, FALSE, TRUE, null)
                          \/ \E c \in Children, nohang, untraced \in BOOLEAN :
                                \/ abi_wait({c}, nohang, untraced, FALSE)
                                \/ per = "uw7" /\ svr4_waitid({c}, nohang, untraced)

-----------------------------------------------------------------------------
(* abi_procids().  The numbers of a System V.3 program: 2 is setpgid().    *)
Svr3 == {"ibcs", "sco", "wyse", "xenix"}
procids_op(op) == IF per \notin Svr3 THEN op ELSE <<0, 1, 5, 3, -1, -1>>[op + 1]

Leads(q) == proc[q].sid = q
sys_setpgid(q, p, pgid) ==
    IF /\ p = q \/ (q = Self /\ Lives(p) /\ proc[p].sid = proc[q].sid)
       /\ ~Leads(p)
       /\ \/ pgid = p
          \/ pgid = Shell /\ proc[q].sid = Shell
          \/ \E x \in Procs : proc[x].st # "none" /\ proc[x].pgrp = pgid /\ proc[x].sid = proc[q].sid
    THEN proc' = [proc EXCEPT ![p].pgrp = pgid] ELSE UNCHANGED proc
sys_setsid(q) ==
    IF \E x \in Procs : proc[x].st # "none" /\ proc[x].pgrp = q THEN UNCHANGED proc
    ELSE proc' = [proc EXCEPT ![q].pgrp = q, ![q].sid = q]

Grouped(q, r) == said' = [Nothing EXCEPT !.call = "setpgrp", !.result = r, !.fate = q]
abi_procids(q, op, p, pgid) ==
    /\ proc[q].st = "running" /\ UNCHANGED <<per, loc>>
    /\ CASE procids_op(op) = 1 -> sys_setpgid(q, q, q)
         [] procids_op(op) = 3 -> sys_setsid(q)
         [] procids_op(op) = 5 -> sys_setpgid(q, p, pgid)
         [] OTHER              -> UNCHANGED proc      \* getpgrp, getsid, getpgid, and errors
    /\ IF op = 1 THEN Grouped(q, proc'[q].pgrp) ELSE said' = Nothing

Next ==
    \/ \E c \in Children : abi_fork(c) \/ \E code \in Exits : child_exits(c, code)
    \/ \E c \in Children, s \in Hits : child_hit(c, s)
    \/ \E c \in Children, sig \in Kills : abi_kill(c, sig)
    \/ wait
    \/ \E q \in Procs, op \in 0 .. 5 : abi_procids(q, op, q, q)
    \/ \E q, p \in Procs, op \in {2, 5} : abi_procids(q, op, p, Self)

Spec == Init /\ [][Next]_vars

-----------------------------------------------------------------------------
TypeOK ==
    /\ per \in Pers /\ loc \in Int
    /\ \A p \in Procs : /\ proc[p].st \in {"none", "running", "stopped", "held", "zombie"}
                        /\ {proc[p].pgrp, proc[p].sid} \subseteq Procs \cup {Shell}

Kind(w) == IF w % 256 = 0 THEN "exited" ELSE IF w % 256 = 127 THEN "stopped" ELSE "killed"
Codes(w) ==
    IF w % 256 = 0 THEN {CLD_EXITED}
    ELSE IF w % 256 # 127 THEN {IF w >= 128 THEN CLD_DUMPED ELSE CLD_KILLED}
    ELSE IF w \div 256 \in {19, 20} THEN {CLD_STOPPED} ELSE {CLD_STOPPED, CLD_CONTINUED}

(* What the program is told of a child is what became of the child: an     *)
(* exit with its code, a death or a stop, through abi_wait(), Xenix'       *)
(* form of it, wyse_wait3() and svr4_waitid(), whatever the signal and     *)
(* however the word was used before.  A stop by the terminal is            *)
(* CLD_CONTINUED to waitid().                                              *)
ReportedFate ==
    said.result > 0 =>
      /\ said.call = "wait" => /\ Kind(loc) = Kind(said.fate)
                               /\ Kind(loc) = "exited" => loc = said.fate
      /\ said.call = "waitid" => /\ said.info.code \in Codes(said.fate)
                                 /\ Kind(said.fate) = "exited" => said.info.status * 256 = said.fate

(* A wait that finds no child keeps the kind of the older status in the    *)
(* program's word, though it translates that word once more.               *)
Poll == (said'.call = "wait" /\ said'.result <= 0) => Kind(loc') = Kind(loc)
PollKeepsTheKind == [][Poll]_vars

(* After setpgrp() the caller leads its group: abi_procids() returns the   *)
(* group and ignores an error of sys_setpgid(), which is right as long as  *)
(* the processes refused are leaders already.                              *)
SetpgrpMakesALeader == said.call = "setpgrp" => said.result = said.fate
=============================================================================
