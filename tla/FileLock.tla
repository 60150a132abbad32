------------------------------ MODULE FileLock ------------------------------
(***************************************************************************)
(* Record locks and file flags of System V and Xenix programs:             *)
(* svr4_fcntl() (abi/svr4/fcntl.c) and xnx_locking() (abi/cxenix/misc.c).  *)
(* Processes lock one region of a file; where the region begins and ends   *)
(* is passed through.  The threads of a process share one flock structure. *)
(* The two kinds of programs number the types of locks differently from    *)
(* Linux, and locking() translates in the program's memory.                *)
(***************************************************************************)
EXTENDS Personality

CONSTANTS Procs,
          Abi,        \* of each process: "svr4" or "xenix"
          Threads,
          Owner,      \* the process of each thread
          FileFlags   \* bound: the status flags (sets of bits) the file is opened with

VARIABLES lock,      \* Linux: the type of each process' lock
          l_type,    \* the field of the process' structure
          believed,  \* history: the lock a process was told it has
          shows,     \* history: what l_type should hold, in the program's numbers
          pc, call,  \* of the threads: command, the kernel's l_type, the type asked for
          f_flags,   \* status flags of the open file
          wanted,    \* history: O_APPEND and O_NONBLOCK as the programs want them
          uflags,    \* the flags each process got from F_GETFL, and wanted then
          raced      \* history: two threads used a structure at once

vars == <<lock, l_type, believed, shows, pc, call, f_flags, wanted, uflags, raced>>

F_RDLCK == 0
F_WRLCK == 1
F_UNLCK == 2
GETLK == 5
SETLK == 6
SETLKW == 7
XF_UNLCK == 0
XF_WRLCK == 1
XF_RDLCK == 3
NoCall == [cmd |-> 0, type |-> 0, asked |-> F_UNLCK]
NoFlags == <<>>

(* The lock a program means by a number, and the number for a lock. *)
Meant(p, n) == IF Abi[p] = "svr4" THEN n - 1
               ELSE CASE n = XF_UNLCK -> F_UNLCK [] n = XF_WRLCK -> F_WRLCK [] OTHER -> F_RDLCK
Numbered(p, lk) == CHOOSE n \in (IF Abi[p] = "svr4" THEN 1 .. 3 ELSE {0, 1, 3}) : Meant(p, n) = lk

Init ==
    /\ lock = [p \in Procs |-> F_UNLCK] /\ believed = lock
    /\ l_type = [p \in Procs |-> Numbered(p, F_WRLCK)] /\ shows = l_type
    /\ pc = [t \in Threads |-> "user"] /\ call = [t \in Threads |-> NoCall]
    /\ f_flags \in FileFlags /\ wanted = f_flags \cap {10, 11} /\ uflags = [p \in Procs |-> NoFlags] /\ raced = FALSE

flags == <<f_flags, wanted, uflags>>
Go(t, l) == pc' = [pc EXCEPT ![t] = l]
Races(t) == raced' = (raced \/ \E u \in Threads \ {t} : Owner[u] = Owner[t] /\ pc[u] # "user")
Return(t) == Go(t, "user") /\ call' = [call EXCEPT ![t] = NoCall]

-----------------------------------------------------------------------------
(* Linux: fcntl_setlk() and fcntl_getlk(). *)
Conflicts(p, type) ==
    {q \in Procs \ {p} : lock[q] # F_UNLCK /\ (type = F_WRLCK \/ lock[q] = F_WRLCK)}
May(p, type) == type = F_UNLCK \/ Conflicts(p, type) = {}
Grant(t, type) ==
    /\ lock' = [lock EXCEPT ![Owner[t]] = type]
    /\ believed' = [believed EXCEPT ![Owner[t]] = call[t].asked]
GetlkType(p, type) == IF May(p, type) THEN F_UNLCK ELSE lock[CHOOSE q \in Conflicts(p, type) : TRUE]
Shown(p, type) == shows' = [shows EXCEPT ![p] = Numbered(p, GetlkType(p, type))]

-----------------------------------------------------------------------------
(* The program fills its structure. *)
fill(t, n) ==
    /\ pc[t] = "user" /\ Races(t)
    /\ l_type' = [l_type EXCEPT ![Owner[t]] = n] /\ shows' = [shows EXCEPT ![Owner[t]] = n]
    /\ UNCHANGED <<lock, believed, pc, call, flags>>

(* svr4_fcntl_flock(): a copy of the structure goes to sys_fcntl(). *)
svr4_fcntl_flock(n) == n - 1
flock_enter(t, cmd) ==
    LET p == Owner[t]
    IN /\ pc[t] = "user" /\ Abi[p] = "svr4" /\ Go(t, "fcntl") /\ Races(t)
       /\ call' = [call EXCEPT ![t] =
             [cmd |-> cmd, asked |-> Meant(p, l_type[p]), type |-> svr4_fcntl_flock(l_type[p])]]
       /\ UNCHANGED <<lock, l_type, believed, shows, flags>>
flock_refused(t) ==
    /\ pc[t] = "fcntl" /\ Return(t)
    /\ \/ call[t].type \notin 0 .. 2
       \/ call[t].cmd = SETLK /\ ~May(Owner[t], call[t].type)
    /\ UNCHANGED <<lock, l_type, believed, shows, flags, raced>>
flock_done(t) ==
    LET p == Owner[t]  c == call[t]
    IN /\ pc[t] = "fcntl" /\ c.type \in 0 .. 2 /\ Return(t) /\ Races(t)
       /\ \/ /\ c.cmd = GETLK /\ UNCHANGED <<lock, believed>>
             /\ l_type' = [l_type EXCEPT ![p] = GetlkType(p, c.type) + 1] /\ Shown(p, c.type)
          \/ /\ c.cmd # GETLK /\ May(p, c.type) /\ Grant(t, c.type)
             /\ l_type' = [l_type EXCEPT ![p] = c.type + 1] /\ UNCHANGED shows
       /\ UNCHANGED flags

-----------------------------------------------------------------------------
(* xnx_locking(), modes 5 to 7: l_type is translated in the program's      *)
(* memory, sys_fcntl() reads it there, and what is there then is           *)
(* translated back, on errors too.                                         *)
to_linux(n) == IF n = XF_UNLCK THEN F_UNLCK ELSE IF n = XF_WRLCK THEN F_WRLCK ELSE F_RDLCK
to_xenix(n) == IF n = F_UNLCK THEN XF_UNLCK ELSE IF n = F_WRLCK THEN XF_WRLCK
               ELSE IF n = F_RDLCK THEN XF_RDLCK ELSE n
xnx_enter(t, mode) ==
    LET p == Owner[t]
    IN /\ pc[t] = "user" /\ Abi[p] = "xenix" /\ Races(t)
       /\ IF l_type[p] \notin {XF_UNLCK, XF_WRLCK, XF_RDLCK} THEN UNCHANGED <<pc, call, l_type>>
          ELSE /\ Go(t, "xnx_fcntl") /\ l_type' = [l_type EXCEPT ![p] = to_linux(@)]
               /\ call' = [call EXCEPT ![t] = [cmd |-> mode, type |-> 0, asked |-> Meant(p, l_type[p])]]
       /\ UNCHANGED <<lock, believed, shows, flags>>
xnx_fcntl(t) ==
    LET p == Owner[t]  cmd == call[t].cmd  type == l_type[p]
    IN /\ pc[t] = "xnx_fcntl" /\ Go(t, "xnx_back")
       /\ \/ /\ type \notin 0 .. 2 \/ (cmd = SETLK /\ ~May(p, type))
             /\ UNCHANGED <<lock, believed, l_type, shows>>
          \/ /\ type \in 0 .. 2 /\ cmd = GETLK /\ UNCHANGED <<lock, believed>>
             /\ l_type' = [l_type EXCEPT ![p] = GetlkType(p, type)] /\ Shown(p, type)
          \/ /\ type \in 0 .. 2 /\ cmd # GETLK /\ May(p, type) /\ Grant(t, type)
             /\ UNCHANGED <<l_type, shows>>
       /\ UNCHANGED <<call, flags, raced>>
xnx_back_once(t) ==
    /\ pc[t] = "xnx_back" /\ Return(t) /\ UNCHANGED <<lock, l_type, believed, shows, flags, raced>>
xnx_back(t) ==
    /\ pc[t] = "xnx_back" /\ Return(t)
    /\ l_type' = [l_type EXCEPT ![Owner[t]] = to_xenix(@)]
    /\ UNCHANGED <<lock, believed, shows, flags, raced>>

(* Modes 0 to 4 and 20: unlock; write locks; read locks. *)
mode_type(mode) == IF mode = 0 THEN F_UNLCK ELSE IF mode \in {1, 2, 20} THEN F_WRLCK ELSE F_RDLCK
xnx_locking(t, mode) ==
    /\ pc[t] = "user" /\ Abi[Owner[t]] = "xenix" /\ Races(t)
    /\ \/ May(Owner[t], mode_type(mode))
          /\ lock' = [lock EXCEPT ![Owner[t]] = mode_type(mode)]
          /\ believed' = [believed EXCEPT ![Owner[t]] =
                CASE mode = 0 -> F_UNLCK [] mode \in {1, 2, 20} -> F_WRLCK [] mode \in {3, 4} -> F_RDLCK]
       \/ mode % 2 = 0 /\ ~May(Owner[t], mode_type(mode)) /\ UNCHANGED <<lock, believed>>
    /\ UNCHANGED <<l_type, shows, pc, call, flags>>

-----------------------------------------------------------------------------
(* F_GETFL and F_SETFL.  Bits 10 to 12 of Linux' flags are O_APPEND,       *)
(* O_NONBLOCK and O_SYNC; Linux sets the first two, and FASYNC, bit 13.    *)
Settable == {10, 11, 13}
fl_svr4_to_linux ==
    <<{0}, {1}, {11}, {10}, {12}, {}, {}, {11}, {6}, {6, 9}, {7}, {8}, {}, {}, {}, {}>>
fl_linux_to_svr4 ==
    <<{0}, {1}, {}, {}, {}, {}, {8}, {10}, {11}, {9}, {3}, {2}, {4}, {}, {}, {}>>
Changes == [on : {{}, {2}, {3}, {7}}, off : {{}, {2}, {3}}]
Means(word) == {IF b = 3 THEN 10 ELSE 11 : b \in word \cap {2, 3, 7}}
getfl(t) ==
    /\ pc[t] = "user" /\ Abi[Owner[t]] = "svr4"
    /\ uflags' = [uflags EXCEPT ![Owner[t]] = <<map_flags(f_flags, fl_linux_to_svr4), wanted>>]
    /\ UNCHANGED <<lock, l_type, believed, shows, pc, call, f_flags, wanted, raced>>
setfl(t, c) ==
    LET u == uflags[Owner[t]]  new == map_flags((u[1] \ c.off) \cup c.on, fl_svr4_to_linux)
    IN /\ pc[t] = "user" /\ u # NoFlags
       /\ f_flags' = (f_flags \ Settable) \cup (new \cap Settable)
       /\ wanted' = (u[2] \ Means(c.off)) \cup Means(c.on)
       /\ uflags' = [uflags EXCEPT ![Owner[t]] = NoFlags]
       /\ UNCHANGED <<lock, l_type, believed, shows, pc, call, raced>>

(* Bound: nothing is claimed after two threads used one structure, and     *)
(* such behaviours are not followed further.                               *)
Next ==
    ~raced /\ \E t \in Threads :
      \/ \E n \in 0 .. 3 : fill(t, n)
      \/ \E cmd \in {GETLK, SETLK, SETLKW} : flock_enter(t, cmd) \/ xnx_enter(t, cmd)
      \/ flock_refused(t) \/ flock_done(t) \/ xnx_fcntl(t) \/ xnx_back(t)
      \/ \E mode \in (0 .. 4) \cup {20} : xnx_locking(t, mode)
      \/ getfl(t) \/ \E c \in Changes : setfl(t, c)

Spec == Init /\ [][Next]_vars

-----------------------------------------------------------------------------
TypeOK ==
    /\ {lock, believed} \subseteq [Procs -> 0 .. 2] /\ {l_type, shows} \subseteq [Procs -> 0 .. 3]
    /\ \A t \in Threads : pc[t] = "user" => call[t] = NoCall
    /\ f_flags \subseteq 0 .. 15 /\ raced \in BOOLEAN

(* The lock that a process was told it has, in its own numbers and through *)
(* fcntl() or any mode of locking(), is the one it has.                    *)
LockIsTheOneAsked == ~raced => believed = lock

(* Between calls the structure holds what the program wrote or, after     *)
(* F_GETLK, the lock that is in the way, in the program's numbers: errors  *)
(* leave it alone.  Two threads that use one structure in locking() see    *)
(* Linux' numbers in it.                                                   *)
StructureIsTheProgramsOwn ==
    \A p \in Procs :
      (~raced /\ \A t \in Threads : Owner[t] = p => pc[t] = "user") => l_type[p] = shows[p]

(* When programs read the flags with F_GETFL, set or clear some and write  *)
(* them with F_SETFL, the file is in append and in non-blocking mode when  *)
(* they want it.  (Clearing O_NONBLOCK is left out: F_GETFL reports it as  *)
(* O_NDELAY, which such a program leaves set.)                             *)
FlagsAreTheProgramsOwn == f_flags \cap {10, 11} = wanted
=============================================================================
