------------------------------ MODULE Socksys ------------------------------
(***************************************************************************)
(* /dev/socksys and the transport devices of System V programs             *)
(* (abi/svr4/socksys.c, sockio.c, stream.c, the entries of svr4/ioctl.c    *)
(* and xti.c's svr4_sockmod_ioctl()): the descriptor table of a program of *)
(* several threads.  A transport device turns into a socket at the first   *)
(* read, write or stream ioctl: socksys_fdinit() makes a socket, puts it   *)
(* in the place of the device with dup2() and closes the new descriptor.   *)
(* socksys_socketpair() does the same with a pair of sockets.              *)
(*                                                                         *)
(* Each of the calls of the kernel they consist of is a step, so the other *)
(* threads may open and close descriptors in between.                      *)
(***************************************************************************)
EXTENDS Integers, FiniteSets, FiniteSetsExt

CONSTANTS Threads,
          FDs,      \* descriptors, from 0
          Files     \* struct files, from 1

VARIABLES tab,      \* the descriptor table: a file, or 0
          file,     \* the open files
          pc, loc,  \* of each thread: the step it is at, and its locals
          given,    \* history: the descriptors that the program was given
          hist      \* history: "raced": a thread used the table while another was in a
                    \* call; "uneven": a call kept a reference or dropped one too many;
                    \* "crossed": a socketpair() took one of its ends for the other

vars == <<tab, file, pc, loc, given, hist>>

(* A file: the device of some minor number, a socket as Linux made it      *)
(* (S_IFSOCK), or one that inherit_socksys_funcs() turned into a character *)
(* device of minor number 0; the socket it belongs to, and its count.      *)
Dev(minor) == [mode |-> "chr", minor |-> minor, sock |-> 0, count |-> 1]
Sock(s) == [mode |-> "sock", minor |-> 0, sock |-> s, count |-> 1]
Free == [mode |-> "free", minor |-> 0, sock |-> 0, count |-> 0]
Minors == {0, 1, 36}          \* socksys, spx, and one of the transports
Pairs == {0} \cup Files       \* the first file of a pair names the pair; 0: none

NoLoc == [call |-> "none", fd |-> 0, fp |-> 0, new |-> 0, fd2 |-> 0, new2 |-> 0]
Open == {f \in FDs : tab[f] # 0}
Unused == {f \in Files : file[f] = Free}
LowestFd == Min(FDs \ Open)
NewFile == Min(Unused)

Init ==
    /\ tab = [f \in FDs |-> 0] /\ file = [f \in Files |-> Free]
    /\ pc = [t \in Threads |-> "user"] /\ loc = [t \in Threads |-> NoLoc]
    /\ given = {} /\ hist = {}

-----------------------------------------------------------------------------
(* Linux' calls on the table. *)
fget(F, f) == [F EXCEPT ![f].count = @ + 1]
fput(F, f) == [F EXCEPT ![f] = IF @.count <= 1 THEN Free ELSE [@ EXCEPT !.count = @ - 1]]

sys_close(fd) ==
    IF tab[fd] = 0 THEN UNCHANGED <<tab, file>>
    ELSE tab' = [tab EXCEPT ![fd] = 0] /\ file' = fput(file, tab[fd])

sys_dup2(old, new) ==
    IF tab[old] = 0 \/ old = new THEN UNCHANGED <<tab, file>>
    ELSE /\ tab' = [tab EXCEPT ![new] = tab[old]]
         /\ file' = LET F == fget(file, tab[old])
                    IN IF tab[new] = 0 THEN F ELSE fput(F, tab[new])

(* Bound: one step of another thread falls into a call, and the program    *)
(* makes no more calls after one that was raced with, uneven or crossed.   *)
InUser(t) == pc[t] = "user" /\ hist = {}

(* The step of thread t; other threads in calls are raced with. *)
Races(t) == IF \E u \in Threads \ {t} : pc[u] # "user" THEN {"raced"} ELSE {}
Uses(t) == hist' = hist \cup Races(t)
Go(t, p) == pc' = [pc EXCEPT ![t] = p]
Return(t) == Go(t, "user") /\ loc' = [loc EXCEPT ![t] = NoLoc]

(* The program opens a device, duplicates a descriptor or closes one, or   *)
(* it gets a socket from elsewhere: a Linux parent, or another call.       *)
sys_open(t, obj) ==
    /\ InUser(t) /\ FDs # Open /\ Unused # {}
    /\ tab' = [tab EXCEPT ![LowestFd] = NewFile] /\ file' = [file EXCEPT ![NewFile] = obj]
    /\ given' = given \cup {LowestFd} /\ Uses(t) /\ UNCHANGED <<pc, loc>>
sys_dup(t, fd) ==
    /\ InUser(t) /\ FDs # Open /\ tab[fd] # 0
    /\ tab' = [tab EXCEPT ![LowestFd] = tab[fd]] /\ file' = fget(file, tab[fd])
    /\ given' = given \cup {LowestFd} /\ Uses(t) /\ UNCHANGED <<pc, loc>>
close(t, fd) ==
    /\ InUser(t) /\ tab[fd] # 0 /\ sys_close(fd)
    /\ given' = given \ {fd} /\ Uses(t) /\ UNCHANGED <<pc, loc>>

-----------------------------------------------------------------------------
(* The calls that lead to socksys_fdinit(): read and write of a device,    *)
(* which come with a reference of sys_read()'s own, and the stream and     *)
(* sockmod ioctls, which take one.  Only a character device of major       *)
(* number 30 is looked at: a socket of Linux' goes its own way.  Read and  *)
(* write know the file only, and go on with its lowest descriptor.         *)
Calls == {"read", "ioctl"}    \* socksys_read(), _write(); svr4_stream_ioctl(), svr4_sockmod_ioctl()
enter(t, call, fd) ==
    /\ InUser(t) /\ tab[fd] # 0 /\ file[tab[fd]].mode = "chr"
    /\ call = "read" => file[tab[fd]].sock = 0
    /\ file' = fget(file, tab[fd])
    /\ loc' = [loc EXCEPT ![t] = [NoLoc EXCEPT !.call = call, !.fp = tab[fd],
                    !.fd = IF call = "read" THEN Min({d \in FDs : tab[d] = tab[fd]}) ELSE fd]]
    /\ Go(t, "fdinit") /\ Uses(t) /\ UNCHANGED <<tab, given>>

(* An error of socksys_fdinit(): sys_read() drops its reference, the       *)
(* ioctls forget theirs.                                                   *)
error_return(t) ==
    /\ Return(t)
    /\ IF loc[t].call = "read" THEN file' = fput(file, loc[t].fp) /\ UNCHANGED hist
       ELSE hist' = hist \cup {"uneven"} /\ UNCHANGED file

(* socksys_fdinit() gets the file and leaves it again, before it makes the *)
(* socket: minor 0 has no special handling.  The minor is its fp's.        *)
fdinit_minor(t, minor) ==
    /\ pc[t] = "fdinit"
    /\ LET f == tab[loc[t].fd] IN minor = IF f = 0 THEN 0 ELSE file[f].minor
    /\ IF minor = 0 THEN error_return(t) /\ UNCHANGED <<tab, given>>
       ELSE Go(t, IF minor = 1 THEN "spx" ELSE "xti") /\ UNCHANGED <<tab, file, loc, given, hist>>

(* spx_connect(), up to sys_socket(), and xti_connect(). *)
make_socket(t) ==
    /\ pc[t] \in {"spx", "xti"}
    /\ IF FDs = Open \/ Unused = {} THEN error_return(t) /\ UNCHANGED tab
       ELSE /\ tab' = [tab EXCEPT ![LowestFd] = NewFile]
            /\ file' = [file EXCEPT ![NewFile] = Sock(NewFile)]
            /\ loc' = [loc EXCEPT ![t].new = LowestFd]
            /\ Go(t, IF pc[t] = "spx" THEN "connect" ELSE "inherit") /\ Uses(t)
    /\ UNCHANGED given
spx_readlink_fails(t) ==
    /\ pc[t] = "spx" /\ error_return(t) /\ UNCHANGED <<tab, given>>

(* The connection of spx_connect(): on an error the socket is closed. *)
connect_done(t) ==
    /\ pc[t] = "connect" /\ Go(t, "inherit")
    /\ UNCHANGED <<tab, file, loc, given, hist>>
connect_error(t) ==
    /\ pc[t] = "connect" /\ sys_close(loc[t].new) /\ Go(t, "failed") /\ Uses(t)
    /\ UNCHANGED <<loc, given>>
connect_failed(t) ==
    /\ pc[t] = "failed" /\ error_return(t) /\ UNCHANGED <<tab, given>>

(* inherit_socksys_funcs() on whatever the descriptor is now. *)
inherit_socksys_funcs(fd) ==
    IF tab[fd] = 0 THEN UNCHANGED file
    ELSE file' = [file EXCEPT ![tab[fd]].mode = "chr", ![tab[fd]].minor = 0]
fdinit_inherit(t) ==
    /\ pc[t] = "inherit" /\ inherit_socksys_funcs(loc[t].new) /\ Go(t, "dup2")
    /\ UNCHANGED <<tab, loc, given, hist>>
fdinit_dup2(t) ==
    /\ pc[t] = "dup2" /\ sys_dup2(loc[t].new, loc[t].fd) /\ Go(t, "close") /\ Uses(t)
    /\ UNCHANGED <<loc, given>>
fdinit_close(t) ==
    /\ pc[t] = "close" /\ sys_close(loc[t].new) /\ Go(t, "done") /\ Uses(t)
    /\ UNCHANGED <<loc, given>>

(* Back in the caller.  The ioctls leave the device and get the endpoint,  *)
(* for the request; socksys_read() and socksys_write() do the same, though *)
(* the reference to the device is sys_read()'s, which drops it again, and  *)
(* nothing drops the one to the endpoint.                                  *)
fdinit_done(t) ==
    LET l == loc[t]
        F == fput(file, l.fp)
        new == tab[l.fd]
    IN /\ pc[t] = "done" /\ Return(t)
       /\ IF l.call = "read"
          THEN /\ hist' = hist \cup {"uneven"}
               /\ file' = fput(IF new = 0 THEN F ELSE fget(F, new), l.fp)
          ELSE file' = F /\ UNCHANGED hist
       /\ UNCHANGED <<tab, given>>

-----------------------------------------------------------------------------
(* socksys_socket(), and socksys_accept() on a socket that Linux accepts:  *)
(* the descriptor is the program's once the call returns.                  *)
socksys_socket(t) ==
    /\ InUser(t) /\ FDs # Open /\ Unused # {}
    /\ tab' = [tab EXCEPT ![LowestFd] = NewFile]
    /\ file' = [file EXCEPT ![NewFile] = Sock(NewFile)]
    /\ loc' = [loc EXCEPT ![t] = [NoLoc EXCEPT !.call = "socket", !.new = LowestFd]]
    /\ Go(t, "own") /\ Uses(t) /\ UNCHANGED given
socket_own(t) ==
    /\ pc[t] = "own" /\ inherit_socksys_funcs(loc[t].new)
    /\ given' = given \cup {loc[t].new} /\ Return(t) /\ UNCHANGED <<tab, hist>>

(* socksys_socketpair(): the two descriptors, of sockets of Linux', are    *)
(* closed, a pair is made and put in their places.                         *)
socketpair_enter(t, a, b) ==
    /\ InUser(t) /\ tab[a] # 0 /\ file[tab[a]].mode = "sock"
    /\ loc' = [loc EXCEPT ![t] = [NoLoc EXCEPT !.call = "socketpair", !.fd = a, !.fd2 = b]]
    /\ Go(t, "sp_close0") /\ Uses(t) /\ UNCHANGED <<tab, file, given>>
sp_close(t) ==
    \/ /\ pc[t] = "sp_close0" /\ sys_close(loc[t].fd) /\ Go(t, "sp_close1")
       /\ given' = given \ {loc[t].fd} /\ Uses(t) /\ UNCHANGED loc
    \/ /\ pc[t] = "sp_close1" /\ sys_close(loc[t].fd2) /\ Go(t, "sp_pair")
       /\ given' = given \ {loc[t].fd2} /\ Uses(t) /\ UNCHANGED loc
sp_pair(t) ==
    /\ pc[t] = "sp_pair" /\ UNCHANGED given
    /\ \/ Return(t) /\ UNCHANGED <<tab, file, hist>>
       \/ /\ Cardinality(FDs \ Open) >= 2 /\ Cardinality(Unused) >= 2
          /\ LET a == LowestFd  b == Min(FDs \ (Open \cup {a}))
                 f == NewFile   g == Min(Unused \ {f})
             IN /\ tab' = [tab EXCEPT ![a] = f, ![b] = g]
                /\ file' = [file EXCEPT ![f] = Sock(f), ![g] = Sock(f)]
                /\ loc' = [loc EXCEPT ![t].new = a, ![t].new2 = b]
                /\ hist' = hist \cup Races(t) \cup IF b = loc[t].fd THEN {"crossed"} ELSE {}
          /\ Go(t, "sp_move0")
sp_dup2(t, from, to, p, next) ==
    /\ pc[t] = p /\ from # to /\ sys_dup2(from, to) /\ Go(t, next) /\ Uses(t)
    /\ UNCHANGED <<loc, given>>
sp_closed(t, from, p, next) ==
    /\ pc[t] = p /\ sys_close(from) /\ Go(t, next) /\ Uses(t)
    /\ UNCHANGED <<loc, given>>
sp_in_place(t, p, next) ==
    /\ pc[t] = p /\ Go(t, next) /\ UNCHANGED <<tab, file, loc, given, hist>>
sp_move(t) ==
    LET l == loc[t]
    IN \/ sp_dup2(t, l.new, l.fd, "sp_move0", "sp_moved0")
       \/ sp_closed(t, l.new, "sp_moved0", "sp_move1")
       \/ l.new = l.fd /\ sp_in_place(t, "sp_move0", "sp_move1")
       \/ sp_dup2(t, l.new2, l.fd2, "sp_move1", "sp_moved1")
       \/ sp_closed(t, l.new2, "sp_moved1", "sp_own0")
       \/ l.new2 = l.fd2 /\ sp_in_place(t, "sp_move1", "sp_own0")
sp_own(t) ==
    \/ /\ pc[t] = "sp_own0" /\ inherit_socksys_funcs(loc[t].fd) /\ Go(t, "sp_own1")
       /\ UNCHANGED <<tab, loc, given, hist>>
    \/ /\ pc[t] = "sp_own1" /\ inherit_socksys_funcs(loc[t].fd2) /\ Go(t, "sp_done")
       /\ UNCHANGED <<tab, loc, given, hist>>
sp_done(t) ==
    /\ pc[t] = "sp_done" /\ given' = given \cup {loc[t].fd, loc[t].fd2}
    /\ Return(t) /\ UNCHANGED <<tab, file, hist>>

Next ==
    \E t \in Threads :
      \/ \E minor \in Minors : sys_open(t, Dev(minor))
      \/ Unused # {} /\ sys_open(t, Sock(NewFile))
      \/ \E fd \in FDs : close(t, fd) \/ sys_dup(t, fd)
      \/ \E fd \in FDs, call \in Calls : enter(t, call, fd)
      \/ \E minor \in Minors : fdinit_minor(t, minor)
      \/ make_socket(t) \/ spx_readlink_fails(t)
      \/ connect_done(t) \/ connect_error(t) \/ connect_failed(t)
      \/ fdinit_inherit(t) \/ fdinit_dup2(t) \/ fdinit_close(t) \/ fdinit_done(t)
      \/ socksys_socket(t) \/ socket_own(t)
      \/ \E a, b \in FDs : a # b /\ socketpair_enter(t, a, b)
      \/ sp_close(t) \/ sp_pair(t) \/ sp_move(t) \/ sp_own(t) \/ sp_done(t)

Spec == Init /\ [][Next]_vars

-----------------------------------------------------------------------------
TypeOK ==
    /\ tab \in [FDs -> {0} \cup Files] /\ given \subseteq FDs
    /\ \A f \in Files : file[f].count \in Nat /\ file[f].sock \in Pairs
    /\ hist \subseteq {"raced", "uneven", "crossed"}

Quiet == \A t \in Threads : pc[t] = "user"
Holders(f) == Cardinality({d \in FDs : tab[d] = f})

(* No descriptor is left behind or taken away: between calls the open      *)
(* descriptors are those the program was given, though a call opens        *)
(* another one on its way, and closes it whether it succeeds or fails.     *)
(* socketpair() of descriptors in falling order breaks this, and so may a  *)
(* thread that uses the table meanwhile.                                   *)
NoStrayDescriptors == (Quiet /\ hist \subseteq {"uneven"}) => Open = given

(* Between calls every file is held by its descriptors alone: the calls    *)
(* that make an endpoint of a device drop the device and every reference   *)
(* they took.  Reading or writing a fresh device does not, nor does an     *)
(* ioctl that fails.                                                       *)
FilesAreHeldByDescriptors ==
    (Quiet /\ "uneven" \notin hist) => \A f \in Files : file[f].count = Holders(f)
=============================================================================
