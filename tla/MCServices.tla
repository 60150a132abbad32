----------------------------- MODULE MCServices -----------------------------
(***************************************************************************)
(* The services that programs call, for TLC: the modules of net/socket.c   *)
(* and of the calls of abi/.  They share no state, so a behaviour is one   *)
(* of one part, which Parts has, and the other parts are at rest.  The     *)
(* variables x1, x2, ... are those of the part, in the order of its        *)
(* VARIABLES; the family lock, which is extended, has its own.             *)
(***************************************************************************)
EXTENDS NetFamily, Sequences, TLC

CONSTANTS Parts, Threads,
          Socks, Fds, Callers,                                   \* net/socket.c
          FDs, Files, Abis, Options, Values, UserFlags,          \* abi: sockets
          CONFIG_ABI_XTI, LCalls, Results,                       \* lcall7
          Dir, Counts,                                           \* directories
          Procs, Sees, Terminals, Junk, MaxSets,                 \* terminals
          Uids, Modes, Sizes, Nsems, Arrays, Addresses,          \* System V IPC
          Abi, Owner, FileFlags,                                 \* locks
          Names, Domains, Rooms,                                 \* utsname
          Systems, Ids, FileSizes, FileUids                      \* stat

VARIABLES part, x1, x2, x3, x4, x5, x6, x7, x8, x9, x10

S == INSTANCE Socket WITH fdt <- x1, sock <- x2, f_count <- x3, in_use <- x4,
        modst <- x5, modref <- x6, registered <- x7, th <- x8
H == INSTANCE IoctlHooks WITH hook <- x1, mutex <- x2, code <- x3, mpc <- x4, pc <- x5,
        cmd <- x6
Y == INSTANCE Socksys WITH tab <- x1, file <- x2, pc <- x3, loc <- x4, given <- x5,
        hist <- x6
O == INSTANCE SockOpt WITH abi <- x1, option <- x2, block <- x3, meant <- x4, set <- x5,
        reused <- x6, got <- x7
M == INSTANCE SolMsg WITH pc <- x1, call <- x2, nonblock <- x3, uflags <- x4, msg <- x5,
        ctl_buf <- x6, heap <- x7, badfree <- x8, held <- x9, err <- x10
L == INSTANCE Lcall7 WITH pers <- x1, regs <- x2, stk <- x3, pc <- x4, ap <- x5,
        off <- x6, frames <- x7, sel <- x8, args <- x9, res <- x10, Calls <- LCalls
D == INSTANCE ReadDir WITH f_pos <- x1, th <- x2, got <- x3, lost <- x4, raced <- x5
T == INSTANCE Termios WITH tty <- x1, user <- x2, t <- x3, sets <- x4, raced <- x5,
        Procs <- 1 .. 2
I == INSTANCE SvrIpc WITH kind <- x1, obj <- x2, buf <- x3, stat <- x4, sem <- x5,
        mem <- x6, reg <- x7, last <- x8
K == INSTANCE FileLock WITH lock <- x1, l_type <- x2, believed <- x3, shows <- x4,
        pc <- x5, call <- x6, f_flags <- x7, wanted <- x8, uflags <- x9, raced <- x10,
        Procs <- 1 .. 2, Threads <- 1 .. 3
N == INSTANCE UtsName WITH uts <- x1, sem <- x2, th <- x3, ip <- x4
F == INSTANCE FileStatus WITH per <- x1, short <- x2, attr <- x3, path <- x4, fd <- x5,
        pc <- x6, reports <- x7, Personalities <- Systems
-----------------------------------------------------------------------------
(* Values for the constants. *)
MCOptions ==
    [level : {0}, name : {3, 11}] \cup [level : {65535}, name : {4, 128}]
    \cup [level : {1}, name : {2}]
MCUserFlags == {{}, {0, 3}, {6}, {4, 5, 7}}

(* Every entry of every table, directly, through the syscall entry, and    *)
(* through the sub-tables by both of their selectors.                      *)
MCResults == {0, 7, -4, -22, -123, -512, -514, -515}
SubNumbers == {40, 105, 131, 132}   \* cxenix, isc_sysisc, wyse_class_tcp, wyse_class_nfs
MCLCalls ==
    [n : 0 .. 255, hi : {0}, lo1 : {1}, hi1 : {0}]
    \cup [n : {0}, hi : {0}, lo1 : 0 .. 255, hi1 : {0, 1}]
    \cup [n : SubNumbers, hi : 0 .. 60, lo1 : {1}, hi1 : {0}]
    \cup [n : SubNumbers, hi : {0}, lo1 : 0 .. 24, hi1 : {0}]

MCDir == <<1, 30, 14>>

Terminal(i, o, c, l) == [i |-> i, o |-> o, c |-> c, l |-> l, cc |-> [k \in 0 .. 16 |-> k + 20]]
Cooked == Terminal({8, 10}, {0, 2}, {0, 2, 3, 4, 5, 7}, {0, 1, 3, 4, 5, 15})
Echo == Terminal({8, 10, 13}, {0, 2}, {0, 2, 3, 4, 5, 7, 31}, {0, 1, 3, 4, 5, 9, 11, 15})
Raw == Terminal({}, {}, {0, 4, 5, 7, 8, 12}, {8})
MCTerminals == {Cooked, Echo, Raw}
MCSees == <<{"termio", "termios", "sco", "termiox", "bsd", "sgttyb", "ltchars"}, {"tchars", "hupcl", "termio", "sco"}>>

MCArrays ==
    {[i \in 0 .. 7 |-> (i \div 2) % 2], [i \in 0 .. 7 |-> IF i \in {1, 6} THEN 1 ELSE 0]}
MCAddresses == {4096, -4096}
MCAbi == <<"svr4", "xenix">>
MCOwner == <<1, 2, 2>>
MCFileFlags == {{1, 11}}

Row(c, n) == [i \in 1 .. n |-> c]
MCNames == {<<"h", ".", "d", "e">>, <<"h">>}
MCDomains == {<<"(none)">>, <<"u", ".", "v">>, Row("w", 63)}
MCIds ==
    {[dev |-> <<3, 1>>, ino |-> <<1, 0>>], [dev |-> <<3, 1>>, ino |-> <<2, 0>>],
     [dev |-> <<4, 1>>, ino |-> <<1, 7>>]}
MCFileSizes == {<<0, 0>>, <<1, 0>>}

Symmetry == Permutations(Threads) \cup Permutations(Socks)

-----------------------------------------------------------------------------
Rest8 == x9 = NULL /\ x10 = NULL
Rest7 == x8 = NULL /\ Rest8
Rest6 == x7 = NULL /\ Rest7
Rest5 == x6 = NULL /\ Rest6
Rest4 == x5 = NULL /\ Rest5
Rest0 == x1 = NULL /\ x2 = NULL /\ x3 = NULL /\ x4 = NULL /\ Rest4
Same8 == UNCHANGED <<x9, x10>>
Same7 == UNCHANGED <<x8>> /\ Same8
Same6 == UNCHANGED <<x7>> /\ Same7
Same5 == UNCHANGED <<x6>> /\ Same6
Same4 == UNCHANGED <<x5>> /\ Same5
Same0 == UNCHANGED <<x1, x2, x3, x4>> /\ Same4

MCInit == part \in Parts /\ Init /\ (
    \/ part = "family" /\ Rest0
    \/ part = "socket" /\ S!Init /\ Rest8
    \/ part = "hooks" /\ H!Init /\ Rest6
    \/ part = "socksys" /\ Y!Init /\ Rest6
    \/ part = "sockopt" /\ O!Init /\ Rest7
    \/ part = "solmsg" /\ M!Init
    \/ part = "lcall7" /\ L!Init
    \/ part = "readdir" /\ D!Init /\ Rest5
    \/ part = "termios" /\ T!Init /\ Rest5
    \/ part = "ipc" /\ I!Init /\ Rest8
    \/ part = "locks" /\ K!Init
    \/ part = "uts" /\ N!Init /\ Rest4
    \/ part = "stat" /\ F!Init /\ Rest7 )

MCNext ==
    \/ part = "family" /\ Next /\ Same0 /\ UNCHANGED part
    \/ part = "socket" /\ S!Next /\ Same8 /\ UNCHANGED <<vars, part>>
    \/ part = "hooks" /\ H!Next /\ Same6 /\ UNCHANGED <<vars, part>>
    \/ part = "socksys" /\ Y!Next /\ Same6 /\ UNCHANGED <<vars, part>>
    \/ part = "sockopt" /\ O!Next /\ Same7 /\ UNCHANGED <<vars, part>>
    \/ part = "solmsg" /\ M!Next /\ UNCHANGED <<vars, part>>
    \/ part = "lcall7" /\ L!Next /\ UNCHANGED <<vars, part>>
    \/ part = "readdir" /\ D!Next /\ Same5 /\ UNCHANGED <<vars, part>>
    \/ part = "termios" /\ T!Next /\ Same5 /\ UNCHANGED <<vars, part>>
    \/ part = "ipc" /\ I!Next /\ Same8 /\ UNCHANGED <<vars, part>>
    \/ part = "locks" /\ K!Next /\ UNCHANGED <<vars, part>>
    \/ part = "uts" /\ N!Next /\ Same4 /\ UNCHANGED <<vars, part>>
    \/ part = "stat" /\ F!Next /\ Same7 /\ UNCHANGED <<vars, part>>

mcvars == <<vars, part, x1, x2, x3, x4, x5, x6, x7, x8, x9, x10>>
MCSpec == MCInit /\ [][MCNext]_mcvars

-----------------------------------------------------------------------------
(* The types of the variables of all the modules.                          *)
TypesOK ==
    /\ TypeOK
    /\ part = "socket" => S!TypeOK
    /\ part = "hooks" => H!TypeOK
    /\ part = "socksys" => Y!TypeOK
    /\ part = "sockopt" => O!TypeOK
    /\ part = "solmsg" => M!TypeOK
    /\ part = "lcall7" => L!TypeOK
    /\ part = "readdir" => D!TypeOK
    /\ part = "termios" => T!TypeOK
    /\ part = "ipc" => I!TypeOK
    /\ part = "locks" => K!TypeOK
    /\ part = "uts" => N!TypeOK
    /\ part = "stat" => F!TypeOK

(* A socket in use is live and its protocol loaded, every socket, file and *)
(* descriptor has its owners, the module counts are exact, and a released  *)
(* socket is off the fasync list, among threads that create, use and close *)
(* sockets (sock_alloc(), sock_release(), sock_map_fd(), sockfd_lookup()). *)
SocketsAreOwned ==
    part = "socket" => S!UsedSocketIsLive /\ S!SocketsAreOwned /\ S!ModuleCountsExact
                       /\ S!FasyncListEmptyAtRelease

(* Bridge and VLAN hooks are called only while they are set                *)
(* (sock_ioctl()).                                                         *)
LockedHooksAreSafe == part = "hooks" => H!LockedHooksAreSafe

(* Calls that go through other descriptors, files, buffers and locks have  *)
(* given all of them back when they return: socksys_fdinit() and           *)
(* socksys_socketpair(), solaris_sendmsg() and solaris_recvmsg().          *)
NothingIsKept ==
    /\ part = "socksys" => Y!NoStrayDescriptors /\ Y!FilesAreHeldByDescriptors
    /\ part = "solmsg" => M!NothingIsHeldAfterReturn

(* Options read back as they were set, a translated block may be passed    *)
(* again, and the flags of a message are the program's                     *)
(* (abi_do_setsockopt() and its kind, solaris_to_linux_msgflags()).        *)
SocketArgumentsKeepTheirMeaning ==
    /\ part = "sockopt" => O!OptionsReadBack /\ O!SocketLevelBlocksStayValid
    /\ part = "solmsg" => M!SendFlagsAreTheProgramsOwn

(* Handlers of direct calls get the program's words, and the registers     *)
(* report the innermost handler's result (the tables and                   *)
(* lcall7_dispatch()).                                                     *)
CallsAreDispatched ==
    part = "lcall7" => L!DirectCallsFindTheirArguments /\ L!ReportsTheInnermostResult

(* lcall7.c:58 "This function implements syscall(2) in kernelspace for the *)
(* lcall7- based personalities."                                           *)
IndirectCallsFindTheirArguments == part = "lcall7" => L!IndirectCallsFindTheirArguments

(* A sole reader of a directory gets every entry, none twice, in whatever  *)
(* mixture of calls and buffers, and the result is what was filled         *)
(* (sol_getdents64(), abi_read_dir(), svr4_getdents(), fs/readdir.c).      *)
DirectoryIsReadOnce ==
    part = "readdir" => D!NoEntryIsLost /\ D!SoleReaderSeesEachOnce /\ D!ResultIsBytesFilled

(* Setting the terminal to what was read changes nothing that is shown,    *)
(* and a call sets the fields of its own structure only                    *)
(* (abi/svr4/termios.c, abi/sco/termios.c).                                *)
TerminalIsKept ==
    /\ [](part = "termios" => T!SetAfterGetKeeps)
    /\ [][part = "termios" => T!LeavesTheRest]_mcvars

(* IPC_SET of what IPC_STAT returned keeps the object, GETALL reads back   *)
(* what SETALL set, refusals are reported (but for message queues), and    *)
(* shmat() reports its address (abi/svr4/ipc.c).                           *)
IpcIsControlled ==
    part = "ipc" => I!StatThenSetKeeps /\ I!SetAllIsReadBack /\ I!RefusedSetIsReported
                    /\ I!AttachedIsReported

(* A process has the lock that it was told it has, its flock structure is  *)
(* left in its own numbers, and the status flags are what programs want    *)
(* them to be (svr4_fcntl(), svr4_fcntl_flock(), xnx_locking()).           *)
LocksAreTheProgramsOwn ==
    part = "locks" => K!LockIsTheOneAsked /\ K!StructureIsTheProgramsOwn
                      /\ K!FlagsAreTheProgramsOwn

(* The names fit their arrays, a call returns names that the system had at *)
(* once and terminated strings, and the domain that was set is the one     *)
(* found (v7_utsname(), xnx_utsname(), svr4_sysinfo(), wyse_gethostname(), *)
(* socksys_setipdomain()).                                                 *)
NamesAreWhole ==
    part = "uts" => N!NamesFit /\ N!NamesAreWhole /\ N!FieldsAreTerminated /\ N!IpDomainReadsBack

(* Device and inode tell files apart, reports about one file agree, and    *)
(* size and owner are the file's (report_svr4_stat(),                      *)
(* report_svr4_xstat(), report_sco_xstat(), include/abi/*/types.h).        *)
StatusIsTheFiles ==
    part = "stat" => F!FilesAreToldApart /\ F!ReportsOfAFileAgree /\ F!SizeAndOwnerAreTheFiles
=============================================================================
