------------------------------- MODULE SockOpt -------------------------------
(***************************************************************************)
(* setsockopt() and getsockopt() of the System V programs on a Linux       *)
(* socket: the socksys calls (abi/svr4/socket.c, for every personality     *)
(* without calls of its own), Wyse's and Solaris' (abi/wyse/socket.c,      *)
(* abi/solaris/socket.c).                                                  *)
(*                                                                         *)
(* An option is [level, name].  The socksys calls read theirs from a block *)
(* in the program's memory and write the translation back into it before   *)
(* sys_socketcall() reads it again; the program may pass the block again.  *)
(***************************************************************************)
EXTENDS Personality, FiniteSets

CONSTANTS Abis,      \* of "socksys", "wyse", "solaris"
          Options,   \* the options the program names
          Values     \* the values it sets

VARIABLES abi,
          option,    \* Linux: the options of the socket and their values
          block,     \* the option in the program's block
          meant,     \* what the program wrote there last
          set,       \* history: the values the program gave its options
          reused,    \* history: an IP-level block was passed a second time
          got        \* the last result: an error, or the value read

vars == <<abi, option, block, meant, set, reused, got>>

SOL_IP == 0
SOL_SOCKET == 1
SVR4_SOL_SOCKET == 65535
EINVAL == -22
ENOPROTOOPT == -92
INT == 4    \* sizeof(int); a struct linger has two

Opt(level, name) == [level |-> level, name |-> name]
NoOption == Opt(-1, -1)

(* The verdict of a translation: an error, a call that is answered without *)
(* Linux (with the value getsockopt() gives), or an option of Linux.       *)
Error(e) == [kind |-> "error", value |-> e, opt |-> NoOption]
Faked(v) == [kind |-> "faked", value |-> v, opt |-> NoOption]
Native(o) == [kind |-> "native", value |-> 0, opt |-> o]

(* What Linux implements: the IP and the socket options. *)
LinuxOptions ==
    {Opt(SOL_IP, n) : n \in (1 .. 4) \cup (32 .. 36)} \cup {Opt(SOL_SOCKET, n) : n \in 1 .. 13}

-----------------------------------------------------------------------------
(* The number of an IP option: 0 is an error. *)
ip_option(name) ==
    LET n == IF name = 1 THEN 4 ELSE name - 1
        m == IF n + 24 <= 33 THEN n + 23 ELSE n + 24
    IN  IF n <= 4 THEN n ELSE IF m \in 32 .. 36 THEN m ELSE 0

sockopt(name) == map_value(exec_domain[IF abi = "wyse" THEN "wyse" ELSE "sco"].sockopt_map, name, 0)

Unimplemented == {SO_ORDREL, SO_SNDTIMEO, SO_RCVTIMEO}
Accepted == {SO_USELOOPBACK, SO_SNDLOWAT, SO_RCVLOWAT}

(* SOL_SOCKET options of abi_do_setsockopt() and wyse_setsockopt(). *)
set_socket_option(name, len) ==
    LET n == sockopt(name)
    IN  CASE n = SO_LINGER /\ len = INT -> Faked(0)
          [] n \in Unimplemented \cup {SO_PROTOTYPE, SO_IMASOCKET} -> Error(ENOPROTOOPT)
          [] n \in Accepted -> Faked(0)
          [] OTHER -> Native(Opt(SOL_SOCKET, n))

(* ... and of the two getsockopt()s.  Wyse's leaves the buffer alone for    *)
(* Accepted options; a short buffer is EINVAL for the other.               *)
get_socket_option(name, len) ==
    LET n == sockopt(name)
    IN  CASE n = SO_LINGER /\ len = INT -> Faked(0)
          [] n \in Unimplemented -> Error(ENOPROTOOPT)
          [] n = SO_PROTOTYPE -> IF abi = "socksys" /\ len < INT THEN Error(EINVAL) ELSE Faked(0)
          [] n = SO_IMASOCKET -> IF abi = "socksys" /\ len < INT THEN Error(EINVAL) ELSE Faked(1)
          [] n \in Accepted -> IF abi = "wyse" THEN Faked(0)
                               ELSE IF len < INT THEN Error(EINVAL) ELSE Faked(1)
          [] OTHER -> Native(Opt(SOL_SOCKET, n))

abi_do_sockopt(o, socket_option) ==
    CASE o.level = SOL_IP -> IF ip_option(o.name) = 0 THEN Error(EINVAL)
                             ELSE Native(Opt(SOL_IP, ip_option(o.name)))
      [] o.level = SVR4_SOL_SOCKET -> socket_option
      [] OTHER -> Native(o)
abi_do_setsockopt(o, len) == abi_do_sockopt(o, set_socket_option(o.name, len))
abi_do_getsockopt(o, len) == abi_do_sockopt(o, get_socket_option(o.name, len))

(* Wyse: an IP option up to 4 has no break and goes on as a socket option. *)
wyse_setsockopt(o, len) ==
    CASE o.level = SOL_IP /\ ip_option(o.name) = 0 -> Error(EINVAL)
      [] o.level = SOL_IP /\ ip_option(o.name) > 4 -> Native(Opt(SOL_IP, ip_option(o.name)))
      [] o.level = SOL_IP /\ ip_option(o.name) \in 1 .. 4 -> set_socket_option(ip_option(o.name), len)
      [] o.level = SVR4_SOL_SOCKET -> set_socket_option(o.name, len)
      [] OTHER -> Native(o)
wyse_getsockopt(o, len) ==
    CASE o.level = SOL_IP /\ ip_option(o.name) = 0 -> Error(EINVAL)
      [] o.level = SOL_IP /\ ip_option(o.name) > 4 -> Native(Opt(SOL_IP, ip_option(o.name)))
      [] o.level = SOL_IP /\ ip_option(o.name) \in 1 .. 4 -> get_socket_option(ip_option(o.name), len)
      [] o.level = SVR4_SOL_SOCKET -> get_socket_option(o.name, len)
      [] OTHER -> Native(o)

(* Solaris: the level is Linux' own, the low-water marks, the timeouts and *)
(* the state are renumbered, and so are the multicast options.             *)
SOL_SO_STATE == 8192
SO_STATE == 14
solaris_to_linux_sockopt(name) ==
    CASE name = 4099 -> SO_SNDLOWAT [] name = 4100 -> SO_RCVLOWAT
      [] name = 4101 -> SO_SNDTIMEO [] name = 4102 -> SO_RCVTIMEO
      [] name = SOL_SO_STATE -> SO_STATE [] OTHER -> name
sunos_sockopt(o) ==
    Native(IF o.level = SOL_IP /\ o.name \in 2 .. 6 THEN Opt(SOL_IP, o.name + 30) ELSE o)
solaris_setsockopt(o) ==
    LET n == solaris_to_linux_sockopt(o.name)
    IN  IF n = SO_STATE THEN Faked(0) ELSE sunos_sockopt(Opt(o.level, n))
solaris_getsockopt(o) ==
    LET n == solaris_to_linux_sockopt(o.name)
    IN  sunos_sockopt(Opt(o.level, IF n = SO_STATE THEN SOL_SO_STATE ELSE n))

Setting(a, o, len) ==
    CASE a = "socksys" -> abi_do_setsockopt(o, len)
      [] a = "wyse" -> wyse_setsockopt(o, len)
      [] a = "solaris" -> solaris_setsockopt(o)
Getting(a, o, len) ==
    CASE a = "socksys" -> abi_do_getsockopt(o, len)
      [] a = "wyse" -> wyse_getsockopt(o, len)
      [] a = "solaris" -> solaris_getsockopt(o)

-----------------------------------------------------------------------------
Init ==
    /\ abi \in Abis
    /\ option = [o \in LinuxOptions |-> 0]
    /\ block = NoOption /\ meant = NoOption
    /\ set = [o \in Options |-> 0] /\ reused = FALSE /\ got = 0

(* The program names its next option. *)
store(o) ==
    /\ block' = o /\ meant' = o
    /\ UNCHANGED <<abi, option, set, reused, got>>

(* Only the socksys calls write to the program's block, before they know   *)
(* whether Linux will be asked; an IP option in error leaves it alone.     *)
rewritten_level(o, v) ==
    IF abi # "socksys" THEN o
    ELSE IF o.level = SVR4_SOL_SOCKET THEN Opt(SVR4_SOL_SOCKET, sockopt(o.name))
    ELSE IF v.kind = "native" THEN v.opt ELSE o
rewritten(o, v) ==
    IF abi # "socksys" THEN o
    ELSE IF o.level = SVR4_SOL_SOCKET THEN Opt(SOL_SOCKET, sockopt(o.name))
    ELSE IF v.kind = "native" THEN v.opt ELSE o

Reuse == reused' = (reused \/ (block.level = SOL_IP /\ block # meant))

sys_setsockopt(v, len) ==
    LET verdict == Setting(abi, block, len)
        done == verdict.kind = "native" /\ verdict.opt \in LinuxOptions
    IN  /\ block # NoOption
        /\ block' = rewritten(block, verdict)
        /\ option' = IF done THEN [option EXCEPT ![verdict.opt] = v] ELSE option
        /\ set' = IF done THEN [set EXCEPT ![meant] = v] ELSE set
        /\ got' = CASE verdict.kind = "error" -> verdict.value
                    [] verdict.kind = "native" /\ ~done -> ENOPROTOOPT
                    [] OTHER -> 0
        /\ Reuse /\ UNCHANGED <<abi, meant>>

sys_getsockopt(len) ==
    LET verdict == Getting(abi, block, len)
    IN  /\ block # NoOption
        /\ block' = rewritten(block, verdict)
        /\ got' = CASE verdict.kind # "native" -> verdict.value
                    [] verdict.opt \in LinuxOptions -> option[verdict.opt]
                    [] OTHER -> ENOPROTOOPT
        /\ Reuse /\ UNCHANGED <<abi, option, meant, set>>

Next ==
    \/ \E o \in Options : store(o)
    \/ \E v \in Values, len \in {INT, 2 * INT} : sys_setsockopt(v, len)
    \/ \E len \in {1, INT, 2 * INT} : sys_getsockopt(len)

Spec == Init /\ [][Next]_vars

-----------------------------------------------------------------------------
TypeOK ==
    /\ abi \in Abis /\ option \in [LinuxOptions -> Values \cup {0}]
    /\ set \in [Options -> Values \cup {0}] /\ meant \in Options \cup {NoOption}
    /\ reused \in BOOLEAN /\ got \in Int

(* The option of Linux that o is set in and read from; a linger structure  *)
(* is passed.                                                              *)
Cell(o) == Setting(abi, o, 2 * INT)
Own(o) ==
    /\ Cell(o).kind = "native" /\ Cell(o).opt \in LinuxOptions
    /\ \A p \in Options \ {o} : Cell(p) # Cell(o)

(* An option that shares no Linux option with another of the program's     *)
(* reads back as the value it was set to, in whichever order options were  *)
(* set, refused and answered without Linux: setsockopt() and getsockopt()  *)
(* of a personality name the same Linux option (abi_do_setsockopt(),       *)
(* wyse_setsockopt(), solaris_setsockopt() and their counterparts).  An     *)
(* IP-level block is translated again when it is passed again.             *)
OptionsReadBack ==
    ~reused => \A o \in Options : Own(o) => /\ Getting(abi, o, 2 * INT) = Cell(o)
                                           /\ set[o] = option[Cell(o).opt]

(* A socket-level block that was passed once still names the option that   *)
(* the program wrote there: Linux' numbers at level SOL_SOCKET are not     *)
(* translated again (abi_do_setsockopt(), abi_do_getsockopt()).            *)
SocketLevelBlocksStayValid ==
    meant.level = SVR4_SOL_SOCKET /\ Own(meant) => Cell(block) = Cell(meant)
=============================================================================
