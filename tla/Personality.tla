----------------------------- MODULE Personality -----------------------------
(***************************************************************************)
(* What a System V personality module hands to the kernel besides its     *)
(* system call table: the tables of abi/*/sysent.c that translate error   *)
(* numbers, signals, socket types and socket options, the functions of    *)
(* abi/util/map.h that read them, and the exec_domain records that carry  *)
(* them.  Constant operators only.  Element n+1 of a sequence is element  *)
(* n of the C array; a bit mask is the set of its bit numbers.            *)
(***************************************************************************)
EXTENDS Integers, Sequences

-----------------------------------------------------------------------------
(* abi/util/map.h *)

(* struct map_segment: a one-entry segment holds its value in place of     *)
(* the vector; an empty vector is the NULL map, the identity.              *)
Segment(start, end, map) == [start |-> start, end |-> end, map |-> map]
One(val, to) == Segment(val, val, <<to>>)

(* map_value: the first segment that holds val decides. *)
map_value(m, val, def) ==
    LET hits == {i \in DOMAIN m : m[i].start <= val /\ val <= m[i].end}
        seg  == m[CHOOSE i \in hits : \A j \in hits : i <= j]
    IN  IF hits = {} THEN def
        ELSE IF seg.map = << >> THEN val
        ELSE seg.map[val - seg.start + 1]

(* map_flags: bit i of a 16-bit word becomes the bits map[i]. *)
map_flags(f, map) == UNION {map[i + 1] : i \in f \cap (0 .. 15)}

(* map_bitvec and map_sigvec_from_kernel: bit i-1 stands for signal i; a    *)
(* signal without a counterpart (-1) and signal 0 are dropped.             *)
map_bitvec(vec, map) ==
    {map[i + 1] - 1 : i \in {i \in 1 .. 32 : i - 1 \in vec /\ map[i + 1] \notin {-1, 0}}}

map_sigvec_from_kernel(vec, map) ==
    {map[i + 1] - 1 : i \in {i \in 1 .. 32 : i \in vec /\ map[i + 1] \notin {-1, 0}}}

(* map_sigvec_to_kernel: the result is a set of Linux signal numbers.      *)
map_sigvec_to_kernel(vec, map) ==
    {map[i + 1] : i \in {i \in 1 .. 32 : i - 1 \in vec /\ map[i + 1] # -1}}

-----------------------------------------------------------------------------
(* Error numbers, indexed by the Linux errno. *)

ibcs_err_table ==
    << 0, 1, 2, 3, 4, 5, 6, 7, 8, 9, 10, 11, 12, 13, 14, 15, 16, 17, 18, 19, 20,
       21, 22, 23, 24, 25, 26, 27, 28, 29, 30, 31, 32, 33, 34, 45, 78, 46, 89, 93,
       90, 90, 35, 36, 37, 38, 39, 40, 41, 42, 43, 44, 50, 51, 52, 53, 54, 55, 56,
       57, 60, 61, 62, 63, 64, 65, 66, 67, 68, 69, 70, 71, 74, 76, 77, 79, 80, 81,
       82, 83, 84, 85, 86, 87, 88, 91, 92, 94, 95, 96, 97, 98, 99, 120, 121, 122,
       123, 124, 125, 126, 127, 128, 129, 130, 131, 132, 133, 134, 143, 144, 145,
       146, 147, 148, 149, 150, 22, 135, 137, 138, 139, 140, 28 >>

isc_err_table == ibcs_err_table

sco_err_table ==
    << 0, 1, 2, 3, 4, 5, 6, 7, 8, 9, 10, 11, 12, 13, 14, 15, 16, 17, 18, 19, 20,
       21, 22, 23, 24, 25, 26, 27, 28, 29, 30, 31, 32, 33, 34, 45, 78, 46, 89, 145,
       150, 90, 35, 36, 37, 38, 39, 40, 41, 42, 43, 44, 50, 51, 52, 53, 54, 55, 56,
       57, 60, 61, 62, 63, 64, 65, 66, 67, 68, 69, 70, 71, 74, 76, 77, 79, 80, 81,
       82, 83, 84, 85, 86, 87, 88, 152, 153, 22, 93, 94, 95, 96, 118, 97, 98, 99,
       100, 101, 102, 103, 104, 105, 106, 107, 108, 63, 110, 111, 112, 113, 114,
       115, 116, 117, 92, 91, 151, 135, 137, 138, 139, 140, 28 >>

solaris_err_table == ibcs_err_table
uw7_err_table == ibcs_err_table

wyse_err_table ==
    << 0, 1, 2, 3, 4, 5, 6, 7, 8, 9, 10, 11, 12, 13, 14, 15, 16, 17, 18, 19, 20,
       21, 22, 23, 24, 25, 26, 27, 28, 29, 30, 31, 32, 33, 34, 45, 78, 46, 228, 46,
       22, 231, 227, 200, 37, 38, 39, 40, 41, 42, 43, 44, 50, 51, 52, 53, 54, 55,
       56, 57, 60, 61, 62, 63, 64, 65, 66, 67, 68, 69, 70, 71, 74, 76, 77, 22, 80,
       81, 82, 83, 84, 85, 86, 87, 22, 4, 22, 233, 203, 204, 205, 206, 207, 208,
       209, 210, 211, 212, 213, 214, 215, 216, 217, 218, 219, 220, 221, 222, 223,
       224, 225, 226, 229, 230, 202, 201, 237, 135, 137, 138, 139, 140, 234 >>

EINTR == 4

(* Linux errno 512..514 (the restart codes) become EINTR. *)
lnx_err_table == <<EINTR, EINTR, EINTR>>

ErrMap(table) == <<Segment(0, Len(table) - 1, table), Segment(512, 514, lnx_err_table)>>

ibcs_err_map == ErrMap(ibcs_err_table)
isc_err_map == ErrMap(isc_err_table)
sco_err_map == ErrMap(sco_err_table)
solaris_err_map == ErrMap(solaris_err_table)
uw7_err_map == ErrMap(uw7_err_table)
wyse_err_map == ErrMap(wyse_err_table)

-----------------------------------------------------------------------------
(* Signals: *_to_linux_signals is the domain's signal_map, linux_to_* its  *)
(* signal_invmap; NSIGNALS is 32.                                          *)

NSIGNALS == 32

linux_to_ibcs_signals ==
    << 0, 1, 2, 3, 4, 5, 6, -1, 8, 9, 16, 11, 17, 13, 14, 15, 11, 18, 25, 23, 24,
       26, 27, 21, 30, 31, 28, 29, 20, 22, 19, -1, -1 >>

linux_to_isc_signals ==
    << 0, 1, 2, 3, 4, 5, 6, -1, 8, 9, 16, 11, 17, 13, 14, 15, 11, 18, 23, 24, 25,
       26, 27, 16, 30, 31, 28, 29, 20, 22, 19, -1, -1 >>

linux_to_sco_signals ==
    << 0, 1, 2, 3, 4, 5, 6, 10, 8, 9, 16, 11, 17, 13, 14, 15, 15, 18, 25, 23, 24,
       26, 27, 21, 30, 31, 28, 29, 20, 22, 19, 12, -1 >>

linux_to_solaris_signals == linux_to_ibcs_signals
linux_to_uw7_signals == linux_to_ibcs_signals
linux_to_wyse_signals == linux_to_ibcs_signals

linux_to_xenix_signals ==
    << 0, 1, 2, 3, 4, 5, 6, -1, 8, 9, 16, 11, 17, 13, 14, 15, 11, 18, 25, 23, 24,
       26, 27, 16, 30, 31, 28, 29, 20, 20, 19, -1, -1 >>

ibcs_to_linux_signals ==
    << 0, 1, 2, 3, 4, 5, 6, 31, 8, 9, 31, 11, 31, 13, 14, 15, 10, 12, 17, 30, 28,
       23, 29, 19, 20, 18, 21, 22, 26, 27, 24, 25, -1 >>

isc_to_linux_signals ==
    << 0, 1, 2, 3, 4, 5, 6, 31, 8, 9, 31, 11, 31, 13, 14, 15, 10, 12, 17, 30, 28,
       -1, 29, 18, 19, 20, 21, 22, 26, 27, 24, 25, -1 >>

sco_to_linux_signals ==
    << 0, 1, 2, 3, 4, 5, 6, 6, 8, 9, 7, 11, 31, 13, 14, 15, 10, 12, 17, 30, 28, 23,
       29, 19, 20, 18, 21, 22, 26, 27, 24, 25, -1 >>

solaris_to_linux_signals == ibcs_to_linux_signals
uw7_to_linux_signals == ibcs_to_linux_signals
wyse_to_linux_signals == ibcs_to_linux_signals

xenix_to_linux_signals ==
    << 0, 1, 2, 3, 4, 5, 6, 31, 8, 9, 31, 11, 31, 13, 14, 15, 10, 12, 17, 30, 29,
       -1, -1, -1, -1, -1, -1, -1, -1, -1, -1, -1, -1 >>

-----------------------------------------------------------------------------
(* Sockets: the personalities' tables are copies of one another. *)

SOCK_STREAM == 1
SOCK_DGRAM == 2
SOCK_RAW == 3
SOCK_RDM == 4
SOCK_SEQPACKET == 5

ibcs_socktype == <<SOCK_STREAM, SOCK_DGRAM, 0, SOCK_RAW, SOCK_RDM, SOCK_SEQPACKET>>

ibcs_socktype_map == <<Segment(1, 6, ibcs_socktype)>>
isc_socktype_map == ibcs_socktype_map
sco_socktype_map == ibcs_socktype_map
solaris_socktype_map == ibcs_socktype_map
uw7_socktype_map == ibcs_socktype_map
wyse_socktype_map == ibcs_socktype_map

SO_ACCEPTCON == 65536
SO_LINGER == 13
SO_RCVLOWAT == 18
SO_SNDLOWAT == 19
SO_RCVTIMEO == 20
SO_SNDTIMEO == 21
SO_USELOOPBACK == 65282
SO_ORDREL == 65283
SO_IMASOCKET == 65284
SO_PROTOTYPE == 65289

ibcs_sockopt_map ==
    << One(1, 1), One(2, SO_ACCEPTCON), One(4, 2), One(8, 9), One(16, 5), One(32, 6),
       One(64, SO_USELOOPBACK), One(128, SO_LINGER), One(256, 10), One(512, SO_ORDREL),
       One(1024, SO_IMASOCKET), One(4097, 7), One(4098, 8), One(4099, SO_SNDLOWAT),
       One(4100, SO_RCVLOWAT), One(4101, SO_SNDTIMEO), One(4102, SO_RCVTIMEO),
       One(4103, 4), One(4104, 3), One(4105, SO_PROTOTYPE) >>

isc_sockopt_map == ibcs_sockopt_map
sco_sockopt_map == ibcs_sockopt_map
solaris_sockopt_map == ibcs_sockopt_map
uw7_sockopt_map == ibcs_sockopt_map
wyse_sockopt_map == ibcs_sockopt_map

ibcs_af_map == <<Segment(0, 2, << >>)>>
isc_af_map == ibcs_af_map
sco_af_map == ibcs_af_map
solaris_af_map == ibcs_af_map
uw7_af_map == ibcs_af_map
wyse_af_map == ibcs_af_map

-----------------------------------------------------------------------------
(* struct exec_domain of each personality; Xenix programs run with SCO's   *)
(* tables and signal maps of their own.                                    *)

ExecDomainOf(signals, invsignals, errs, socktypes, sockopts, families) ==
    [signal_map |-> signals, signal_invmap |-> invsignals, err_map |-> errs,
     socktype_map |-> socktypes, sockopt_map |-> sockopts, af_map |-> families]

ibcs_exec_domain ==
    ExecDomainOf(ibcs_to_linux_signals, linux_to_ibcs_signals, ibcs_err_map,
                 ibcs_socktype_map, ibcs_sockopt_map, ibcs_af_map)
isc_exec_domain ==
    ExecDomainOf(isc_to_linux_signals, linux_to_isc_signals, isc_err_map,
                 isc_socktype_map, isc_sockopt_map, isc_af_map)
sco_exec_domain ==
    ExecDomainOf(sco_to_linux_signals, linux_to_sco_signals, sco_err_map,
                 sco_socktype_map, sco_sockopt_map, sco_af_map)
xenix_exec_domain ==
    ExecDomainOf(xenix_to_linux_signals, linux_to_xenix_signals, sco_err_map,
                 sco_socktype_map, sco_sockopt_map, sco_af_map)
solaris_exec_domain ==
    ExecDomainOf(solaris_to_linux_signals, linux_to_solaris_signals, solaris_err_map,
                 solaris_socktype_map, solaris_sockopt_map, solaris_af_map)
uw7_exec_domain ==
    ExecDomainOf(uw7_to_linux_signals, linux_to_uw7_signals, uw7_err_map,
                 uw7_socktype_map, uw7_sockopt_map, uw7_af_map)
wyse_exec_domain ==
    ExecDomainOf(wyse_to_linux_signals, linux_to_wyse_signals, wyse_err_map,
                 wyse_socktype_map, wyse_sockopt_map, wyse_af_map)

exec_domain ==
    [ibcs |-> ibcs_exec_domain, isc |-> isc_exec_domain, sco |-> sco_exec_domain,
     xenix |-> xenix_exec_domain, solaris |-> solaris_exec_domain,
     uw7 |-> uw7_exec_domain, wyse |-> wyse_exec_domain]

Personalities == DOMAIN exec_domain

(* iABI_errors: the caller's errno for Linux errno e, EPERM (1) by default *)
iABI_errors(p, e) == map_value(exec_domain[p].err_map, e, 1)

=============================================================================
