----------------------------- MODULE FileStatus -----------------------------
(***************************************************************************)
(* stat() and its relatives (abi/svr4/stat.c, abi/uw7/stat.c,              *)
(* abi/sco/stat.c, abi/solaris/stat.c with include/abi/*/types.h): a call  *)
(* by path, by path without following a link, or by descriptor gets a      *)
(* kstat and reports it in the layout that its version asks for, which has *)
(* 16 bit or 32 bit fields.  A program looks at a path, opens it, looks at *)
(* what it opened and compares, while files are renamed, grow and change   *)
(* owner: it relies on what the conversions keep apart.                    *)
(*                                                                         *)
(* An inode number is a pair of 16 bit words, a size the pair of           *)
(* size \div 2^31 and size % 2^31.                                         *)
(***************************************************************************)
EXTENDS Integers

CONSTANTS Personalities,  \* names: "ibcs", "sco", "uw7", "solaris", "wyse"
          Ids,            \* what identifies a file: dev <<major, minor>> and ino
          FileSizes,
          FileUids

VARIABLES per,      \* the personality
          short,    \* PERF_SHORT_INODE
          attr,     \* size and uid of the files; bound: the same for all
          path,     \* the file that the path leads to
          fd,       \* the file that the descriptor has open
          pc,       \* the program's next call
          reports   \* what it was told of the path, and of the descriptor

vars == <<per, short, attr, path, fd, pc, reports>>

None == [dev |-> <<0, 0>>, ino |-> <<0, 0>>]
NoReport == [layout |-> "none"]
Plain(l) == l \in {"svr4_stat", "sco_xstat"}
OVERFLOWUID == 65534
MAX_NON_LFS(size) == size[1] = 0

(* PER_SVR3, PER_SCOSVR3, PER_WYSEV386 and PER_XENIX have the flag.        *)
Shorts(p) == CASE p \in {"ibcs", "sco"} -> BOOLEAN [] p = "wyse" -> {TRUE} [] OTHER -> {FALSE}

Init ==
    /\ per \in Personalities /\ short \in Shorts(per)
    /\ attr = [size |-> <<0, 0>>, uid |-> 0] /\ path \in Ids /\ fd = None
    /\ pc = "stat" /\ reports = [s \in {"path", "fd"} |-> NoReport]

-----------------------------------------------------------------------------
(* include/abi/svr4/types.h and include/abi/sco/types.h. *)
Short(n) == n % 65536
linux_to_svr4_dev_t(d) == d[1] * 2^18 + d[2]
linux_to_svr4_o_dev_t(d) == Short(d[1] * 256 + d[2])
(* A stub from the time of 16 bit device numbers; a minor has 20 bits.     *)
linux_to_sco_dev_t(d) == Short(d[2])
linux_to_svr4_ino_t(i) == IF ~short \/ i[2] # 0 THEN i ELSE <<65535, 65534>>
linux_to_svr4_o_ino_t_low(i) == <<0, i[2]>>
linux_to_svr4_o_ino_t(i) == IF i[2] # 0 THEN <<0, i[2]>> ELSE <<0, 65534>>
linux_to_svr4_uid_t(u) == u
linux_to_svr4_o_uid_t(u) == IF u >= 65536 THEN OVERFLOWUID ELSE u

(* The reports; the owner's group is converted as the owner is.            *)
Small(l, dev, ino, k) ==
    IF ~MAX_NON_LFS(k.size) THEN [layout |-> "EOVERFLOW", of |-> k]
    ELSE [layout |-> l, of |-> k, dev |-> dev, ino |-> ino, size |-> k.size,
          uid |-> IF Plain(l) THEN linux_to_svr4_o_uid_t(k.uid) ELSE linux_to_svr4_uid_t(k.uid)]
Large(l, k) ==
    [layout |-> l, of |-> k, dev |-> linux_to_svr4_dev_t(k.dev), ino |-> linux_to_svr4_ino_t(k.ino),
     size |-> k.size, uid |-> linux_to_svr4_uid_t(k.uid)]
report_svr4_stat(k) ==
    Small("svr4_stat", linux_to_svr4_o_dev_t(k.dev), linux_to_svr4_o_ino_t(k.ino), k)
report_svr4_xstat(k) ==
    Small("svr4_xstat", linux_to_svr4_dev_t(k.dev), linux_to_svr4_ino_t(k.ino), k)
report_sco_xstat(k) ==
    Small("sco_xstat", linux_to_sco_dev_t(k.dev), linux_to_svr4_ino_t(k.ino), k)
report_uw7_stat64(k) == Large("uw7_stat64", k)
report_sol_stat64(k) == Large("sol_stat64", k)

(* The versions that xstat(), lxstat() and fxstat() of a table know.       *)
EINVAL(k) == [layout |-> "EINVAL", of |-> k]
svr4_xstat(v, k) ==
    CASE v = 1 -> report_svr4_stat(k) [] v = 2 -> report_svr4_xstat(k) [] OTHER -> EINVAL(k)
uw7_xstat(v, k) == IF v = 4 THEN report_uw7_stat64(k) ELSE svr4_xstat(v, k)
sco_xstat(v, k) ==
    CASE v = 1 -> report_svr4_stat(k) [] v = 51 -> report_sco_xstat(k) [] OTHER -> EINVAL(k)
svr4_stat(k) == report_svr4_stat(k)
sol_stat64(k) == report_sol_stat64(k)

(* What a program of the personality may see of a file.                    *)
Versions == {1, 2, 4, 51}
Seen(k) ==
    {svr4_stat(k)} \cup
    CASE per = "uw7" -> {uw7_xstat(v, k) : v \in Versions}
      [] per = "sco" -> {sco_xstat(v, k) : v \in Versions}
      [] per = "wyse" -> {}
      [] per = "solaris" -> {svr4_xstat(v, k) : v \in Versions} \cup {sol_stat64(k)}
      [] OTHER -> {svr4_xstat(v, k) : v \in Versions}

-----------------------------------------------------------------------------
(* vfs_stat(), vfs_lstat() and vfs_fstat() are the kernel's. *)
kstat(i) == [dev |-> i.dev, ino |-> i.ino, size |-> attr.size, uid |-> attr.uid]
Report(slot, i) == \E r \in Seen(kstat(i)) : reports' = [reports EXCEPT ![slot] = r]
stat ==
    pc = "stat" /\ Report("path", path) /\ pc' = "open" /\ UNCHANGED <<per, short, attr, path, fd>>
open ==
    pc = "open" /\ fd' = path /\ pc' = "fstat" /\ UNCHANGED <<per, short, attr, path, reports>>
fstat ==
    /\ pc = "fstat" /\ Report("fd", fd) /\ pc' = "compare" /\ fd' = None
    /\ UNCHANGED <<per, short, attr, path>>
again ==
    /\ pc = "compare" /\ pc' = "stat" /\ reports' = [s \in {"path", "fd"} |-> NoReport]
    /\ UNCHANGED <<per, short, attr, path, fd>>

(* Other programs, while this one is at it. *)
rename(i) == pc # "compare" /\ path' = i /\ UNCHANGED <<per, short, attr, fd, pc, reports>>
Change(a) == pc # "compare" /\ attr' = a /\ UNCHANGED <<per, short, path, fd, pc, reports>>
truncate(n) == Change([attr EXCEPT !.size = n])
chown(u) == Change([attr EXCEPT !.uid = u])

Next ==
    \/ stat \/ open \/ fstat \/ again
    \/ \E i \in Ids : rename(i)
    \/ \E n \in FileSizes : truncate(n)
    \/ \E u \in FileUids : chown(u)

Spec == Init /\ [][Next]_vars

-----------------------------------------------------------------------------
Good(r) == r.layout \notin {"none", "EINVAL", "EOVERFLOW"}
Same(k, l) == k.dev = l.dev /\ k.ino = l.ino

TypeOK ==
    /\ per \in Personalities /\ short \in BOOLEAN
    /\ fd \in Ids \cup {None} /\ path \in Ids
    /\ \A s \in DOMAIN reports : Good(reports[s]) =>
         /\ reports[s].uid \in Nat /\ reports[s].dev \in Nat
         /\ Plain(reports[s].layout) => (reports[s].dev < 65536 /\ reports[s].uid < 65536)

(* Two reports in the 32 bit layouts that have the same device and inode   *)
(* are about one file, where inodes are not short: a program that compares *)
(* them, to find links or to see that what it opened is what it looked at, *)
(* is not misled by linux_to_svr4_dev_t() and linux_to_svr4_ino_t().       *)
FilesAreToldApart ==
    LET r == reports["path"]  s == reports["fd"] IN
    (/\ Good(r) /\ Good(s) /\ ~short /\ ~Plain(r.layout) /\ ~Plain(s.layout)
     /\ r.dev = s.dev /\ r.ino = s.ino)
        => Same(r.of, s.of)

(* Two reports about one file have the same low word of the inode, never   *)
(* 0, in whatever layouts, in a personality with short inodes, and in two  *)
(* reports of one layout otherwise: "it must match stat()" of types.h.     *)
ReportsOfAFileAgree ==
    LET r == reports["path"]  s == reports["fd"] IN
    (Good(r) /\ Good(s) /\ Same(r.of, s.of) /\ (short \/ r.layout = s.layout))
        => r.ino[2] = s.ino[2] /\ (r.layout = s.layout => r.dev = s.dev) /\ (short => r.ino[2] # 0)

(* A size that is reported is the file's, to the bit, and no user but root *)
(* is reported as root or as another user: what a 16 bit field cannot hold *)
(* is the overflow uid.                                                    *)
SizeAndOwnerAreTheFiles ==
    \A s \in DOMAIN reports : Good(reports[s]) =>
        /\ reports[s].size = reports[s].of.size
        /\ reports[s].uid \in {reports[s].of.uid, OVERFLOWUID}
=============================================================================
