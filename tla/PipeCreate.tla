----------------------------- MODULE PipeCreate -----------------------------
(***************************************************************************)
(* pipe() (do_pipe(), get_pipe_inode(), pipe_new() and free_pipe_info() in *)
(* fs/pipe.c, abi_pipe() in abi/svr4/misc.c): two files, an inode with its *)
(* pipe_inode_info, two descriptors and a dentry, acquired one after the   *)
(* other, and given back in the opposite order when one cannot be had.     *)
(* The descriptor table, the files and the inodes are shared with other    *)
(* threads that create and close pipes between any two steps; an           *)
(* allocation may fail at any time, a descriptor is missing only when the  *)
(* table is full.                                                          *)
(***************************************************************************)
EXTENDS Naturals, FiniteSets

CONSTANTS Threads, Fds, Files, Inodes   \* numbers from 1 on

VARIABLES fdt,   \* the descriptor table: 0, a file, or Reserved
          file,  \* the end that a file is: "none" once allocated, Free before
          inode, \* allocated, i_pipe, readers, writers, d_count (0: no dentry)
          of,    \* f_dentry: the inode of a file, 0 without
          mnt,   \* references to pipe_mnt by files
          th,    \* pc and the locals f1, f2, inode, i, j
          got    \* history: the descriptors returned, until one is closed

vars == <<fdt, file, inode, of, mnt, th, got>>
objects == <<file, inode, of, mnt>>

Free == "free"
Reserved == Cardinality(Files) + 1
NoInode == [live |-> FALSE, info |-> FALSE, readers |-> 0, writers |-> 0, d_count |-> 0]
Idle == [pc |-> "user", f1 |-> 0, f2 |-> 0, inode |-> 0, i |-> 0, j |-> 0]
Nothing == <<0, 0>>

Init ==
    /\ fdt = [n \in Fds |-> 0] /\ file = [f \in Files |-> Free] /\ of = [f \in Files |-> 0]
    /\ inode = [n \in Inodes |-> NoInode] /\ mnt = 0
    /\ th = [t \in Threads |-> Idle] /\ got = [t \in Threads |-> Nothing]

Goto(t, l) == th' = [th EXCEPT ![t].pc = l]
Take(t, local, x, l) == th' = [th EXCEPT ![t][local] = x, ![t].pc = l]
At(t, l) == th[t].pc = l
First(s) == CHOOSE x \in s : \A y \in s : x <= y

-----------------------------------------------------------------------------
(* do_pipe(), up to the dentry.  FailTo is the label an allocation that    *)
(* fails goes to.                                                          *)
FailTo ==
    [f1 |-> "no_files", f2 |-> "close_f1", inode |-> "close_f12", info |-> "fail_iput",
     i |-> "close_f12_inode", j |-> "close_f12_inode_i", dentry |-> "close_f12_inode_i_j"]
fails(t) ==
    /\ th[t].pc \in {"f1", "f2", "inode", "info", "dentry"}
    /\ Goto(t, FailTo[th[t].pc]) /\ UNCHANGED <<fdt, objects, got>>
do_pipe(t) == At(t, "user") /\ Goto(t, "f1") /\ got' = [got EXCEPT ![t] = Nothing] /\ UNCHANGED <<fdt, objects>>
get_empty_filp(t, local, next) ==
    /\ At(t, local)
    /\ LET free == {f \in Files : file[f] = Free} IN
       free # {} /\ file' = [file EXCEPT ![First(free)] = "none"] /\ Take(t, local, First(free), next)
    /\ UNCHANGED <<fdt, inode, of, mnt, got>>
new_inode(t) ==
    /\ At(t, "inode")
    /\ LET free == {n \in Inodes : ~inode[n].live} IN
       free # {} /\ inode' = [inode EXCEPT ![First(free)].live = TRUE] /\ Take(t, "inode", First(free), "info")
    /\ UNCHANGED <<fdt, file, of, mnt, got>>
pipe_new(t) ==
    /\ At(t, "info")
    /\ inode' = [inode EXCEPT ![th[t].inode] = [@ EXCEPT !.info = TRUE, !.readers = 1, !.writers = 1]]
    /\ Goto(t, "i") /\ UNCHANGED <<fdt, file, of, mnt, got>>
get_unused_fd(t, local, next) ==
    LET free == {n \in Fds : fdt[n] = 0} IN
    /\ At(t, local)
    /\ IF free = {} THEN Goto(t, FailTo[local]) /\ UNCHANGED fdt
       ELSE fdt' = [fdt EXCEPT ![First(free)] = Reserved] /\ Take(t, local, First(free), next)
    /\ UNCHANGED <<objects, got>>

(* The dentry has a reference for each of the files, as has the mount.     *)
d_add(t) ==
    LET me == th[t] IN
    /\ At(t, "dentry")
    /\ inode' = [inode EXCEPT ![me.inode].d_count = 2] /\ mnt' = mnt + 2
    /\ of' = [of EXCEPT ![me.f1] = me.inode, ![me.f2] = me.inode]
    /\ file' = [file EXCEPT ![me.f1] = "read", ![me.f2] = "write"]
    /\ Goto(t, "install_i") /\ UNCHANGED <<fdt, got>>
(* abi_pipe(): filedes[0] in eax and filedes[1] in edx. *)
abi_pipe(i, j) == <<i, j>>
fd_install_i(t) ==
    /\ At(t, "install_i") /\ fdt' = [fdt EXCEPT ![th[t].i] = th[t].f1]
    /\ got' = [got EXCEPT ![t] = abi_pipe(th[t].i, th[t].j)]
    /\ Goto(t, "install_j") /\ UNCHANGED objects
fd_install_j(t) ==
    /\ At(t, "install_j") /\ fdt' = [fdt EXCEPT ![th[t].j] = th[t].f2]
    /\ th' = [th EXCEPT ![t] = Idle] /\ UNCHANGED <<objects, got>>

-----------------------------------------------------------------------------
(* The error paths. *)
put_unused_fd(t, local, here, next) ==
    At(t, here) /\ fdt' = [fdt EXCEPT ![th[t][local]] = 0] /\ Take(t, local, 0, next) /\ UNCHANGED <<objects, got>>
free_pipe_info(t) ==
    /\ At(t, "close_f12_inode") /\ inode' = [inode EXCEPT ![th[t].inode].info = FALSE]
    /\ Goto(t, "fail_iput") /\ UNCHANGED <<fdt, file, of, mnt, got>>
iput(t) ==
    /\ At(t, "fail_iput") /\ inode' = [inode EXCEPT ![th[t].inode] = [NoInode EXCEPT !.info = inode[th[t].inode].info]]
    /\ Take(t, "inode", 0, "close_f12") /\ UNCHANGED <<fdt, file, of, mnt, got>>
put_filp(t, local, here, next) ==
    /\ At(t, here) /\ file' = [file EXCEPT ![th[t][local]] = Free]
    /\ Take(t, local, 0, next) /\ UNCHANGED <<fdt, inode, of, mnt, got>>
no_files(t) == At(t, "no_files") /\ th' = [th EXCEPT ![t] = Idle] /\ UNCHANGED <<fdt, objects, got>>

-----------------------------------------------------------------------------
(* close(): pipe_release() counts the end out and the last one frees the   *)
(* pipe_inode_info, then the references of the file go.                    *)
Released(n, end) ==
    LET r == n.readers - (IF end = "read" THEN 1 ELSE 0)
        w == n.writers - (IF end = "write" THEN 1 ELSE 0)
    IN  [n EXCEPT !.readers = r, !.writers = w, !.info = @ /\ ~(r = 0 /\ w = 0),
                  !.d_count = @ - 1, !.live = n.d_count # 1]
sys_close(t, n) ==
    LET f == fdt[n] IN
    /\ At(t, "user") /\ f \in Files
    /\ fdt' = [fdt EXCEPT ![n] = 0] /\ file' = [file EXCEPT ![f] = Free]
    /\ of' = [of EXCEPT ![f] = 0] /\ mnt' = mnt - 1
    /\ inode' = [inode EXCEPT ![of[f]] = Released(@, file[f])]
    /\ got' = [u \in Threads |-> IF n \in {got[u][1], got[u][2]} THEN Nothing ELSE got[u]]
    /\ UNCHANGED th

Step(t) ==
    \/ do_pipe(t) \/ fails(t) \/ new_inode(t) \/ pipe_new(t) \/ d_add(t)
    \/ get_empty_filp(t, "f1", "f2") \/ get_empty_filp(t, "f2", "inode")
    \/ get_unused_fd(t, "i", "j") \/ get_unused_fd(t, "j", "dentry")
    \/ fd_install_i(t) \/ fd_install_j(t)
    \/ put_unused_fd(t, "j", "close_f12_inode_i_j", "close_f12_inode_i")
    \/ put_unused_fd(t, "i", "close_f12_inode_i", "close_f12_inode")
    \/ free_pipe_info(t) \/ iput(t) \/ no_files(t)
    \/ put_filp(t, "f2", "close_f12", "close_f1") \/ put_filp(t, "f1", "close_f1", "no_files")
    \/ \E n \in Fds : sys_close(t, n)

Next == \E t \in Threads : Step(t)

Spec == Init /\ [][Next]_vars

-----------------------------------------------------------------------------
TypeOK ==
    /\ \A n \in Fds : fdt[n] \in Files \cup {0, Reserved}
    /\ \A f \in Files : file[f] \in {Free, "none", "read", "write"} /\ of[f] \in Inodes \cup {0}
    /\ \A n \in Inodes : {inode[n].readers, inode[n].writers} \subseteq 0 .. 1 /\ inode[n].d_count \in 0 .. 2

(* What exists is what the table and the calls under way hold: a pipe()    *)
(* that fails at any of its steps, among other threads' calls, has given   *)
(* back its files, its inode and its descriptors.                          *)
NothingIsLeaked ==
    LET busy == {t \in Threads : ~At(t, "user")} IN
    /\ \A f \in Files : file[f] # Free => \/ \E n \in Fds : fdt[n] = f
                                           \/ \E t \in busy : f \in {th[t].f1, th[t].f2}
    /\ \A n \in Inodes : (inode[n].live \/ inode[n].info) =>
            (\E f \in Files : of[f] = n) \/ (\E t \in busy : th[t].inode = n)
    /\ \A n \in Fds : fdt[n] = Reserved => \E t \in busy : n \in {th[t].i, th[t].j}

(* An inode lives as long as a file refers to it, and it has its           *)
(* pipe_inode_info and the counts of ends that its files make.             *)
EndsAreCounted ==
    /\ \A n \in Inodes :
         LET users == {f \in Files : of[f] = n} IN
         users # {} => /\ inode[n].live /\ inode[n].info /\ inode[n].d_count = Cardinality(users)
                       /\ inode[n].readers = Cardinality({f \in users : file[f] = "read"})
                       /\ inode[n].writers = Cardinality({f \in users : file[f] = "write"})
    /\ mnt = Cardinality({f \in Files : of[f] # 0})

(* The descriptors that pipe() returned are the reading and the writing    *)
(* end of one pipe until a thread closes them.                             *)
ReturnsBothEnds ==
    \A t \in Threads : (At(t, "user") /\ got[t] # Nothing) =>
        LET r == fdt[got[t][1]]  w == fdt[got[t][2]] IN
        /\ r \in Files /\ w \in Files /\ of[r] = of[w] /\ of[r] # 0
        /\ file[r] = "read" /\ file[w] = "write"
=============================================================================
