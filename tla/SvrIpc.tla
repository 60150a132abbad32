------------------------------- MODULE SvrIpc -------------------------------
(***************************************************************************)
(* semsys(), shmsys() and msgsys() of System V programs (abi/svr4/ipc.c,   *)
(* include/abi/svr4/ipc.h): a semaphore set, a shared memory segment or    *)
(* a message queue, controlled through the iBCS2 structures (16-bit        *)
(* fields) or the longer SVR4 ones (IPC_STAT_L, IPC_SET_L), which both     *)
(* become Linux' old structures of 16-bit fields on the way.  Other        *)
(* processes change the object with calls of Linux meanwhile.              *)
(*                                                                         *)
(* Of a control structure the owner, the mode and the size limit of the    *)
(* queue are kept, the fields that IPC_SET looks at.                       *)
(***************************************************************************)
EXTENDS Integers, Sequences

CONSTANTS Uids, Modes, Sizes,  \* of the objects; some need more than 16 bits
          Nsems,               \* semaphores of the set, at most 8
          Arrays,              \* what the program keeps in the eight shorts at its array
          Addresses            \* where shmat() attaches, as signed ints

VARIABLES kind,    \* of the object
          obj,     \* Linux: the object's structure, or Removed
          buf,     \* the program's structure
          stat,    \* history: the object as buf shows it, or Removed
          sem,     \* Linux: the semaphores
          mem,     \* the eight shorts at the program's array
          reg,     \* what the call leaves in eax and the carry flag
          last     \* history: the last call, as far as a property asks

vars == <<kind, obj, buf, stat, sem, mem, reg, last>>

Kinds == {"sem", "shm", "msg"}
Ds(uid, mode, qbytes) == [uid |-> uid, mode |-> mode, qbytes |-> qbytes]
Removed == Ds(-1, -1, -1)
USHRT_MAX == 65535
To16(n) == n % 65536

Ok(v) == [carry |-> FALSE, eax |-> v]
Err(e) == [carry |-> TRUE, eax |-> e]
EINVAL == 22
EPERM == 1

-----------------------------------------------------------------------------
(* Linux: IPC_STAT into an old structure. *)
LinuxStat(ds) ==
    Ds(IF ds.uid > USHRT_MAX THEN 65534 ELSE ds.uid, ds.mode,
       IF ds.qbytes > USHRT_MAX THEN USHRT_MAX ELSE ds.qbytes)

(* The fields of Linux' structures have 16 bits whatever the program's     *)
(* have.  The other way around nothing is lost.                            *)
ip_to_lp(ip) == [ip EXCEPT !.uid = To16(@), !.mode = To16(@)]
ishm_to_lshm(is) == ip_to_lp(is)
imsq_to_lmsq(im) == [ip_to_lp(im) EXCEPT !.qbytes = To16(@)]
to_linux(is) == IF kind = "msg" THEN imsq_to_lmsq(is) ELSE ishm_to_lshm(is)

Init ==
    /\ kind \in Kinds
    /\ obj \in [uid : Uids, mode : Modes, qbytes : IF kind = "msg" THEN Sizes ELSE {0}]
    /\ buf = Removed /\ stat = Removed
    /\ sem = [i \in 0 .. Nsems - 1 |-> 0] /\ mem \in Arrays
    /\ reg = Ok(0) /\ last = "none"

(* IPC_STAT and IPC_STAT_L. *)
ipc_stat ==
    /\ IF obj = Removed THEN reg' = Err(EINVAL) /\ UNCHANGED <<buf, stat>>
       ELSE buf' = LinuxStat(obj) /\ stat' = obj /\ reg' = Ok(0)
    /\ last' = "stat" /\ UNCHANGED <<kind, obj, sem, mem>>

(* The program changes a field of its structure, of 32 bits in SVR4's. *)
edit ==
    /\ buf # Removed /\ stat' = Removed
    /\ \/ \E uid \in Uids : buf' = [buf EXCEPT !.uid = uid]
       \/ \E mode \in Modes : buf' = [buf EXCEPT !.mode = mode]
    /\ last' = "edit" /\ UNCHANGED <<kind, obj, sem, mem, reg>>

(* The result of an IPC_SET that sys_ipc(), sys_shmctl() or sys_msgctl()   *)
(* refused: svr4_msgctl() goes on, and returns that of its last copy.      *)
refused(e) == IF kind = "msg" THEN Ok(0) ELSE Err(e)

(* IPC_SET and IPC_SET_L, which write the structure back as well. *)
ipc_set ==
    /\ buf # Removed
    /\ \/ /\ obj # Removed
          /\ obj' = to_linux(buf) /\ reg' = Ok(0) /\ last' = "set"
          /\ buf' = to_linux(buf) /\ stat' = obj'
       \/ /\ reg' = refused(IF obj = Removed THEN EINVAL ELSE EPERM) /\ last' = "set_refused"
          /\ buf' = (IF kind = "msg" THEN to_linux(buf) ELSE buf)
          /\ stat' = (IF buf' = buf THEN stat ELSE Removed)
          /\ UNCHANGED obj
    /\ UNCHANGED <<kind, sem, mem>>

(* IPC_RMID and IPC_RMID_L. *)
ipc_rmid ==
    /\ reg' = (IF obj = Removed THEN Err(EINVAL) ELSE Ok(0))
    /\ obj' = Removed /\ stat' = Removed
    /\ last' = "rmid" /\ UNCHANGED <<kind, buf, sem, mem>>

(* A Linux process changes the object. *)
linux_set(uid) ==
    /\ obj # Removed /\ obj' = [obj EXCEPT !.uid = uid]
    /\ stat' = Removed /\ UNCHANGED <<kind, buf, sem, mem, reg, last>>

-----------------------------------------------------------------------------
(* SETALL and GETALL go through __ibcs2_semctl() as if the array of shorts *)
(* were a struct semid_ds.  The first eight shorts of the program's are    *)
(* uid, gid, cuid, cgid, mode, seq and the two halves of the key; Linux'   *)
(* structure begins with the key.                                          *)
isem_to_lsem(is) == [i \in 0 .. 7 |-> IF i < 2 THEN is[i + 6] ELSE is[i - 2]]
lsem_to_isem_straight(ls) == ls
lsem_to_isem(ls) == [i \in 0 .. 7 |-> IF i < 6 THEN ls[i + 2] ELSE ls[i - 6]]

sem_setall ==
    /\ IF obj = Removed THEN reg' = Err(EINVAL) /\ UNCHANGED sem
       ELSE sem' = [i \in DOMAIN sem |-> isem_to_lsem(mem)[i]] /\ reg' = Ok(0)
    /\ last' = (IF obj = Removed THEN "none" ELSE "setall")
    /\ UNCHANGED <<kind, obj, buf, stat, mem>>

(* Linux writes its semaphores over the structure made of the program's. *)
GetAll == lsem_to_isem([i \in 0 .. 7 |-> IF i \in DOMAIN sem THEN sem[i] ELSE isem_to_lsem(mem)[i]])
sem_getall ==
    /\ IF obj = Removed THEN reg' = Err(EINVAL) /\ UNCHANGED mem
       ELSE mem' = GetAll /\ reg' = Ok(0)
    /\ last' = (IF last = "setall" THEN last ELSE "none")
    /\ UNCHANGED <<kind, obj, buf, stat, sem>>

(* SETVAL; with GETVAL, GETPID, GETNCNT and GETZCNT it goes to sys_ipc(). *)
sem_setval(i, v) ==
    /\ obj # Removed /\ sem' = [sem EXCEPT ![i] = v] /\ reg' = Ok(0)
    /\ last' = "none" /\ UNCHANGED <<kind, obj, buf, stat, mem>>
sem_getval(i) ==
    /\ obj # Removed /\ reg' = Ok(sem[i])
    /\ last' = "none" /\ UNCHANGED <<kind, obj, buf, stat, sem, mem>>

(* The program fills its array. *)
fill(m) == mem' = m /\ last' = "none" /\ UNCHANGED <<kind, obj, buf, stat, sem, reg>>

-----------------------------------------------------------------------------
(* svr4_shmsys() sets the registers itself: -254 to -1 are errors, and any *)
(* other int is a result, the address of shmat() above 2^31 included.      *)
shmsys_out(err) == IF err < 0 /\ err > -255 THEN Err(-err) ELSE Ok(err)
do_shmat(addr) == IF obj = Removed THEN -EINVAL ELSE addr
svr4_shmat(addr) ==
    /\ reg' = shmsys_out(do_shmat(addr))
    /\ last' = (IF obj = Removed THEN "none" ELSE "shmat")
    /\ UNCHANGED <<kind, obj, buf, stat, sem, mem>>

svr4_semctl ==
    \/ sem_setall \/ sem_getall \/ \E m \in Arrays : fill(m)
    \/ \E i \in DOMAIN sem : sem_getval(i) \/ \E v \in {0, 1} : sem_setval(i, v)

Next ==
    \/ ipc_stat \/ edit \/ ipc_set \/ ipc_rmid \/ \E uid \in Uids : linux_set(uid)
    \/ kind = "sem" /\ svr4_semctl
    \/ kind = "shm" /\ \E a \in Addresses : svr4_shmat(a)

Spec == Init /\ [][Next]_vars

-----------------------------------------------------------------------------
TypeOK ==
    /\ kind \in Kinds /\ sem \in [0 .. Nsems - 1 -> 0 .. USHRT_MAX] /\ DOMAIN mem = 0 .. 7
    /\ (obj.uid \in Uids \/ obj.uid \in -1 .. USHRT_MAX) /\ reg.carry \in BOOLEAN

(* A program that gets a structure and sets it again changes nothing: what *)
(* IPC_STAT showed of an object nobody else touched is what IPC_SET would  *)
(* write, in both formats.  An owner or a limit of more than 16 bits is    *)
(* beyond Linux' old structures: IPC_SET gives such an object away.        *)
StatThenSetKeeps ==
    (stat # Removed /\ obj = stat /\ obj.uid <= USHRT_MAX /\ obj.qbytes <= USHRT_MAX)
        => to_linux(buf) = obj

(* A SETALL is read back by GETALL: though both put the array in another   *)
(* order in Linux, the program's array comes back unchanged, as long as no *)
(* other call sets a semaphore in between.                                 *)
SetAllIsReadBack == last = "setall" => GetAll = mem

(* An IPC_SET of a semaphore set or a segment that Linux refuses is        *)
(* reported, so that the program does not take the old owner for the new.  *)
RefusedSetIsReported == (last = "set_refused" /\ kind # "msg") => reg.carry

(* shmat() reports the address it attached at, wherever that is: an        *)
(* address of the upper half of memory, negative as an int, is no error.   *)
AttachedIsReported == last = "shmat" => ~reg.carry
=============================================================================
