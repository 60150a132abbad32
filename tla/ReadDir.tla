------------------------------- MODULE ReadDir -------------------------------
(***************************************************************************)
(* Reading directories: Linux' own calls (fs/readdir.c), svr4_getdents()   *)
(* (abi/svr4/open.c), and the two loops around old_readdir() that build    *)
(* the records of other systems, sol_getdents64() (abi/solaris/lfs.c) and  *)
(* abi_read_dir() (abi/svr4/misc.c).  Threads read through one open file   *)
(* and share its f_pos.                                                    *)
(*                                                                         *)
(* The directory is the sequence of its entries' name lengths; entry e is  *)
(* at position e - 1 and f_pos counts entries.                             *)
(* A record in a buffer is [e, off]: the entry and d_off.                  *)
(***************************************************************************)
EXTENDS Integers, Sequences, SequencesExt, FiniteSets

CONSTANTS Threads,
          Dir,      \* the directory: a sequence of name lengths
          Counts    \* the buffer sizes that are passed

VARIABLES f_pos,
          th,       \* the threads, see Idle
          got,      \* history: entry -> how often a caller was given it
          lost,     \* history: entries skipped as too long or lost to a fault
          raced     \* history: a loop was not alone with the file

vars == <<f_pos, th, got, lost, raced>>

Entries == DOMAIN Dir
Idle == [pc |-> "idle", kind |-> "none", count |-> 0, posn |-> 0, reclen |-> 0,
         here |-> 0, d |-> 0, buf |-> << >>, ret |-> 0]
Loops == {"sol_getdents64", "abi_read_dir"}
EINVAL == -22
EFAULT == -14

RoundUp(n, to) == ((n + to - 1) \div to) * to

(* The size of the record of a name of n characters. *)
filldir_reclen(n) == RoundUp(10 + n + 2, 4)
filldir64_reclen(n) == RoundUp(19 + n + 1, 8)
svr4_filldir_reclen(n) == RoundUp(10 + n + 1, 4)
sol_reclen(n) == RoundUp(8 + 8 + 2 + n + 1, 4)
read_dir_reclen(n) == 16 * ((n + 13) \div 14)
Reclen(kind, e) ==
    LET n == Dir[e]
    IN  CASE kind = "sys_getdents" -> filldir_reclen(n)
          [] kind = "sys_getdents64" -> filldir64_reclen(n)
          [] kind = "svr4_getdents" -> svr4_filldir_reclen(n)
          [] kind = "sol_getdents64" -> sol_reclen(n)
          [] kind = "abi_read_dir" -> read_dir_reclen(n)

(* The size of a sequence of records. *)
Total(kind, records) == FoldLeft(LAMBDA sum, r : sum + Reclen(kind, r.e), 0, records)

-----------------------------------------------------------------------------
Init ==
    /\ f_pos = 0 /\ th = [t \in Threads |-> Idle]
    /\ got = [e \in Entries |-> 0] /\ lost = {} /\ raced = FALSE

Alone(t) == \A u \in Threads \ {t} : th[u].pc = "idle"
Busy(t) == raced' = (raced \/ (~Alone(t) /\ \E u \in Threads : th[u].kind \in Loops))

Goto(t, label) == th' = [th EXCEPT ![t].pc = label]

(* The caller is given the records of its buffer. *)
Delivered(records) ==
    got' = [e \in Entries |-> IF \E i \in DOMAIN records : records[i].e = e
                              THEN IF got[e] < 2 THEN got[e] + 1 ELSE 2 ELSE got[e]]

(* vfs_readdir() with filldir(), filldir64() or svr4_filldir(), under the  *)
(* directory's i_sem: entries go in while they fit; d_off of a record is   *)
(* the position of the next, and f_pos for the last.  Nothing that fits is *)
(* EINVAL, the end is 0.                                                   *)
Ahead(k) == [i \in 1 .. k |-> [e |-> f_pos + i, off |-> f_pos + i]]
Fits(kind, count) == {k \in 0 .. Len(Dir) - f_pos : Total(kind, Ahead(k)) <= count}
Filled(kind, count) == CHOOSE k \in Fits(kind, count) : \A j \in Fits(kind, count) : j <= k
getdents(t, kind, count) ==
    /\ th[t].pc = "idle"
    /\ LET k == Filled(kind, count)
       IN  /\ f_pos' = f_pos + k /\ Delivered(Ahead(k))
           /\ th' = [th EXCEPT ![t] = [Idle EXCEPT !.kind = kind, !.buf = Ahead(k),
                        !.pc = "return",
                        !.ret = IF k > 0 THEN Total(kind, Ahead(k))
                                ELSE IF f_pos < Len(Dir) THEN EINVAL ELSE 0]]
    /\ Busy(t) /\ UNCHANGED lost

sys_getdents(t, count) == getdents(t, "sys_getdents", count)
sys_getdents64(t, count) == getdents(t, "sys_getdents64", count)
svr4_getdents(t, count) == getdents(t, "svr4_getdents", count)

(* old_readdir() with fillonedir(): one entry, whose offset is its own     *)
(* position; the result is 1, and 0 at the end.                            *)
old_readdir(t) ==
    /\ th[t].pc = "idle"
    /\ LET buf == IF f_pos < Len(Dir) THEN <<[e |-> f_pos + 1, off |-> f_pos]>> ELSE << >>
       IN  /\ f_pos' = f_pos + Len(buf) /\ Delivered(buf)
           /\ th' = [th EXCEPT ![t] = [Idle EXCEPT !.kind = "old_readdir", !.buf = buf,
                                                   !.pc = "return", !.ret = Len(buf)]]
    /\ Busy(t) /\ UNCHANGED lost

-----------------------------------------------------------------------------
(* The loops: while (posn + reclen < count), remember f_pos, have          *)
(* old_readdir() read one entry into a page, and place it.                 *)
loop_enter(t, kind, count) ==
    /\ th[t].pc = "idle"
    /\ th' = [th EXCEPT ![t] = [Idle EXCEPT !.kind = kind, !.count = count, !.pc = "loop"]]
    /\ UNCHANGED <<f_pos, got, lost>> /\ Busy(t)

MayReadMore(l) == l.posn + l.reclen < l.count
loop_save(t) ==
    /\ th[t].pc = "loop" /\ MayReadMore(th[t])
    /\ th' = [th EXCEPT ![t].pc = "readdir", ![t].here = f_pos]
    /\ UNCHANGED <<f_pos, got, lost>> /\ Busy(t)

loop_readdir(t) ==
    /\ th[t].pc = "readdir"
    /\ IF f_pos < Len(Dir)
       THEN /\ th' = [th EXCEPT ![t].pc = "place", ![t].d = f_pos + 1, ![t].ret = 1,
                                ![t].reclen = Reclen(th[t].kind, f_pos + 1)]
            /\ f_pos' = f_pos + 1
       ELSE /\ th' = [th EXCEPT ![t].pc = "done", ![t].ret = 0] /\ UNCHANGED f_pos
    /\ UNCHANGED <<got, lost>> /\ Busy(t)

(* It fits: stored, with d_off = f_pos in Solaris' records. *)
place_fits_any(t) ==
    /\ th[t].pc = "place"
    /\ th' = [th EXCEPT ![t].pc = "loop", ![t].posn = @ + th[t].reclen, ![t].d = 0,
                        ![t].buf = Append(@, [e |-> th[t].d,
                            off |-> IF th[t].kind = "sol_getdents64" THEN f_pos ELSE th[t].d])]
    /\ UNCHANGED <<f_pos, got, lost>> /\ Busy(t)
place_fits(t) ==
    /\ th[t].pc = "place" /\ th[t].posn + th[t].reclen <= th[t].count
    /\ th' = [th EXCEPT ![t].pc = "loop", ![t].posn = @ + th[t].reclen, ![t].d = 0,
                        ![t].buf = Append(@, [e |-> th[t].d,
                            off |-> IF th[t].kind = "sol_getdents64" THEN f_pos ELSE th[t].d])]
    /\ UNCHANGED <<f_pos, got, lost>> /\ Busy(t)

(* It does not and there are others: back to where it was read. *)
place_seek_skipped(t) ==
    /\ th[t].pc = "place" /\ th[t].posn + th[t].reclen > th[t].count /\ th[t].posn > 0
    /\ UNCHANGED f_pos
    /\ th' = [th EXCEPT ![t].pc = "loop", ![t].d = 0]
    /\ UNCHANGED <<got, lost>> /\ Busy(t)
place_seek(t) ==
    /\ th[t].pc = "place" /\ th[t].posn + th[t].reclen > th[t].count /\ th[t].posn > 0
    /\ f_pos' = th[t].here
    /\ th' = [th EXCEPT ![t].pc = "loop", ![t].d = 0]
    /\ UNCHANGED <<got, lost>> /\ Busy(t)

(* It never will: "we'll just pretend it isn't here". *)
place_skip(t) ==
    /\ th[t].pc = "place" /\ th[t].posn + th[t].reclen > th[t].count /\ th[t].posn = 0
    /\ lost' = lost \cup {th[t].d}
    /\ th' = [th EXCEPT ![t].pc = "loop", ![t].d = 0]
    /\ UNCHANGED <<f_pos, got>> /\ Busy(t)

(* The program's buffer faults: what was read is gone. *)
place_fault(t) ==
    /\ th[t].pc = "place" /\ th[t].posn + th[t].reclen <= th[t].count
    /\ lost' = lost \cup {th[t].d} \cup {th[t].buf[i].e : i \in DOMAIN th[t].buf}
    /\ th' = [th EXCEPT ![t] = [Idle EXCEPT !.kind = th[t].kind, !.pc = "return", !.ret = EFAULT]]
    /\ UNCHANGED <<f_pos, got>> /\ Busy(t)

(* return posn > 0 ? posn : error, which is old_readdir()'s last result. *)
loop_return(t) ==
    /\ th[t].pc = "done" \/ (th[t].pc = "loop" /\ ~MayReadMore(th[t]))
    /\ Delivered(th[t].buf)
    /\ th' = [th EXCEPT ![t] = [Idle EXCEPT !.kind = th[t].kind, !.buf = th[t].buf,
                 !.pc = "return",
                 !.ret = IF th[t].posn > 0 THEN th[t].posn ELSE th[t].ret]]
    /\ UNCHANGED <<f_pos, lost>> /\ Busy(t)

back_in_user(t) == th[t].pc = "return" /\ th' = [th EXCEPT ![t] = Idle]
                   /\ UNCHANGED <<f_pos, got, lost, raced>>

(* The program rewinds and starts over. *)
rewind ==
    /\ \A t \in Threads : th[t].pc = "idle"
    /\ f_pos' = 0 /\ got' = [e \in Entries |-> 0] /\ lost' = {} /\ raced' = FALSE
    /\ UNCHANGED th

Next ==
    \/ \E t \in Threads :
         \/ \E c \in Counts :
              \/ sys_getdents(t, c) \/ sys_getdents64(t, c) \/ svr4_getdents(t, c)
              \/ \E k \in Loops : loop_enter(t, k, c)
         \/ old_readdir(t)
         \/ loop_save(t) \/ loop_readdir(t) \/ place_fits(t) \/ place_seek(t) \/ place_skip(t)
         \/ place_fault(t) \/ loop_return(t) \/ back_in_user(t)
    \/ rewind

Spec == Init /\ [][Next]_vars

-----------------------------------------------------------------------------
TypeOK ==
    /\ f_pos \in 0 .. Len(Dir) /\ lost \subseteq Entries /\ raced \in BOOLEAN
    /\ got \in [Entries -> 0 .. 2]
    /\ \A t \in Threads : th[t].posn \in 0 .. th[t].count /\ th[t].d \in Entries \cup {0}

Held(t) == {th[t].d} \cup {th[t].buf[i].e : i \in DOMAIN th[t].buf}

(* Unless a loop shared the file, an entry that f_pos has passed was given *)
(* to a caller, or is in the hands of one, or was too long for a buffer,   *)
(* or went with a fault: whatever mixture of calls and buffer sizes reads  *)
(* on, although the loops move f_pos back (sys_lseek()).                   *)
NoEntryIsLost ==
    ~raced => \A e \in 1 .. f_pos :
        got[e] > 0 \/ e \in lost \/ \E t \in Threads : e \in Held(t)

(* Without a second reader during a loop no entry is given twice, and a    *)
(* program that seeks to the d_off of a record goes on with the entry      *)
(* after it (filldir()'s d_off of the previous record, the f_pos of the    *)
(* last).                                                                  *)
SoleReaderSeesEachOnce ==
    ~raced => /\ \A e \in Entries : got[e] <= 1
              /\ \A t \in Threads : th[t].pc = "return" /\ th[t].kind # "old_readdir" =>
                    \A i \in DOMAIN th[t].buf : th[t].buf[i].off = th[t].buf[i].e

(* The result is the bytes filled; 0 is the end of the directory, and no  *)
(* reader takes a buffer that is too small, or another reader's records,   *)
(* for the end.  (A loop that skipped an entry returns old_readdir()'s 1.) *)
ResultIsBytesFilled ==
    \A t \in Threads : th[t].pc = "return" =>
        /\ th[t].ret = 0 => th[t].buf = << >> /\ (~raced => f_pos = Len(Dir))
        /\ th[t].buf # << >> /\ th[t].kind # "old_readdir" =>
              th[t].ret = Total(th[t].kind, th[t].buf)
=============================================================================
