------------------------------- MODULE SolMsg -------------------------------
(***************************************************************************)
(* sendmsg() and recvmsg() of Solaris programs (abi/solaris/socket.c): the *)
(* header and the vector are read into the kernel, the vector and the      *)
(* control message onto the stack or into memory that is allocated for     *)
(* them, and the socket is used with the big kernel lock held.  Every step *)
(* may fail.                                                               *)
(*                                                                         *)
(* msghdr_from_user32_to_kern() never sets msg_iovlen, so the number of    *)
(* vector elements is any.  A control message is absent, fits ctl[], or is *)
(* allocated; the ones above 256 bytes, for which the code has no buffer,  *)
(* are left out.                                                           *)
(***************************************************************************)
EXTENDS Integers, FiniteSets

CONSTANTS UserFlags    \* the flag words the program passes

VARIABLES pc, call,
          nonblock,    \* the file is O_NONBLOCK
          uflags,      \* the program's flags
          msg,         \* kern_msg: namelen # 0, the size of the vector, msg_iov, msg_flags
          ctl_buf,     \* "ctl" or "heap"
          heap,        \* what is allocated
          badfree,     \* something else was freed
          held,        \* of "file", "bkl"
          err          \* the result is an error

vars == <<pc, call, nonblock, uflags, msg, ctl_buf, heap, badfree, held, err>>

Calls == {"solaris_sendmsg", "solaris_recvmsg"}

(* Bit numbers of the flags; OOB, PEEK and DONTROUTE are the same.         *)
MSG_CTRUNC == 3
MSG_TRUNC == 5
MSG_DONTWAIT == 6
MSG_EOR == 7
MSG_WAITALL == 8
SameFlags == {0, 1, 2}
SolFlag == [f \in 3 .. 7 |-> <<MSG_EOR, MSG_CTRUNC, MSG_TRUNC, MSG_WAITALL, MSG_DONTWAIT>>[f - 2]]

solaris_to_linux_msgflags(flags) ==
    (flags \cap SameFlags) \cup {SolFlag[f] : f \in flags \cap (3 .. 7)}
linux_to_solaris_msgflags(flags) ==
    (flags \cap SameFlags) \cup {f \in 3 .. 7 : SolFlag[f] \in flags}

Msg(name, iovlen, iov, flags) == [name |-> name, iovlen |-> iovlen, iov |-> iov, flags |-> flags]
NoMsg == Msg(FALSE, "few", "user", {})

-----------------------------------------------------------------------------
Init ==
    /\ pc = "user" /\ call \in Calls /\ nonblock = FALSE /\ uflags = {} /\ msg = NoMsg
    /\ ctl_buf = "ctl" /\ heap = {} /\ badfree = FALSE /\ held = {} /\ err = FALSE

kfree(p) ==
    /\ heap' = heap \ {p}
    /\ badfree' = (badfree \/ p \notin heap)

Return(e) ==
    /\ pc' = "return" /\ err' = e /\ UNCHANGED <<call, nonblock, uflags, held>>

(* msghdr_from_user32_to_kern(), and the limit on msg_iovlen. *)
msghdr_from_user32_to_kern(c, nb, flags, name, iovlen) ==
    /\ pc = "user"
    /\ call' = c /\ nonblock' = nb /\ uflags' = flags
    /\ msg' = Msg(name, iovlen, "user", solaris_to_linux_msgflags(flags))
    /\ \/ iovlen # "toomany" /\ pc' = "verify" /\ err' = FALSE
       \/ pc' = "return" /\ err' = TRUE
    /\ UNCHANGED <<ctl_buf, heap, badfree, held>>

(* verify_iovec32(): the address is read for sendmsg() only. *)
verify_addr ==
    /\ pc = "verify"
    /\ \/ pc' = "alloc" /\ UNCHANGED err
       \/ msg.name /\ call = "solaris_sendmsg" /\ pc' = "return" /\ err' = TRUE
    /\ UNCHANGED <<call, nonblock, uflags, msg, ctl_buf, heap, badfree, held>>

verify_alloc ==
    /\ pc = "alloc"
    /\ \/ msg.iovlen = "few" /\ pc' = "iov" /\ UNCHANGED <<heap, err>>
       \/ msg.iovlen = "many" /\ pc' = "iov" /\ heap' = heap \cup {"iov"} /\ UNCHANGED err
       \/ msg.iovlen = "many" /\ pc' = "return" /\ err' = TRUE /\ UNCHANGED heap
    /\ UNCHANGED <<call, nonblock, uflags, msg, ctl_buf, badfree, held>>

(* A fault and a negative total are the same to the callers. *)
iov_from_user32_to_kern ==
    /\ pc = "iov"
    /\ \/ /\ msg' = [msg EXCEPT !.iov = IF @ = "user" /\ msg.iovlen = "many" THEN "heap" ELSE "stack"]
          /\ pc' = IF call = "solaris_sendmsg" THEN "control" ELSE "lock"
          /\ UNCHANGED <<call, nonblock, uflags, heap, badfree, held, err>>
       \/ /\ IF msg.iovlen = "many" THEN kfree("iov") ELSE UNCHANGED <<heap, badfree>>
          /\ Return(TRUE) /\ UNCHANGED msg
    /\ UNCHANGED ctl_buf

(* solaris_sendmsg(): the control message. *)
send_control ==
    /\ pc = "control"
    /\ \/ pc' = "lock" /\ UNCHANGED <<ctl_buf, heap, err>>
       \/ pc' = "copyctl" /\ UNCHANGED <<ctl_buf, heap, err>>
       \/ pc' = "copyctl" /\ ctl_buf' = "heap" /\ heap' = heap \cup {"ctl"} /\ UNCHANGED err
       \/ pc' = "freeiov" /\ ctl_buf' = "heap" /\ err' = TRUE /\ UNCHANGED heap
    /\ UNCHANGED <<call, nonblock, uflags, msg, badfree, held>>
send_copyctl ==
    /\ pc = "copyctl"
    /\ \/ pc' = "lock" /\ UNCHANGED err
       \/ pc' = "freectl" /\ err' = TRUE
    /\ UNCHANGED <<call, nonblock, uflags, msg, ctl_buf, heap, badfree, held>>

(* lock_kernel() and sockfd_lookup(); recvmsg() passes the program's flags *)
(* as they are.                                                            *)
lookup ==
    /\ pc = "lock"
    /\ LET flags == IF call = "solaris_sendmsg" THEN solaris_to_linux_msgflags(uflags) ELSE uflags
       IN  \/ /\ pc' = "use" /\ held' = {"bkl", "file"} /\ UNCHANGED err
              /\ msg' = [msg EXCEPT !.flags = flags \cup (IF nonblock THEN {MSG_DONTWAIT} ELSE {})]
           \/ pc' = "unlock" /\ held' = {"bkl"} /\ err' = TRUE /\ UNCHANGED msg
    /\ UNCHANGED <<call, nonblock, uflags, ctl_buf, heap, badfree>>

(* sock_sendmsg() or sock_recvmsg(), and sockfd_put(). *)
use_socket ==
    /\ pc = "use" /\ pc' = "unlock" /\ held' = held \ {"file"}
    /\ err' \in BOOLEAN
    /\ UNCHANGED <<call, nonblock, uflags, msg, ctl_buf, heap, badfree>>

unlock_kernel ==
    /\ pc = "unlock" /\ held' = held \ {"bkl"}
    /\ pc' = IF call = "solaris_sendmsg" THEN "freectl" ELSE "report"
    /\ UNCHANGED <<call, nonblock, uflags, msg, ctl_buf, heap, badfree, err>>

(* recvmsg() hands the address, the flags and the length back. *)
recv_report ==
    /\ pc = "report" /\ pc' = "freeiov"
    /\ err' \in {err, TRUE}
    /\ UNCHANGED <<call, nonblock, uflags, msg, ctl_buf, heap, badfree, held>>

out_freectl_once ==
    /\ pc = "freectl" /\ pc' = "freeiov" /\ UNCHANGED <<heap, badfree>>
    /\ UNCHANGED <<call, nonblock, uflags, msg, ctl_buf, held, err>>
out_freectl ==
    /\ pc = "freectl" /\ pc' = "freeiov"
    /\ IF ctl_buf # "ctl" THEN kfree("ctl") ELSE UNCHANGED <<heap, badfree>>
    /\ UNCHANGED <<call, nonblock, uflags, msg, ctl_buf, held, err>>

out_freeiov ==
    /\ pc = "freeiov" /\ pc' = "return"
    /\ IF msg.iov # "stack" THEN kfree("iov") ELSE UNCHANGED <<heap, badfree>>
    /\ UNCHANGED <<call, nonblock, uflags, msg, ctl_buf, held, err>>

back_in_user ==
    /\ pc = "return" /\ pc' = "user" /\ msg' = NoMsg /\ ctl_buf' = "ctl"
    /\ uflags' = {} /\ nonblock' = FALSE /\ err' = FALSE
    /\ UNCHANGED <<call, heap, badfree, held>>

Next ==
    \/ \E c \in Calls, nb \in BOOLEAN, f \in UserFlags, n \in BOOLEAN,
          l \in {"few", "many", "toomany"} : msghdr_from_user32_to_kern(c, nb, f, n, l)
    \/ verify_addr \/ verify_alloc \/ iov_from_user32_to_kern
    \/ send_control \/ send_copyctl \/ lookup \/ use_socket \/ unlock_kernel \/ recv_report
    \/ out_freectl \/ out_freeiov \/ back_in_user

Spec == Init /\ [][Next]_vars

-----------------------------------------------------------------------------
TypeOK ==
    /\ heap \subseteq {"iov", "ctl"} /\ held \subseteq {"file", "bkl"}
    /\ msg.flags \subseteq 0 .. 8 /\ err \in BOOLEAN /\ ctl_buf \in {"ctl", "heap"}

(* Wherever a call fails, it returns with the vector and the control       *)
(* message freed, once and only if they were allocated, the file put and   *)
(* the big kernel lock dropped (out_freectl, out_freeiov and out of        *)
(* solaris_sendmsg() and solaris_recvmsg(), the kfree() of                 *)
(* verify_iovec32()).                                                      *)
NothingIsHeldAfterReturn ==
    /\ ~badfree
    /\ pc \in {"user", "return"} => heap = {} /\ held = {}

(* The flags sendmsg() gives the socket are the program's, MSG_DONTWAIT    *)
(* apart, which the file's mode may add: what linux_to_solaris_msgflags()  *)
(* would report for them is what the program passed.                       *)
SendFlagsAreTheProgramsOwn ==
    pc = "use" /\ call = "solaris_sendmsg" =>
        linux_to_solaris_msgflags(msg.flags) = uflags \cup (IF nonblock THEN {7} ELSE {})
=============================================================================
