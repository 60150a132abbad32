------------------------------- MODULE Socket -------------------------------
(***************************************************************************)
(* Socket objects and their system calls (net/socket.c): threads that      *)
(* share a descriptor table create, accept, use and close sockets while    *)
(* the modules that own the family ("fam") and the protocol's operations   *)
(* ("proto") are unloaded and loaded again.                                *)
(*                                                                         *)
(* A socket, its inode and its file are one object, freed when the last    *)
(* file reference goes.  What the protocol, the security hooks and user    *)
(* memory answer is a choice between success and failure.  The lock on     *)
(* the family vector is the one of NetFamily: no family leaves while a     *)
(* thread is in __sock_create().                                           *)
(***************************************************************************)
EXTENDS Integers, Sequences, FiniteSets

CONSTANTS Threads, Socks, Fds, NULL

VARIABLES fdt,          \* descriptor -> socket, "reserved" or NULL
          sock,         \* socket -> its state, see Free
          f_count,      \* socket -> references to its file
          in_use,       \* sockets_in_use, summed over the processors
          modst, modref, registered,
          th            \* the threads

vars == <<fdt, sock, f_count, in_use, modst, modref, registered, th>>

Free == [alloc |-> FALSE, ops |-> NULL, file |-> FALSE, fasync |-> FALSE]
Fresh == [Free EXCEPT !.alloc = TRUE]
Idle == [pc |-> "idle", call |-> NULL, sock |-> NULL, new |-> NULL, made |-> << >>,
         fds |-> << >>, fd |-> NULL, todo |-> << >>, mem |-> {}]
Modules == {"fam", "proto"}

Init ==
    /\ fdt = [f \in Fds |-> NULL] /\ sock = [s \in Socks |-> Free]
    /\ f_count = [s \in Socks |-> 0] /\ in_use = 0
    /\ modst = [m \in Modules |-> "live"] /\ modref = [m \in Modules |-> 0]
    /\ registered = TRUE /\ th = [t \in Threads |-> Idle]

At(t, label) == th[t].pc = label
Goto(t, label) == th' = [th EXCEPT ![t].pc = label]
Return(t) == th' = [th EXCEPT ![t] = Idle]

-----------------------------------------------------------------------------
(* sock_alloc() *)
sock_alloc(s) ==
    /\ ~sock[s].alloc
    /\ sock' = [sock EXCEPT ![s] = Fresh]
    /\ in_use' = in_use + 1

(* sock_release() of the sockets S: a socket with operations gives up its  *)
(* protocol and the module that owns it.                                   *)
sock_release(S) ==
    /\ sock' = [s \in Socks |-> IF s \in S THEN Free ELSE sock[s]]
    /\ in_use' = in_use - Cardinality(S)
    /\ modref' = [modref EXCEPT !["proto"] = @ - Cardinality({s \in S : sock[s].ops # NULL})]

(* fput(): the last reference calls sock_close(), which takes the file off *)
(* the fasync list and releases the socket.                                *)
fput(s) ==
    /\ f_count' = [f_count EXCEPT ![s] = @ - 1]
    /\ IF f_count[s] = 1 THEN sock_release({s}) ELSE UNCHANGED <<sock, in_use, modref>>

(* sys_close(): the descriptor may be another thread's by now. *)
CloseFd(f) ==
    IF fdt[f] \in Socks
    THEN fdt' = [fdt EXCEPT ![f] = NULL] /\ fput(fdt[f])
    ELSE UNCHANGED <<fdt, f_count, sock, in_use, modref>>

try_module_get(m) == modst[m] = "live"

-----------------------------------------------------------------------------
(* sys_socket() and sys_socketpair() call __sock_create() once or twice. *)
enter_create(t) ==
    /\ At(t, "idle")
    /\ \E c \in {"sys_socket", "sys_socketpair"} :
         th' = [th EXCEPT ![t].pc = "create", ![t].call = c]
    /\ UNCHANGED <<fdt, sock, f_count, in_use, modst, modref, registered>>

(* __sock_create() up to sock_alloc(): bad arguments, a refusal of the     *)
(* security module, no such family or no memory fail.                      *)
create_alloc(t) ==
    /\ At(t, "create")
    /\ \/ Goto(t, "create_fails") /\ UNCHANGED <<sock, in_use>>
       \/ /\ registered
          /\ \E s \in Socks :
               sock_alloc(s) /\ th' = [th EXCEPT ![t].pc = "get_family", ![t].new = s]
    /\ UNCHANGED <<fdt, f_count, modst, modref, registered>>

(* The family's owner is pinned for the call of ->create(). *)
create_get_family(t) ==
    /\ At(t, "get_family")
    /\ IF try_module_get("fam")
       THEN modref' = [modref EXCEPT !["fam"] = @ + 1] /\ Goto(t, "family_create")
       ELSE Goto(t, "release_new") /\ UNCHANGED modref
    /\ UNCHANGED <<fdt, sock, f_count, in_use, modst, registered>>

create_family(t) ==
    /\ At(t, "family_create")
    /\ \/ /\ modref' = [modref EXCEPT !["fam"] = @ - 1]
          /\ Goto(t, "release_new") /\ UNCHANGED sock
       \/ /\ modst["proto"] # "gone"
          /\ sock' = [sock EXCEPT ![th[t].new].ops = "proto"]
          /\ Goto(t, "get_proto") /\ UNCHANGED modref
    /\ UNCHANGED <<fdt, f_count, in_use, modst, registered>>

(* The protocol's owner is pinned for the life of the socket.  If it is    *)
(* leaving, the socket is released and 0 is returned all the same: the     *)
(* caller goes on with a pointer nobody set.                               *)
create_get_proto(t) ==
    /\ At(t, "get_proto")
    /\ IF try_module_get("proto")
       THEN /\ modref' = [modref EXCEPT !["fam"] = @ - 1, !["proto"] = @ + 1]
            /\ th' = [th EXCEPT ![t].pc = "created", ![t].new = NULL,
                                ![t].made = Append(@, th[t].new)]
            /\ UNCHANGED <<sock, in_use>>
       ELSE /\ modref' = [modref EXCEPT !["fam"] = @ - 1]
            /\ sock' = [sock EXCEPT ![th[t].new] = Free] /\ in_use' = in_use - 1
            /\ th' = [th EXCEPT ![t].pc = "unset", ![t].new = NULL]
    /\ UNCHANGED <<fdt, f_count, modst, registered>>

(* out_release, then the caller's out_release_1. *)
create_fail(t) ==
    /\ th[t].pc \in {"release_new", "create_fails"}
    /\ sock_release({s \in Socks : s = th[t].new \/ <<s>> = th[t].made})
    /\ Return(t)
    /\ UNCHANGED <<fdt, f_count, modst, registered>>

(* A second socket for socketpair, then the protocol's ->socketpair(). *)
created(t) ==
    /\ At(t, "created")
    /\ IF th[t].call = "sys_socketpair" /\ Len(th[t].made) = 1
       THEN Goto(t, "create")
       ELSE \/ Goto(t, "map")
            \/ th[t].call = "sys_socketpair" /\ Goto(t, "map_fails")
    /\ UNCHANGED <<fdt, sock, f_count, in_use, modst, modref, registered>>

-----------------------------------------------------------------------------
(* sock_map_fd(): a descriptor, a file, a dentry, then fd_install(). *)
map_reserve(t) ==
    /\ At(t, "map")
    /\ \/ Goto(t, "map_fails") /\ UNCHANGED fdt
       \/ \E f \in Fds :
            /\ fdt[f] = NULL /\ \A g \in Fds : g < f => fdt[g] # NULL
            /\ fdt' = [fdt EXCEPT ![f] = "reserved"]
            /\ th' = [th EXCEPT ![t].pc = "install", ![t].fd = f]
    /\ UNCHANGED <<sock, f_count, in_use, modst, modref, registered>>

map_no_file_keeps_fd(t) ==
    /\ At(t, "install")
    /\ th' = [th EXCEPT ![t].pc = "map_fails", ![t].fd = NULL]
    /\ UNCHANGED <<fdt, sock, f_count, in_use, modst, modref, registered>>
map_no_file(t) ==
    /\ At(t, "install")
    /\ fdt' = [fdt EXCEPT ![th[t].fd] = NULL]
    /\ th' = [th EXCEPT ![t].pc = "map_fails", ![t].fd = NULL]
    /\ UNCHANGED <<sock, f_count, in_use, modst, modref, registered>>

map_install(t) ==
    /\ At(t, "install")
    /\ LET s == th[t].made[Len(th[t].fds) + 1] IN
         /\ sock' = [sock EXCEPT ![s].file = TRUE]
         /\ f_count' = [f_count EXCEPT ![s] = 1]
         /\ fdt' = [fdt EXCEPT ![th[t].fd] = s]
    /\ th' = [th EXCEPT ![t].pc = "mapped", ![t].fds = Append(@, th[t].fd), ![t].fd = NULL]
    /\ UNCHANGED <<in_use, modst, modref, registered>>

(* The sockets that have no file yet are released; sys_socketpair() closes *)
(* the first descriptor if it was there, sys_accept() lets go of the       *)
(* listening socket.                                                       *)
map_fail(t) ==
    /\ At(t, "map_fails")
    /\ sock_release({th[t].made[i] : i \in Len(th[t].fds) + 1 .. Len(th[t].made)})
    /\ IF th[t].sock = NULL /\ th[t].fds = << >> THEN Return(t)
       ELSE th' = [th EXCEPT ![t].pc = IF th[t].sock # NULL THEN "put" ELSE "close",
                             ![t].made = SubSeq(@, 1, Len(th[t].fds))]
    /\ UNCHANGED <<fdt, f_count, modst, registered>>

(* put_user() of the pair may fail: both descriptors are closed again. *)
mapped(t) ==
    /\ At(t, "mapped")
    /\ CASE th[t].call = "sys_accept" -> Goto(t, "post_accept")
         [] th[t].call = "sys_socket" -> Return(t)
         [] Len(th[t].fds) = 1 -> Goto(t, "map")
         [] OTHER -> Return(t) \/ Goto(t, "close")
    /\ UNCHANGED <<fdt, sock, f_count, in_use, modst, modref, registered>>

close_mapped(t) ==
    /\ At(t, "close")
    /\ LET fds == th[t].fds IN
         /\ CloseFd(fds[Len(fds)])
         /\ IF Len(fds) = 1 THEN Return(t)
            ELSE th' = [th EXCEPT ![t].fds = SubSeq(fds, 1, 1), ![t].made = SubSeq(@, 1, 1)]
    /\ UNCHANGED <<modst, registered>>

sys_close(t) ==
    /\ At(t, "idle")
    /\ \E f \in Fds : fdt[f] \in Socks /\ CloseFd(f)
    /\ UNCHANGED <<modst, registered, th>>

-----------------------------------------------------------------------------
(* Calls on a descriptor: what happens between sockfd_lookup() (fget() for *)
(* the file operations) and sockfd_put(), in order.  Every stage may fail  *)
(* and leave at once; "sec" is the security hook, "ops" the protocol, "in" *)
(* and "out" move an address from and to the user; "iov" and "ctl" may     *)
(* allocate a buffer; "check" is a test on the arguments.                  *)
sys_bind == <<"in", "sec", "ops">>
sys_listen == <<"sec", "ops">>
sys_connect == <<"in", "sec", "ops">>
sys_getsockname == <<"sec", "ops", "out">>
sys_getpeername == <<"sec", "ops", "out">>
sys_sendto == <<"in", "sec", "ops">>
sys_recvfrom == <<"sec", "ops", "out">>
sys_setsockopt == <<"sec", "ops">>
sys_getsockopt == <<"sec", "ops">>
sys_shutdown == <<"sec", "ops">>
sys_sendmsg == <<"check", "iov", "in", "check", "ctl", "in", "sec", "ops">>
sys_recvmsg == <<"check", "iov", "check", "sec", "ops", "out", "out", "out">>
sock_aio_read == <<"check", "iov", "sec", "ops">>
sock_aio_write == <<"check", "iov", "sec", "ops">>
sock_readv_writev == <<"sec", "ops">>
sock_sendpage == <<"ops">>
sock_poll == <<"ops">>
sock_mmap == <<"ops">>
sock_fasync == <<"fasync">>

Stages ==
    [sys_bind |-> sys_bind, sys_listen |-> sys_listen, sys_connect |-> sys_connect,
     sys_getsockname |-> sys_getsockname, sys_getpeername |-> sys_getpeername,
     sys_sendto |-> sys_sendto, sys_recvfrom |-> sys_recvfrom,
     sys_setsockopt |-> sys_setsockopt, sys_getsockopt |-> sys_getsockopt,
     sys_shutdown |-> sys_shutdown, sys_sendmsg |-> sys_sendmsg,
     sys_recvmsg |-> sys_recvmsg, sock_aio_read |-> sock_aio_read,
     sock_aio_write |-> sock_aio_write, sock_readv_writev |-> sock_readv_writev,
     sock_sendpage |-> sock_sendpage, sock_poll |-> sock_poll, sock_mmap |-> sock_mmap,
     sock_fasync |-> sock_fasync, sys_accept |-> << >>]

(* sockfd_lookup(): a descriptor that is no socket's returns an error and  *)
(* leaves everything as it was.                                            *)
sockfd_lookup(t) ==
    /\ At(t, "idle")
    /\ \E f \in Fds, c \in DOMAIN Stages :
         /\ fdt[f] \in Socks
         /\ f_count' = [f_count EXCEPT ![fdt[f]] = @ + 1]
         /\ th' = [th EXCEPT ![t].pc = IF c = "sys_accept" THEN "accept" ELSE "call",
                             ![t].call = IF c = "sys_accept" THEN c ELSE NULL,
                             ![t].sock = fdt[f], ![t].todo = Stages[c]]
    /\ UNCHANGED <<fdt, sock, in_use, modst, modref, registered>>

Stage(t) == Head(th[t].todo)

(* The next stage; a buffer is allocated when the message is large. *)
call_stage(t) ==
    /\ At(t, "call")
    /\ th' = [th EXCEPT ![t].todo = Tail(@),
                        ![t].pc = IF Len(th[t].todo) = 1 THEN "put" ELSE "call"]
    /\ sock' = IF Stage(t) # "fasync" THEN sock
               ELSE [sock EXCEPT ![th[t].sock].fasync = ~@]
    /\ UNCHANGED <<fdt, f_count, in_use, modst, modref, registered>>
call_allocates(t) ==
    /\ At(t, "call") /\ Stage(t) \in {"iov", "ctl"}
    /\ th' = [th EXCEPT ![t].todo = Tail(@), ![t].mem = @ \cup {Stage(t)}]
    /\ UNCHANGED <<fdt, sock, f_count, in_use, modst, modref, registered>>
call_fails(t) ==
    /\ At(t, "call")
    /\ th' = [th EXCEPT ![t].pc = "put", ![t].todo = << >>]
    /\ UNCHANGED <<fdt, sock, f_count, in_use, modst, modref, registered>>

(* out_freectl, out_freeiov, then sockfd_put(). *)
freed(mem) == {}
sockfd_put(t) ==
    /\ At(t, "put")
    /\ fput(th[t].sock)
    /\ th' = [th EXCEPT ![t] = [Idle EXCEPT !.mem = freed(th[t].mem)]]
    /\ UNCHANGED <<fdt, modst, registered>>

-----------------------------------------------------------------------------
(* sys_accept(): the new socket shares the listener's operations and pins  *)
(* their owner without asking; the call of ->accept() may sleep.           *)
accept_alloc(t) ==
    /\ At(t, "accept")
    /\ \/ Goto(t, "put") /\ UNCHANGED <<sock, in_use, modref>>
       \/ \E s \in Socks :
            /\ ~sock[s].alloc
            /\ sock' = [sock EXCEPT ![s] = [Fresh EXCEPT !.ops = sock[th[t].sock].ops]]
            /\ in_use' = in_use + 1
            /\ modref' = [modref EXCEPT !["proto"] = @ + 1]
            /\ th' = [th EXCEPT ![t].pc = "accepting", ![t].made = <<s>>]
    /\ UNCHANGED <<fdt, f_count, modst, registered>>

accept_wait(t) ==
    /\ At(t, "accepting")
    /\ Goto(t, "map") \/ Goto(t, "map_fails")
    /\ UNCHANGED <<fdt, sock, f_count, in_use, modst, modref, registered>>

(* security_socket_post_accept(sock, newsock), after fd_install(). *)
post_accept(t) ==
    /\ At(t, "post_accept")
    /\ Goto(t, "put")
    /\ UNCHANGED <<fdt, sock, f_count, in_use, modst, modref, registered>>

-----------------------------------------------------------------------------
(* Module loading.  A module that nobody holds starts to leave, its exit   *)
(* function unregisters what it registered (sock_unregister() waits for    *)
(* the readers), and it is gone.                                           *)
InCreate == {t \in Threads : th[t].pc \in {"get_family", "family_create", "get_proto"}}

module_leaves(m) ==
    /\ modst[m] = "live" /\ modref[m] = 0
    /\ modst' = [modst EXCEPT ![m] = "going"]
    /\ UNCHANGED <<fdt, sock, f_count, in_use, modref, registered, th>>

module_exit(m) ==
    /\ modst[m] = "going"
    /\ m = "fam" => InCreate = {}
    /\ modst' = [modst EXCEPT ![m] = "gone"]
    /\ registered' = (registered /\ m # "fam")
    /\ UNCHANGED <<fdt, sock, f_count, in_use, modref, th>>

module_load(m) ==
    /\ modst[m] = "gone" /\ (m = "fam" => InCreate = {})
    /\ modst' = [modst EXCEPT ![m] = "live"]
    /\ registered' = (registered \/ m = "fam")
    /\ UNCHANGED <<fdt, sock, f_count, in_use, modref, th>>

Next ==
    \/ \E t \in Threads :
         \/ enter_create(t) \/ create_alloc(t) \/ create_get_family(t) \/ create_family(t)
         \/ create_get_proto(t) \/ create_fail(t) \/ created(t)
         \/ map_reserve(t) \/ map_no_file(t) \/ map_install(t) \/ map_fail(t) \/ mapped(t)
         \/ close_mapped(t) \/ sys_close(t)
         \/ sockfd_lookup(t) \/ call_stage(t) \/ call_allocates(t) \/ call_fails(t)
         \/ sockfd_put(t) \/ accept_alloc(t) \/ accept_wait(t) \/ post_accept(t)
    \/ \E m \in Modules : module_leaves(m) \/ module_exit(m) \/ module_load(m)

Spec == Init /\ [][Next]_vars

-----------------------------------------------------------------------------
TypeOK ==
    /\ fdt \in [Fds -> Socks \cup {"reserved", NULL}]
    /\ f_count \in [Socks -> 0 .. Cardinality(Threads) + Cardinality(Fds)]
    /\ in_use \in 0 .. Cardinality(Socks)
    /\ modref \in [Modules -> Nat]
    /\ modst \in [Modules -> {"live", "going", "gone"}]

(* The sockets a thread has made and not given a file yet. *)
Unmapped(t) == {th[t].made[i] : i \in Len(th[t].fds) + 1 .. Len(th[t].made)}
Users(s) == {t \in Threads : th[t].sock = s}

(* A thread between sockfd_lookup() and sockfd_put(), or with a socket of  *)
(* its own making, works on a live socket whose protocol module is still   *)
(* loaded, whoever closes the descriptor and whatever is unloaded          *)
(* meanwhile.                                                              *)
UsedSocketIsLive ==
    \A t \in Threads : \A s \in (Unmapped(t) \cup {th[t].sock}) \ {NULL} :
        sock[s].alloc /\ sock[s].ops = "proto" /\ modst["proto"] = "live"

(* Every allocated socket is owed to exactly one owner: its file, with one *)
(* reference per descriptor and per thread inside a call, or the one       *)
(* thread that has made it and not mapped it; sockets_in_use counts them,  *)
(* and a descriptor is reserved only while a thread is about to fill it.   *)
SocketsAreOwned ==
    /\ \A s \in Socks :
         /\ f_count[s] = Cardinality({f \in Fds : fdt[f] = s}) + Cardinality(Users(s))
         /\ sock[s].file <=> f_count[s] > 0
         /\ sock[s].alloc <=> sock[s].file \/ \E t \in Threads : s \in Unmapped(t) \cup {th[t].new}
    /\ \A t, u \in Threads : t # u => (Unmapped(t) \cap Unmapped(u)) = {}
    /\ in_use = Cardinality({s \in Socks : sock[s].alloc})
    /\ \A f \in Fds : fdt[f] = "reserved" => \E t \in Threads : th[t].fd = f
    /\ \A t \in Threads : At(t, "idle") => th[t].mem = {}

(* Both modules' reference counts are exactly their users: the sockets     *)
(* with the protocol's operations, and the threads inside the family's     *)
(* ->create() (try_module_get(), module_put() on every path).              *)
ModuleCountsExact ==
    /\ modref["fam"] = Cardinality({t \in Threads : th[t].pc \in {"family_create", "get_proto"}})
    /\ modref["proto"] = Cardinality({s \in Socks : sock[s].ops = "proto"
                             /\ \A t \in Threads : At(t, "get_proto") => th[t].new # s})

(* "sock_release: fasync list not empty!" is never printed: a socket that  *)
(* is released has left the fasync list (sock_close(), sock_fasync()).     *)
FasyncListEmptyAtRelease ==
    \A s \in Socks : sock[s].fasync => sock[s].file
=============================================================================
