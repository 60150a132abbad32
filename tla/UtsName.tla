------------------------------ MODULE UtsName ------------------------------
(***************************************************************************)
(* The names of the system, read and written under uts_sem:                *)
(* v7_utsname() and abi_utsname() (abi/svr4/utsname.c), xnx_utsname()      *)
(* (abi/cxenix/utsname.c), svr4_sysinfo() (abi/svr4/sysinfo.c),            *)
(* wyse_gethostname() and wyse_getdomainname() (abi/wyse/socket.c) and the *)
(* domain calls of abi/svr4/socksys.c.  A caller copies strings one after  *)
(* the other, each cut to the room that the program has for it and some at *)
(* the first dot; a writer stores the new string over the old one before   *)
(* it stores the terminating 0.                                            *)
(*                                                                         *)
(* A name is a sequence of characters, in an array of NEW_UTS_LEN + 1.     *)
(***************************************************************************)
EXTENDS Integers, Sequences, SequencesExt, FiniteSets

CONSTANTS Threads,
          Names,      \* host names that are set
          Domains,    \* domain names that are set; bound: setipdomain() sets those
                      \* other than "(none)"
          Rooms       \* buffer lengths that programs give, 1 or more

VARIABLES uts,     \* system_utsname: nodename and domainname
          sem,     \* uts_sem: the set of readers, the set of writers
          th,      \* pc, the call, what is left to copy, what was copied; history: the
                   \* names when the call began
          ip       \* history: the domain that setipdomain() put behind the dot
                   \* of the nodename

vars == <<uts, sem, th, ip>>

NEW_UTS_LEN == 64
None == <<"none">>
Unset == <<"(none)">>
Idle == [pc |-> "user", call |-> "none", todo |-> << >>, got |-> << >>, arg |-> << >>,
         names |-> << >>]

Init ==
    /\ uts \in [node : Names, domain : Domains] 
    /\ ip = None
    /\ sem = [readers |-> {}, writers |-> {}] /\ th = [t \in Threads |-> Idle]

-----------------------------------------------------------------------------
(* The parts of a name at its first dot. *)
Dots(s) == {i \in 1 .. Len(s) : s[i] = "."}
Dotted(s) == Dots(s) # {}
Dot(s) == CHOOSE i \in Dots(s) : \A j \in Dots(s) : i <= j
HostPart(s) == IF Dotted(s) THEN SubSeq(s, 1, Dot(s) - 1) ELSE s
AfterDot(s) == SubSeq(s, Dot(s) + 1, Len(s))
Cut(s, n) == IF Len(s) <= n THEN s ELSE SubSeq(s, 1, n)

(* A string that a call stores: what, where from, and the program's room.  *)
Copy(from, room, how) == [from |-> from, room |-> room, how |-> how]

(* __set_utsfield(): the field ends before its last byte, or at the dot if *)
(* that is among the bytes copied.                                         *)
set_utsfield(s, room, chop) ==
    LET len == IF room < NEW_UTS_LEN + 1 THEN room ELSE NEW_UTS_LEN + 1
        in == Cut(s, len)
    IN  IF chop /\ Dotted(in) THEN HostPart(s) ELSE Cut(s, IF len < room THEN len ELSE len - 1)

(* getipdomain(): the nodename behind its dot, else the domainname unless  *)
(* that was never set.                                                     *)
ipdomain ==
    LET p == IF Dotted(uts.node) THEN AfterDot(uts.node) ELSE uts.domain
    IN  IF p = Unset THEN << >> ELSE p

Copied(c) ==
    CASE c.how = "field" -> set_utsfield(uts[c.from], c.room, FALSE)
      [] c.how = "chop" -> set_utsfield(uts[c.from], c.room, TRUE)
      [] c.how = "sysinfo" -> Cut(uts[c.from], c.room)
      [] c.how = "loop" -> Cut(uts[c.from], c.room - 1)
      [] c.how = "ip" -> Cut(ipdomain, c.room - 1)

(* The copies of each call that come from the nodename or the domainname;  *)
(* xnx_utsname() has the first only while abi_fake_utsname is off.         *)
v7_utsname == <<Copy("node", 9, "chop"), Copy("node", 9, "chop")>>
abi_utsname == <<Copy("node", 257, "field")>>
xnx_utsname(fake) == IF fake THEN <<Copy("node", 9, "chop")>> ELSE v7_utsname
svr4_sysinfo(from, n) == <<Copy(from, n, "sysinfo")>>
wyse_gethostname(n) == <<Copy("node", n, "loop")>>
wyse_getdomainname(n) == <<Copy("domain", n, "loop")>>
socksys_getdomainname(n) == <<Copy("domain", n, "loop")>>
socksys_getipdomain(n) == <<Copy("node", n, "ip")>>
Readings ==
    {v7_utsname, abi_utsname} \cup {xnx_utsname(f) : f \in BOOLEAN}
    \cup UNION {{svr4_sysinfo("node", n), svr4_sysinfo("domain", n), wyse_gethostname(n),
                 wyse_getdomainname(n), socksys_getdomainname(n), socksys_getipdomain(n)} : n \in Rooms}

-----------------------------------------------------------------------------
Put(t, r) == th' = [th EXCEPT ![t] = r]
down_read_free(t, todo) ==
    /\ th[t].pc = "user" /\ sem' = [sem EXCEPT !.readers = @ \cup {t}]
    /\ Put(t, [Idle EXCEPT !.pc = "copy", !.call = "read", !.todo = todo, !.names = uts]) /\ UNCHANGED <<uts, ip>>
down_read(t, todo) ==
    /\ th[t].pc = "user" /\ sem.writers = {} /\ sem' = [sem EXCEPT !.readers = @ \cup {t}]
    /\ Put(t, [Idle EXCEPT !.pc = "copy", !.call = "read", !.todo = todo, !.names = uts]) /\ UNCHANGED <<uts, ip>>
copy(t) ==
    LET me == th[t] IN
    /\ me.pc = "copy" /\ me.todo # << >>
    /\ Put(t, [me EXCEPT !.todo = Tail(@), !.got = Append(@, Head(me.todo) @@ [str |-> Copied(Head(me.todo))])])
    /\ UNCHANGED <<uts, sem, ip>>
up_read(t) ==
    /\ th[t].pc = "copy" /\ th[t].todo = << >>
    /\ sem' = [sem EXCEPT !.readers = @ \ {t}] /\ Put(t, Idle) /\ UNCHANGED <<uts, ip>>

(* Writers: sethostname() and setdomainname() are the kernel's.  The room  *)
(* for the domain is what the host part and the dot leave.                 *)
togo(s) == NEW_UTS_LEN - Len(HostPart(s)) - (IF Dotted(s) THEN 1 ELSE 0)
Field(call) == IF call = "setdomainname" THEN "domain" ELSE "node"
down_write(t, call, arg) ==
    /\ th[t].pc = "user" /\ sem = [readers |-> {}, writers |-> {}]
    /\ sem' = [sem EXCEPT !.writers = {t}]
    /\ Put(t, [Idle EXCEPT !.pc = "store", !.call = call, !.arg = arg]) /\ UNCHANGED <<uts, ip>>
sethostname(t, n) == down_write(t, "sethostname", n)
setdomainname(t, d) == down_write(t, "setdomainname", d)
socksys_setipdomain(t, d) == down_write(t, "setipdomain", d)
up_write == sem' = [sem EXCEPT !.writers = {}]

Stored(t) ==
    IF th[t].call = "setipdomain"
    THEN (IF Dotted(uts.node) THEN Append(HostPart(uts.node), ".") ELSE uts.node) \o th[t].arg
    ELSE th[t].arg
store(t) ==
    LET f == Field(th[t].call)  new == Stored(t)  old == uts[f] IN
    /\ th[t].pc = "store"
    /\ IF th[t].call = "setipdomain" /\ Len(th[t].arg) > togo(uts.node)
       THEN Put(t, Idle) /\ up_write /\ UNCHANGED <<uts, ip>>
       ELSE /\ uts' = [uts EXCEPT ![f] = new \o SubSeq(old, Len(new) + 1, Len(old))]
            /\ ip' = CASE f = "domain" -> ip
                       [] th[t].call = "setipdomain" /\ Dotted(old) -> th[t].arg
                       [] OTHER -> None
            /\ Put(t, [th[t] EXCEPT !.pc = "terminate", !.arg = new]) /\ UNCHANGED sem
terminate(t) ==
    LET f == Field(th[t].call) IN
    /\ th[t].pc = "terminate" /\ uts' = [uts EXCEPT ![f] = th[t].arg]
    /\ up_write /\ Put(t, Idle) /\ UNCHANGED ip

Next ==
    \E t \in Threads :
        \/ copy(t) \/ up_read(t) \/ store(t) \/ terminate(t)
        \/ \E todo \in Readings : down_read(t, todo)
        \/ \E n \in Names : sethostname(t, n)
        \/ \E d \in Domains : setdomainname(t, d) \/ (d # Unset /\ socksys_setipdomain(t, d))

Spec == Init /\ [][Next]_vars

-----------------------------------------------------------------------------
TypeOK ==
    /\ sem.readers \subseteq Threads /\ Cardinality(sem.writers) <= 1
    /\ \A t \in Threads : th[t].pc \in {"user", "copy", "store", "terminate"}

(* The names fit their arrays, however setipdomain(), which writes behind  *)
(* the dot or, without one, behind the name, and sethostname() follow each *)
(* other.                                                                  *)
NamesFit == Len(uts.node) <= NEW_UTS_LEN /\ Len(uts.domain) <= NEW_UTS_LEN

(* What a call returns is the beginning of the names that the system had   *)
(* when it took uts_sem, never a new name with the end of an older one,    *)
(* and two fields that come from the nodename are equal: a call copies all *)
(* its fields within one down_read().                                      *)
NamesAreWhole ==
    \A t \in Threads : (th[t].pc = "copy" /\ th[t].todo = << >>) =>
        LET got == th[t].got  names == th[t].names IN
        /\ \A i \in 1 .. Len(got) :
             \/ got[i].how # "ip" /\ IsPrefix(got[i].str, names[got[i].from])
             \/ got[i].how = "ip" /\ IF Dotted(names.node) THEN IsPrefix(got[i].str, AfterDot(names.node))
                                     ELSE IsPrefix(got[i].str, names.domain)
        /\ Len(got) = 2 => got[1].str = got[2].str

(* Every string but that of sysinfo() ends within the room that the        *)
(* program has for it.                                                     *)
FieldsAreTerminated ==
    \A t \in Threads : \A i \in 1 .. Len(th[t].got) :
        th[t].got[i].how # "sysinfo" => Len(th[t].got[i].str) < th[t].got[i].room

(* The domain that setipdomain() put behind a dot is the one that          *)
(* getipdomain() finds, until the host name is set.                        *)
IpDomainReadsBack == (ip # None /\ sem.writers = {}) => ipdomain = ip
=============================================================================
