----------------------------- MODULE ExecDomain -----------------------------
(***************************************************************************)
(* Execution domains: kernel/exec_domain.c, the part of kernel/fork.c that *)
(* copies a domain and a fs_struct into a child, and set_personality() of  *)
(* include/linux/personality.h, in the default configuration (CONFIG_KMOD  *)
(* and CONFIG_ABI_LATE_PROBING set).                                       *)
(*                                                                         *)
(* A step is a stretch of code that touches shared state once: one section *)
(* under exec_domains_lock, one change of a module's reference count, one  *)
(* access to the count of a shared fs_struct.  Everything may interleave   *)
(* between two steps: other tasks, module loading and module removal.      *)
(*                                                                         *)
(* The module loader (kernel/module.c) and exit(2) are not part of the     *)
(* repository; they are modelled by what exec_domain.c relies on.          *)
(***************************************************************************)
EXTENDS Integers, FiniteSets, Sequences

CONSTANTS
    Tasks,          \* task slots, used or free
    FirstTask,      \* the task that runs in the initial state
    Mods,           \* loadable emulation modules
    Domains,        \* exec domains that live in a module
    Default,        \* default_exec_domain, part of the kernel itself
    ModOf,          \* exec_domain.module, for the domains in modules
    DomainsOf,      \* the domains a module registers, in the order of its init
    Personalities,  \* full personality values, id and flags
    PerLinux,       \* PER_LINUX
    Serves,         \* the personalities whose id is in pers_low .. pers_high
    EmulPers,       \* the personalities whose __emul_prefix() directory exists
    LcallPers,      \* what lcall_autodetect_handler() asks for: 0x07, 0x27
    Fs,             \* fs_struct slots
    NoFs,           \* the null fs pointer
    NoDomain,       \* the null domain pointer
    NoAlt,          \* the null altroot
    MaxRefs         \* bound: no new call once a module has this many references

AllDomains == Domains \cup {Default}

ASSUME ConstantsAssumption ==
    /\ FirstTask \in Tasks /\ IsFiniteSet(Tasks)
    /\ Default \notin Domains /\ NoDomain \notin AllDomains
    /\ NoFs \notin Fs /\ Fs # {}
    /\ PerLinux \in Personalities /\ NoAlt \notin Personalities
    /\ EmulPers \subseteq Personalities
    /\ LcallPers \subseteq Personalities
    /\ Serves \in [AllDomains -> SUBSET Personalities]
    /\ PerLinux \in Serves[Default]
    /\ MaxRefs \in Nat

(* Every domain is a static object of one module, whose init registers it  *)
(* once.                                                                   *)
ASSUME DomainsOfAssumption ==
    /\ ModOf \in [Domains -> Mods]
    /\ DomainsOf \in [Mods -> Seq(Domains)]
    /\ \A d \in Domains : \E i \in 1 .. Len(DomainsOf[ModOf[d]]) :
          DomainsOf[ModOf[d]][i] = d
    /\ \A m \in Mods : \A i, j \in 1 .. Len(DomainsOf[m]) :
          /\ ModOf[DomainsOf[m][i]] = m
          /\ DomainsOf[m][i] = DomainsOf[m][j] => i = j

VARIABLES
    exec_domains,   \* the registry, head first
    mstate,         \* module state
    mref,           \* module reference count
    nreg,           \* how many of a module's domains its init/exit has in place
    alive,          \* the tasks that exist
    personality,    \* current->personality
    exec_domain,    \* current_thread_info()->exec_domain
    fs,             \* current->fs
    fscount,        \* fs_struct.count; 0 is a freed fs_struct
    altroot,        \* fs_struct.altroot: the personality whose tree it names
    pc,             \* where a task is
    via,            \* who called set_personality()
    want,           \* its argument
    ep,             \* the domain lookup_exec_domain() returned
    oep,            \* the domain to release
    ofsp,           \* the fs_struct to release
    leaked          \* history: references no one will ever drop

modVars  == <<exec_domains, mstate, nreg>>
refVars  == <<mref, leaked>>
taskVars == <<alive, personality, exec_domain>>
fsVars   == <<fs, fscount, altroot>>
callVars == <<pc, via, want, ep, oep, ofsp>>
vars == <<exec_domains, mstate, mref, nreg, alive, personality, exec_domain,
          fs, fscount, altroot, pc, via, want, ep, oep, ofsp, leaked>>

MStates == {"absent", "coming", "live", "going"}
Callers == {"direct", "lcall"}
PCs == {"user", "scan", "request", "compare", "copyfs",
        "putfs", "commit", "putold", "return", "segv", "fork", "dead"}

Init ==
    /\ exec_domains = <<Default>>
    /\ mstate = [m \in Mods |-> "absent"]
    /\ mref = [m \in Mods |-> 0]
    /\ nreg = [m \in Mods |-> 0]
    /\ alive = {FirstTask}
    /\ personality = [t \in Tasks |-> PerLinux]
    /\ exec_domain = [t \in Tasks |-> Default]
    /\ \E f \in Fs :
          /\ fs = [t \in Tasks |-> IF t = FirstTask THEN f ELSE NoFs]
          /\ fscount = [g \in Fs |-> IF g = f THEN 1 ELSE 0]
    /\ altroot = [f \in Fs |-> NoAlt]
    /\ pc = [t \in Tasks |-> IF t = FirstTask THEN "user" ELSE "dead"]
    /\ via = [t \in Tasks |-> "direct"]
    /\ want = [t \in Tasks |-> PerLinux]
    /\ ep = [t \in Tasks |-> NoDomain]
    /\ oep = [t \in Tasks |-> NoDomain]
    /\ ofsp = [t \in Tasks |-> NoFs]
    /\ leaked = [m \in Mods |-> 0]

-----------------------------------------------------------------------------
(* The module loader, external.  try_module_get() fails only on a module   *)
(* that is being removed, and always succeeds on the null module.          *)

module_is_live(m) == mstate[m] # "going"

try_module_get(d) == d # Default => module_is_live(ModOf[d])

(* The reference counts after one reference to d's module is taken, dropped. *)
Got(d) == IF d = Default THEN mref ELSE [mref EXCEPT ![ModOf[d]] = @ + 1]
Put(d) == IF d = Default THEN mref ELSE [mref EXCEPT ![ModOf[d]] = @ - 1]

(* modprobe or the administrator inserts a module: its init function runs  *)
(* with a reference of its own.                                            *)
LoadModule(m) ==
    /\ mstate[m] = "absent"
    /\ mstate' = [mstate EXCEPT ![m] = "coming"]
    /\ mref' = [mref EXCEPT ![m] = 1]
    /\ UNCHANGED <<exec_domains, nreg, leaked, taskVars, fsVars, callVars>>

(* register_exec_domain(): the new list and the error.                     *)
register_exec_domain(d) ==
    IF \E i \in DOMAIN exec_domains : exec_domains[i] = d
    THEN [err |-> TRUE,  list |-> exec_domains]
    ELSE [err |-> FALSE, list |-> <<d>> \o exec_domains]

(* A list without its i-th element.                                        *)
Without(s, i) == SubSeq(s, 1, i - 1) \o SubSeq(s, i + 1, Len(s))

(* unregister_exec_domain(): the list without d.                           *)
unregister_exec_domain(d) ==
    LET I == {i \in DOMAIN exec_domains : exec_domains[i] = d}
        k == CHOOSE i \in I : \A j \in I : i <= j
    IN  IF I = {} THEN exec_domains ELSE Without(exec_domains, k)

(* One register_exec_domain() call of a module's init function.  When it   *)
(* fails the init function takes back what it registered before, and the   *)
(* loader drops the module.                                                *)
ModuleInit(m) ==
    /\ mstate[m] = "coming"
    /\ nreg[m] < Len(DomainsOf[m])
    /\ LET r == register_exec_domain(DomainsOf[m][nreg[m] + 1])
           Other(d) == \A i \in 1 .. nreg[m] : d # DomainsOf[m][i]
       IN  IF r.err
           THEN /\ exec_domains' = SelectSeq(exec_domains, Other)
                /\ nreg' = [nreg EXCEPT ![m] = 0]
                /\ mstate' = [mstate EXCEPT ![m] = "going"]
                /\ mref' = [mref EXCEPT ![m] = @ - 1]
           ELSE /\ exec_domains' = r.list
                /\ nreg' = [nreg EXCEPT ![m] = @ + 1]
                /\ UNCHANGED <<mstate, mref>>
    /\ UNCHANGED <<leaked, taskVars, fsVars, callVars>>

(* The init function returned 0: the loader drops its reference.           *)
ModuleInitDone(m) ==
    /\ mstate[m] = "coming"
    /\ nreg[m] = Len(DomainsOf[m])
    /\ mstate' = [mstate EXCEPT ![m] = "live"]
    /\ mref' = [mref EXCEPT ![m] = @ - 1]
    /\ UNCHANGED <<exec_domains, nreg, leaked, taskVars, fsVars, callVars>>

(* delete_module(2): refused unless nobody holds a reference.              *)
DeleteModule(m) ==
    /\ mstate[m] = "live"
    /\ mref[m] = 0
    /\ mstate' = [mstate EXCEPT ![m] = "going"]
    /\ UNCHANGED <<exec_domains, nreg, refVars, taskVars, fsVars, callVars>>

(* Mutant: the exit function unregisters one of its domains only.          *)
ModuleExit_one(m) ==
    /\ mstate[m] = "going"
    /\ nreg[m] > 0
    /\ exec_domains' = unregister_exec_domain(DomainsOf[m][nreg[m]])
    /\ nreg' = [nreg EXCEPT ![m] = 0]
    /\ UNCHANGED <<mstate, refVars, taskVars, fsVars, callVars>>

(* One unregister_exec_domain() call of a module's exit function, last     *)
(* registered first.                                                       *)
ModuleExit(m) ==
    /\ mstate[m] = "going"
    /\ nreg[m] > 0
    /\ exec_domains' = unregister_exec_domain(DomainsOf[m][nreg[m]])
    /\ nreg' = [nreg EXCEPT ![m] = @ - 1]
    /\ UNCHANGED <<mstate, refVars, taskVars, fsVars, callVars>>

(* The exit function returned: the loader frees the module's memory.       *)
FreeModule(m) ==
    /\ mstate[m] = "going"
    /\ nreg[m] = 0
    /\ mstate' = [mstate EXCEPT ![m] = "absent"]
    /\ UNCHANGED <<exec_domains, nreg, refVars, taskVars, fsVars, callVars>>

-----------------------------------------------------------------------------
(* set_personality(p), called from exec, from personality(2) or from the   *)
(* lcall handler of the default domain.                                    *)

Goto(t, l) == pc' = [pc EXCEPT ![t] = l]

Bounded == \A m \in Mods : mref[m] < MaxRefs

(* The set_personality() macro called with p: nothing to do when p is the  *)
(* current personality.                                                    *)
set_personality(t, v, p) ==
    /\ pc[t] = "user"
    /\ Bounded
    /\ Goto(t, IF personality[t] = p THEN "return" ELSE "scan")
    /\ via' = [via EXCEPT ![t] = v]
    /\ want' = [want EXCEPT ![t] = p]
    /\ UNCHANGED <<modVars, refVars, taskVars, fsVars, ep, oep, ofsp>>

(* SET_PERSONALITY() of the ELF loader, and the COFF and x.out loaders.    *)
Exec(t) == \E p \in Personalities : set_personality(t, "direct", p)

sys_personality(t) == \E p \in Personalities : set_personality(t, "direct", p)

(* An lcall reaches this handler only in a task of the default domain.     *)
lcall_autodetect_handler(t) ==
    /\ exec_domain[t] = Default
    /\ \E p \in LcallPers : set_personality(t, "lcall", p)

(* Mutant: the walk takes a domain whose module is going.                  *)
Hits_unpinned(p) == {i \in DOMAIN exec_domains : p \in Serves[exec_domains[i]]}

(* Mutant: the walk does not compare the personality range.                *)
Hits_any(p) == {i \in DOMAIN exec_domains : try_module_get(exec_domains[i])}

(* One walk of the list under the read lock: the first domain that serves  *)
(* the personality and whose module can be pinned, else the continuation.  *)
Hits(p) == {i \in DOMAIN exec_domains :
               /\ p \in Serves[exec_domains[i]]
               /\ try_module_get(exec_domains[i])}

WalkFound(t) ==
    \E i \in Hits(want[t]) :
       /\ \A j \in Hits(want[t]) : i <= j
       /\ ep' = [ep EXCEPT ![t] = exec_domains[i]]
       /\ mref' = Got(exec_domains[i])
       /\ Goto(t, "compare")

lookup_scan(t) ==
    /\ pc[t] = "scan"
    /\ \/ WalkFound(t)
       \/ Hits(want[t]) = {} /\ Goto(t, "request") /\ UNCHANGED <<ep, mref>>
    /\ UNCHANGED <<modVars, leaked, taskVars, fsVars, via, want, oep, ofsp>>

(* Mutant: no late probing, the second walk returns the null pointer.      *)
lookup_rescan_null(t) ==
    /\ pc[t] = "request"
    /\ \/ WalkFound(t)
       \/ /\ Hits(want[t]) = {}
          /\ ep' = [ep EXCEPT ![t] = NoDomain]
          /\ Goto(t, "compare")
          /\ UNCHANGED mref
    /\ UNCHANGED <<modVars, leaked, taskVars, fsVars, via, want, oep, ofsp>>

(* request_module() returns when modprobe has exited, and the second walk  *)
(* begins.  What modprobe did are LoadModule steps, or nothing when there  *)
(* is no such module.  Late probing then settles for the default domain.   *)
lookup_rescan(t) ==
    /\ pc[t] = "request"
    /\ \/ WalkFound(t)
       \/ /\ Hits(want[t]) = {}
          /\ ep' = [ep EXCEPT ![t] = Default]
          /\ Goto(t, "compare")
          /\ UNCHANGED mref
    /\ UNCHANGED <<modVars, leaked, taskVars, fsVars, via, want, oep, ofsp>>

(* The domain is the current one: only the personality changes, and the    *)
(* reference the lookup took stays behind.                                 *)
set_same_domain(t) ==
    /\ pc[t] = "compare"
    /\ ep[t] = exec_domain[t]
    /\ personality' = [personality EXCEPT ![t] = want[t]]
    /\ leaked' = IF ep[t] = Default THEN leaked
                 ELSE [leaked EXCEPT ![ModOf[ep[t]]] = @ + 1]
    /\ ep' = [ep EXCEPT ![t] = NoDomain]
    /\ Goto(t, "return")
    /\ UNCHANGED <<modVars, mref, alive, exec_domain, fsVars, via, want, oep, ofsp>>

(* Mutant: a shared fs_struct is not copied.                               *)
set_check_fs_shared(t) ==
    /\ pc[t] = "compare"
    /\ ep[t] # exec_domain[t]
    /\ Goto(t, "commit")
    /\ UNCHANGED <<modVars, refVars, taskVars, fsVars, via, want, ep, oep, ofsp>>

(* A new domain: is current->fs shared?                                    *)
set_check_fs(t) ==
    /\ pc[t] = "compare"
    /\ ep[t] # exec_domain[t]
    /\ Goto(t, IF fscount[fs[t]] # 1 THEN "copyfs" ELSE "commit")
    /\ UNCHANGED <<modVars, refVars, taskVars, fsVars, via, want, ep, oep, ofsp>>

(* copy_fs_struct(): a copy of f with a count of one, in a free slot g.    *)
copy_fs_struct(f, g) ==
    /\ fscount[g] = 0
    /\ fscount' = [fscount EXCEPT ![g] = 1]
    /\ altroot' = [altroot EXCEPT ![g] = altroot[f]]

set_copy_fs(t) ==
    /\ pc[t] = "copyfs"
    /\ \E g \in Fs :
          /\ copy_fs_struct(fs[t], g)
          /\ ofsp' = [ofsp EXCEPT ![t] = fs[t]]
          /\ fs' = [fs EXCEPT ![t] = g]
    /\ Goto(t, "putfs")
    /\ UNCHANGED <<modVars, refVars, taskVars, via, want, ep, oep>>

(* Mutant: the error path keeps the reference to the new domain.           *)
set_copy_fs_fails_keeps(t) ==
    /\ pc[t] = "copyfs"
    /\ ep' = [ep EXCEPT ![t] = NoDomain]
    /\ Goto(t, "return")
    /\ UNCHANGED <<modVars, refVars, taskVars, fsVars, via, want, oep, ofsp>>

(* The allocation fails: the new domain is released, -ENOMEM.              *)
set_copy_fs_fails(t) ==
    /\ pc[t] = "copyfs"
    /\ mref' = Put(ep[t])
    /\ ep' = [ep EXCEPT ![t] = NoDomain]
    /\ Goto(t, "return")
    /\ UNCHANGED <<modVars, leaked, taskVars, fsVars, via, want, oep, ofsp>>

(* put_fs_struct(), external: the last user frees the fs_struct.           *)
put_fs_struct(f) ==
    /\ fscount' = [fscount EXCEPT ![f] = @ - 1]
    /\ altroot' = IF fscount[f] = 1 THEN [altroot EXCEPT ![f] = NoAlt] ELSE altroot

set_put_fs(t) ==
    /\ pc[t] = "putfs"
    /\ put_fs_struct(ofsp[t])
    /\ ofsp' = [ofsp EXCEPT ![t] = NoFs]
    /\ Goto(t, "commit")
    /\ UNCHANGED <<modVars, refVars, taskVars, fs, via, want, ep, oep>>

(* set_fs_altroot(), external: the tree __emul_prefix() names, if any.     *)
set_fs_altroot(f, p) ==
    altroot' = [altroot EXCEPT ![f] = IF p \in EmulPers THEN p ELSE NoAlt]

set_commit(t) ==
    /\ pc[t] = "commit"
    /\ personality' = [personality EXCEPT ![t] = want[t]]
    /\ oep' = [oep EXCEPT ![t] = exec_domain[t]]
    /\ exec_domain' = [exec_domain EXCEPT ![t] = ep[t]]
    /\ ep' = [ep EXCEPT ![t] = NoDomain]
    /\ set_fs_altroot(fs[t], want[t])
    /\ Goto(t, "putold")
    /\ UNCHANGED <<modVars, refVars, alive, fs, fscount, via, want, ofsp>>

set_put_old(t) ==
    /\ pc[t] = "putold"
    /\ mref' = Put(oep[t])
    /\ oep' = [oep EXCEPT ![t] = NoDomain]
    /\ Goto(t, "return")
    /\ UNCHANGED <<modVars, leaked, taskVars, fsVars, via, want, ep, ofsp>>

(* Back in the caller.  The lcall handler raises SIGSEGV when it is still  *)
(* the handler, and otherwise runs the handler just installed.             *)
set_return(t) ==
    /\ pc[t] = "return"
    /\ Goto(t, IF via[t] = "lcall" /\ exec_domain[t] = Default THEN "segv" ELSE "user")
    /\ via' = [via EXCEPT ![t] = "direct"]
    /\ want' = [want EXCEPT ![t] = PerLinux]
    /\ UNCHANGED <<modVars, refVars, taskVars, fsVars, ep, oep, ofsp>>

(* The program has a handler for SIGSEGV, or blocks it.                    *)
SurviveSegv(t) ==
    /\ pc[t] = "segv"
    /\ Goto(t, "user")
    /\ UNCHANGED <<modVars, refVars, taskVars, fsVars, via, want, ep, oep, ofsp>>

-----------------------------------------------------------------------------
(* fork and exit.                                                          *)

(* copy_process() pins the domain for the child it has just duplicated.    *)
fork_pin(t) ==
    /\ pc[t] = "user"
    /\ Bounded
    /\ alive # Tasks
    /\ try_module_get(exec_domain[t])
    /\ mref' = Got(exec_domain[t])
    /\ Goto(t, "fork")
    /\ UNCHANGED <<modVars, leaked, taskVars, fsVars, via, want, ep, oep, ofsp>>

(* copy_fs(): CLONE_FS shares the parent's fs_struct, otherwise a copy.    *)
copy_fs(t, u) ==
    \/ /\ fs' = [fs EXCEPT ![u] = fs[t]]
       /\ fscount' = [fscount EXCEPT ![fs[t]] = @ + 1]
       /\ UNCHANGED altroot
    \/ \E g \in Fs :
          /\ copy_fs_struct(fs[t], g)
          /\ fs' = [fs EXCEPT ![u] = g]

fork_done(t) ==
    /\ pc[t] = "fork"
    /\ \E u \in Tasks \ alive :
          /\ copy_fs(t, u)
          /\ alive' = alive \cup {u}
          /\ personality' = [personality EXCEPT ![u] = personality[t]]
          /\ exec_domain' = [exec_domain EXCEPT ![u] = exec_domain[t]]
          /\ pc' = [pc EXCEPT ![t] = "user", ![u] = "user"]
    /\ UNCHANGED <<modVars, refVars, via, want, ep, oep, ofsp>>

(* A later step of copy_process() fails: bad_fork_cleanup_put_domain.      *)
fork_fails(t) ==
    /\ pc[t] = "fork"
    /\ mref' = Put(exec_domain[t])
    /\ Goto(t, "user")
    /\ UNCHANGED <<modVars, leaked, taskVars, fsVars, via, want, ep, oep, ofsp>>

(* do_exit(), external: exit_fs() and module_put() of the exec domain.     *)
Exit(t) ==
    /\ pc[t] \in {"user", "segv"}
    /\ alive' = alive \ {t}
    /\ put_fs_struct(fs[t])
    /\ fs' = [fs EXCEPT ![t] = NoFs]
    /\ mref' = Put(exec_domain[t])
    /\ personality' = [personality EXCEPT ![t] = PerLinux]
    /\ exec_domain' = [exec_domain EXCEPT ![t] = Default]
    /\ Goto(t, "dead")
    /\ UNCHANGED <<modVars, leaked, via, want, ep, oep, ofsp>>

-----------------------------------------------------------------------------
ModStep(m) ==
    \/ LoadModule(m) \/ ModuleInit(m) \/ ModuleInitDone(m)
    \/ DeleteModule(m) \/ ModuleExit(m) \/ FreeModule(m)

(* The steps a task takes inside set_personality().                        *)
SetStep(t) ==
    \/ lookup_scan(t) \/ lookup_rescan(t)
    \/ set_same_domain(t) \/ set_check_fs(t) \/ set_copy_fs(t) \/ set_copy_fs_fails(t)
    \/ set_put_fs(t) \/ set_commit(t) \/ set_put_old(t) \/ set_return(t)

TaskStep(t) ==
    \/ Exec(t) \/ sys_personality(t) \/ lcall_autodetect_handler(t)
    \/ SetStep(t) \/ SurviveSegv(t)
    \/ fork_pin(t) \/ fork_done(t) \/ fork_fails(t) \/ Exit(t)

Next == (\E m \in Mods : ModStep(m)) \/ (\E t \in Tasks : TaskStep(t))

Spec == Init /\ [][Next]_vars

-----------------------------------------------------------------------------
(* Every variable has its type.                                            *)
TypeOK ==
    /\ exec_domains \in Seq(AllDomains)
    /\ mstate \in [Mods -> MStates]
    /\ mref \in [Mods -> Int] /\ leaked \in [Mods -> Nat]
    /\ nreg \in [Mods -> Nat]
    /\ alive \subseteq Tasks
    /\ personality \in [Tasks -> Personalities]
    /\ exec_domain \in [Tasks -> AllDomains]
    /\ fs \in [Tasks -> Fs \cup {NoFs}] /\ ofsp \in [Tasks -> Fs \cup {NoFs}]
    /\ fscount \in [Fs -> Int]
    /\ altroot \in [Fs -> EmulPers \cup {NoAlt}]
    /\ pc \in [Tasks -> PCs] /\ via \in [Tasks -> Callers]
    /\ want \in [Tasks -> Personalities]
    /\ ep \in [Tasks -> AllDomains \cup {NoDomain}]
    /\ oep \in [Tasks -> AllDomains \cup {NoDomain}]

(* A domain's memory is there, and its module cannot be removed.           *)
Pinned(d) == d # Default => mstate[ModOf[d]] \in {"coming", "live"}

(* lcall7/lcall27 call through exec_domain->handler, and the emulation     *)
(* code reads exec_domain->signal_map and ->err_map, with no lock: the     *)
(* domain a task runs in, the one it is about to install and the one it    *)
(* has just replaced are never in a module that is going or gone, however  *)
(* the switch interleaves with rmmod (exec_domain.c:211-265).              *)
DomainsInUsePinned ==
    \A t \in Tasks :
       /\ Pinned(exec_domain[t])
       /\ ep[t] # NoDomain => Pinned(ep[t])
       /\ oep[t] # NoDomain => Pinned(oep[t])

(* The walks of lookup_exec_domain() and /proc/execdomains dereference     *)
(* every element: the list only holds domains of modules still in memory,  *)
(* each once, and it ends with the default domain.                         *)
RegistrySound ==
    /\ exec_domains # <<>> /\ exec_domains[Len(exec_domains)] = Default
    /\ \A i, j \in DOMAIN exec_domains : exec_domains[i] = exec_domains[j] => i = j
    /\ \A i \in DOMAIN exec_domains :
          exec_domains[i] # Default => mstate[ModOf[exec_domains[i]]] # "absent"

(* The reference a task holds in each capacity: for its current domain,    *)
(* for the one it looked up, for the one it will release, and for the      *)
(* child it is forking.                                                    *)
Slots == {"current", "new", "old", "child"}
Held(t, k) ==
    CASE k = "current" -> exec_domain[t]
      [] k = "new"     -> ep[t]
      [] k = "old"     -> oep[t]
      [] k = "child"   -> IF pc[t] = "fork" THEN exec_domain[t] ELSE NoDomain

Holders(m) == {h \in Tasks \X Slots : /\ Held(h[1], h[2]) \in Domains
                                      /\ ModOf[Held(h[1], h[2])] = m}

(* Reference accounting of __set_personality(), copy_process() and exit on *)
(* every path: a module's count is exactly its holders, its own init       *)
(* function and what the same-domain return leaves behind.                 *)
RefsAccounted ==
    \A m \in Mods : mref[m] = Cardinality(Holders(m)) + leaked[m]
                              + (IF mstate[m] = "coming" THEN 1 ELSE 0)

(* A task outside the default domain runs in a domain that serves its      *)
(* personality: no interleaving installs one without the other.            *)
DomainServesPersonality ==
    \A t \in alive : exec_domain[t] # Default => personality[t] \in Serves[exec_domain[t]]

(* The comment of exec_domain.c:250-253: when the domain is replaced the   *)
(* task is the only one whose current->fs is this fs_struct, and nobody    *)
(* is still about to release it.                                           *)
SoleOwnerOfFs ==
    \A t \in Tasks : pc[t] = "commit" =>
       /\ fscount[fs[t]] = 1
       /\ \A u \in Tasks : (u # t => fs[u] # fs[t]) /\ ofsp[u] # fs[t]

(* No fs_struct is freed under a user or kept without one, over the copy   *)
(* in __set_personality(), CLONE_FS and exit.                              *)
FsUsers(f) == {h \in Tasks \X {"fs", "ofsp"} :
                 (IF h[2] = "fs" THEN fs[h[1]] ELSE ofsp[h[1]]) = f}
FsCounted == \A f \in Fs : fscount[f] = Cardinality(FsUsers(f))

(* Switching the personality of one task never moves the alternate root    *)
(* of another one: a task whose own code does not run keeps its altroot.   *)
AltrootsStay == \A t \in alive : pc[t] = pc'[t] => altroot'[fs'[t]] = altroot[fs[t]]

FsOwned == SoleOwnerOfFs /\ FsCounted

(* The fs_structs are counted, the one that is given an alternate root has *)
(* no other user, and no task's root moves by another task's switch        *)
(* (__set_personality()).                                                  *)
FsIsPrivate == [][FsOwned /\ FsOwned' /\ AltrootsStay]_vars

(* The switch of domain, with its list, locks, counts and late probing,    *)
(* is the atomic switch of DomainService, and rmmod is its Withdraw: a     *)
(* module that some task's domain is in is never removed.                  *)
Service == INSTANCE DomainService WITH
    usable <- {m \in Mods : mstate[m] \in {"coming", "live"}},
    domain <- exec_domain,
    pers   <- personality

ImplementsService == Service!Spec

(* exec_domain.c:152-155: a program that started in the default domain     *)
(* "will run until the very first syscall. then the syscall handler will   *)
(* attempt switch the identity again".  An lcall on which no lookup is     *)
(* made therefore never finds the wanted domain registered.                *)
LateProbingRetries ==
    [][\A t \in Tasks :
          (pc[t] = "user" /\ via'[t] = "lcall" /\ pc'[t] # "scan") =>
             Hits(want'[t]) = {}]_vars

(* exec_domain.c:220-223: for the current domain "we just have to update   *)
(* the personality to this process", as if the lookup had taken nothing:   *)
(* every reference to a module has an owner that will drop it.             *)
EveryReferenceOwned ==
    \A m \in Mods : mref[m] = Cardinality(Holders(m))
                              + (IF mstate[m] = "coming" THEN 1 ELSE 0)
=============================================================================
