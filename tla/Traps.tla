------------------------------- MODULE Traps -------------------------------
(***************************************************************************)
(* What a processor switches lazily, and the traps that catch up           *)
(* (arch/i386/kernel/traps.c, device_not_available in entry.S): the I/O    *)
(* permission bitmap of the TSS, which do_general_protection() copies at   *)
(* the first access; the FPU, which math_state_restore() loads at the      *)
(* first instruction and math_error() and simd_math_error() save when it   *)
(* faults; the debug registers, of which __switch_to() loads only those in *)
(* use, so that do_debug() has to drop the hits of another task.           *)
(*                                                                         *)
(* One processor, kernel preemption on: a task may be switched away        *)
(* between the trap and its handler, which is a label of pc.               *)
(***************************************************************************)
EXTENDS Integers, FiniteSets

CONSTANTS Tasks,
          Ports,    \* numbers, one for every byte of a bitmap
          Values,   \* what FPU registers may hold
          Excs,     \* sets of unmasked exceptions, the bits of swd and mxcsr
          Addrs     \* addresses watched

VARIABLES cur,   \* the task that runs
          cpu,   \* TS of CR0, the FPU registers, the TSS, the address watched
          th,    \* task->thread and thread_info
          sig,   \* the fault signal that waits for each task: signal and code
          prog,  \* history: what each task computed, and its last fault
          uses   \* bound: the one of the three that the tasks use

vars == <<cur, cpu, th, sig, prog, uses>>

Nil == "nil"
NoSig == <<Nil, Nil>>
InitFpu == [v |-> 0, x |-> {}, mx |-> {}]
NoBitmap == [ptr |-> FALSE, map |-> {}, max |-> 0]

Init ==
    /\ cur \in Tasks /\ uses \in {"fpu", "io", "debug"}
    /\ cpu = [ts |-> TRUE, regs |-> InitFpu, dr |-> Nil,
              tss |-> [base |-> "invalid", map |-> {}, max |-> 0]]
    /\ th = [t \in Tasks |-> [pc |-> "user", used_math |-> FALSE, usedfpu |-> FALSE, i387 |-> InitFpu,
                              io |-> NoBitmap, debugreg |-> Nil]]
    /\ sig = [t \in Tasks |-> NoSig]
    /\ prog = [t \in Tasks |-> [fp |-> InitFpu, did |-> Nil]]

me == th[cur]
InUser(kind) == uses = kind /\ me.pc = "user" /\ sig[cur] = NoSig
Trap(label) == th' = [th EXCEPT ![cur].pc = label]
Did(what) == prog' = [prog EXCEPT ![cur].did = what]
Send(s) == sig' = [sig EXCEPT ![cur] = s]

-----------------------------------------------------------------------------
(* The scheduler and the rest of the kernel. *)
Saved(t) == IF th[t].usedfpu THEN [th EXCEPT ![t].i387 = cpu.regs, ![t].usedfpu = FALSE] ELSE th
switched(n) ==
    /\ cur' = n /\ th' = Saved(cur)
    /\ cpu' = [cpu EXCEPT !.ts = @ \/ me.usedfpu, !.regs = IF me.usedfpu THEN InitFpu ELSE @,
                          !.tss.base = IF th[n].io.ptr THEN "lazy" ELSE "invalid",
                          !.dr = IF th[n].debugreg # Nil THEN th[n].debugreg ELSE @]
__switch_to(n) == n # cur /\ switched(n) /\ UNCHANGED <<sig, prog, uses>>

(* A fault signal is taken before user code goes on, or the tracer stops   *)
(* the task for it and drops it.                                           *)
do_signal ==
    /\ me.pc = "user" /\ sig[cur] # NoSig /\ Send(NoSig) /\ Did(Nil)
    /\ cpu' = [cpu EXCEPT !.dr = IF me.debugreg # Nil THEN me.debugreg ELSE @]
    /\ UNCHANGED <<cur, th, uses>>
ptrace_stop(n) ==
    /\ n # cur /\ me.pc = "user" /\ sig[cur] # NoSig /\ Send(NoSig) /\ Did(Nil) /\ switched(n)
    /\ UNCHANGED uses

-----------------------------------------------------------------------------
(* The I/O bitmap.  ioperm() allows a port and makes the TSS lazy. *)
sys_ioperm(p, on) ==
    /\ InUser("io")
    /\ LET map == IF on THEN me.io.map \cup {p} ELSE me.io.map \ {p} IN
       th' = [th EXCEPT ![cur].io = [ptr |-> TRUE, map |-> map,
                                     max |-> 1 + CHOOSE m \in map \cup {0} : \A q \in map : q <= m]]
    /\ cpu' = [cpu EXCEPT !.tss.base = "lazy"] /\ UNCHANGED <<cur, sig, prog, uses>>
in_port(p) ==
    /\ InUser("io") /\ ~(cpu.tss.base = "offset" /\ p \in cpu.tss.map)
    /\ Trap("general_protection") /\ Did(p) /\ UNCHANGED <<cur, cpu, sig, uses>>

(* The bytes of the thread's bitmap, then 0xff up to the end of the old. *)
copied(tss, io) ==
    [base |-> "offset", max |-> io.max, map |-> io.map \cup {q \in tss.map : q >= io.max /\ q >= tss.max}]
do_general_protection ==
    /\ me.pc = "general_protection" /\ Trap("user")
    /\ IF cpu.tss.base = "lazy" /\ me.io.ptr
       THEN cpu' = [cpu EXCEPT !.tss = copied(cpu.tss, me.io)] /\ Did(Nil) /\ UNCHANGED sig
       ELSE Send(<<"SIGSEGV", Nil>>) /\ UNCHANGED <<cpu, prog>>
    /\ UNCHANGED <<cur, uses>>

-----------------------------------------------------------------------------
(* The FPU.  An x87 exception faults at the next instruction, one of SSE   *)
(* at its own; without fault an instruction leaves a value behind.         *)
math_state_restore_unmarked ==
    /\ InUser("fpu") /\ cpu.ts
    /\ LET image == IF me.used_math THEN me.i387 ELSE InitFpu IN
       /\ cpu' = [cpu EXCEPT !.ts = FALSE, !.regs = image]
       /\ th' = [th EXCEPT ![cur].used_math = TRUE, ![cur].i387 = image]
    /\ UNCHANGED <<cur, sig, prog, uses>>
math_state_restore ==
    /\ InUser("fpu") /\ cpu.ts
    /\ LET image == IF me.used_math THEN me.i387 ELSE InitFpu IN
       /\ cpu' = [cpu EXCEPT !.ts = FALSE, !.regs = image]
       /\ th' = [th EXCEPT ![cur].used_math = TRUE, ![cur].i387 = image, ![cur].usedfpu = TRUE]
    /\ UNCHANGED <<cur, sig, prog, uses>>
Computes(regs) ==
    cpu' = [cpu EXCEPT !.regs = regs] /\ prog' = [prog EXCEPT ![cur] = [fp |-> regs, did |-> Nil]]
x87_op(v, x) ==
    /\ InUser("fpu") /\ ~cpu.ts
    /\ IF cpu.regs.x # {}
       THEN Trap("coprocessor_error") /\ Did("x87") /\ UNCHANGED cpu
       ELSE Computes([cpu.regs EXCEPT !.v = v, !.x = x]) /\ UNCHANGED th
    /\ UNCHANGED <<cur, sig, uses>>
sse_op(mx) ==
    /\ InUser("fpu") /\ ~cpu.ts /\ mx # {}
    /\ cpu' = [cpu EXCEPT !.regs.mx = mx]
    /\ prog' = [prog EXCEPT ![cur].fp.mx = mx, ![cur].did = "sse"]
    /\ Trap("simd_coprocessor_error") /\ UNCHANGED <<cur, sig, uses>>
fnclex == InUser("fpu") /\ ~cpu.ts /\ Computes([cpu.regs EXCEPT !.x = {}, !.mx = {}]) /\ UNCHANGED <<cur, th, sig, uses>>

(* save_init_fpu(): when the task was away since the fault, the save finds *)
(* TS set and the registers are restored first.                            *)
Image == IF cpu.ts THEN me.i387 ELSE cpu.regs
save_init_fpu ==
    /\ th' = [th EXCEPT ![cur].i387 = Image, ![cur].usedfpu = FALSE, ![cur].pc = "user"]
    /\ cpu' = [cpu EXCEPT !.ts = TRUE, !.regs = InitFpu]
si_code(x) ==
    CASE x = {0} -> "FLTINV" [] x = {1} \/ x = {4} -> "FLTUND" [] x = {2} -> "FLTDIV"
      [] x = {3} -> "FLTOVF" [] x = {5} -> "FLTRES" [] OTHER -> "FAULT"
math_error ==
    /\ me.pc = "coprocessor_error" /\ save_init_fpu
    /\ IF Image.x = {} THEN UNCHANGED sig ELSE Send(<<"SIGFPE", si_code(Image.x)>>)
    /\ UNCHANGED <<cur, prog, uses>>
simd_math_error ==
    /\ me.pc = "simd_coprocessor_error" /\ save_init_fpu
    /\ Send(<<"SIGFPE", si_code(Image.mx)>>) /\ UNCHANGED <<cur, prog, uses>>

-----------------------------------------------------------------------------
(* Watchpoints.  A tracer sets or clears the one of a stopped task. *)
ptrace_poke(t, a) ==
    /\ uses = "debug" /\ t # cur /\ th[t].pc = "user" /\ sig[t] = NoSig
    /\ th' = [th EXCEPT ![t].debugreg = a] /\ UNCHANGED <<cur, cpu, sig, prog, uses>>
touch ==
    /\ InUser("debug") /\ cpu.dr # Nil /\ Trap("debug") /\ Did(cpu.dr)
    /\ UNCHANGED <<cur, cpu, sig, uses>>
(* The hit is dropped when this task watches nothing; the registers are    *)
(* cleared in both cases, until the signal is delivered.                   *)
do_debug ==
    /\ me.pc = "debug" /\ Trap("user") /\ cpu' = [cpu EXCEPT !.dr = Nil]
    /\ IF me.debugreg = Nil THEN UNCHANGED sig ELSE Send(<<"SIGTRAP", Nil>>)
    /\ UNCHANGED <<cur, prog, uses>>

Next ==
    \/ \E n \in Tasks : __switch_to(n) \/ ptrace_stop(n)
    \/ do_signal \/ do_general_protection \/ do_debug \/ touch
    \/ \E p \in Ports : in_port(p) \/ \E on \in BOOLEAN : sys_ioperm(p, on)
    \/ math_state_restore \/ fnclex \/ math_error \/ simd_math_error
    \/ \E x \in Excs : sse_op(x) \/ \E v \in Values : x87_op(v, x)
    \/ \E t \in Tasks, a \in Addrs \cup {Nil} : ptrace_poke(t, a)

Spec == Init /\ [][Next]_vars

-----------------------------------------------------------------------------
TypeOK ==
    /\ cur \in Tasks
    /\ cpu.regs.v \in Values \cup {0} /\ cpu.dr \in Addrs \cup {Nil}
    /\ cpu.tss.base \in {"invalid", "lazy", "offset"} /\ cpu.tss.map \subseteq Ports
    /\ \A t \in Tasks : th[t].usedfpu => (t = cur /\ th[t].used_math /\ ~cpu.ts)

(* While a task may use the FPU without a trap its registers hold what it  *)
(* computed, and what a task that is away computed is in its i387 image:   *)
(* math_state_restore() marks the registers as used, so that the switch    *)
(* saves them, however switches, faults and signals interleave.            *)
FpuIsTheTasksOwn ==
    uses = "fpu" =>
        /\ ~cpu.ts => cpu.regs = prog[cur].fp
        /\ \A t \in Tasks : (t # cur \/ cpu.ts) => th[t].i387 = prog[t].fp

(* As long as the TSS has a bitmap, it opens exactly the ports of the task *)
(* that runs: do_general_protection() pads what a longer bitmap left.      *)
PortsAreTheTasksOwn == cpu.tss.base = "offset" => cpu.tss.map = me.io.map

(* A fault signal is for what its task did: SIGSEGV for a port it may not  *)
(* use, SIGTRAP for the address it watches, SIGFPE with the code of the    *)
(* exception it raised, though another task ran since the trap.            *)
FaultsAreTheTasksOwn ==
    \A t \in Tasks : sig[t] # NoSig =>
        LET did == prog[t].did IN
        CASE uses = "io" -> sig[t][1] = "SIGSEGV" /\ did \notin th[t].io.map
          [] uses = "debug" -> sig[t][1] = "SIGTRAP" /\ did = th[t].debugreg
          [] OTHER -> sig[t] = <<"SIGFPE", si_code(IF did = "x87" THEN prog[t].fp.x ELSE prog[t].fp.mx)>>

(* User code of a task that watches an address runs with the watchpoint    *)
(* set, though do_debug() clears the register at every hit: the signal     *)
(* that it sends, or the next switch, sets it again.                       *)
WatchpointsStaySet ==
    (me.pc = "user" /\ sig[cur] = NoSig /\ me.debugreg # Nil) => cpu.dr = me.debugreg
=============================================================================
