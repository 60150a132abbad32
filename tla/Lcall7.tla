------------------------------- MODULE Lcall7 -------------------------------
(***************************************************************************)
(* One system call of a program of a System V personality, from the lcall7 *)
(* gate to the return to user mode: the personality's handler picks the    *)
(* table entry, lcall7_dispatch() (arch/i386/kernel/lcall7.c) fetches the  *)
(* arguments, calls the entry and turns its result into eax and the carry  *)
(* flag.  Entries marked Fast may dispatch again: syscall(2) through       *)
(* lcall7_syscall(), and the sub-tables of cxenix(), wyse_class_nfs(),     *)
(* wyse_class_tcp() and isc_sysisc().                                      *)
(*                                                                         *)
(* User memory is the words the program pushed, byte by byte: word 0 is    *)
(* the return address, word k the k-th word after it.  esp is the byte     *)
(* offset from the value it had at the gate.                               *)
(***************************************************************************)
EXTENDS Sysent, Personality

CONSTANTS Calls,      \* the calls a program makes, see CallType
          Results     \* what a handler may return

VARIABLES pers,       \* the personality of the program
          regs,       \* the saved registers: eax (bytes), esp, carry flag
          stk,        \* the words on the user stack, as bytes
          pc,         \* where the kernel is
          ap,         \* the table entry being dispatched
          off,        \* lcall7_dispatch()'s off
          frames,     \* the Fast handlers that wait for an inner dispatch
          sel,        \* history: words that selected the call, by who read them
          args,       \* history: where and how the handler finds its arguments
          res         \* history: what the innermost handler returned

vars == <<pers, regs, stk, pc, ap, off, frames, sel, args, res>>

StackWords == 15
CallType == [n : 0 .. 255, hi : 0 .. 255, lo1 : 0 .. 255, hi1 : 0 .. 255]

Tables ==
    [ibcs |-> ibcs_syscall_table, isc |-> isc_syscall_table, sco |-> sco_syscall_table,
     xenix |-> sco_syscall_table, solaris |-> solaris_syscall_table,
     uw7 |-> uw7_syscall_table, wyse |-> wyse_syscall_table]

Indirect == "lcall7_syscall"
SubDispatchers == {"cxenix", "wyse_class_nfs", "wyse_class_tcp", "isc_sysisc"}
SubTable(h) ==
    CASE h = "cxenix" -> cxenix_table
      [] h = "wyse_class_nfs" -> wyse_nfscall_table
      [] h = "wyse_class_tcp" -> wyse_tcpcall_table
      [] h = "isc_sysisc" -> sysisc_table

-----------------------------------------------------------------------------
(* Words are little-endian sequences of four bytes. *)
Bytes(v) == <<v % 256, (v \div 256) % 256, (v \div 65536) % 256, (v \div 16777216) % 256>>
Byte(a) == stk[a \div 4][(a % 4) + 1]
UserWord(a) == [i \in 1 .. 4 |-> Byte(a + i - 1)]

(* The stack of a program that pushed a first word of two significant      *)
(* bytes; the words above it are small numbers.                            *)
Pushed(lo, hi) ==
    [k \in 0 .. StackWords |-> IF k = 1 THEN <<lo, hi, 0, 0>> ELSE Bytes(k)]

(* The value of a word that fits in 24 bits, and of the word >> 8. *)
Low(w) == w[1] + 256 * w[2] + 65536 * w[3]
ShiftRight8(w) == w[2] + 256 * w[3] + 65536 * w[4]

(* include/asm-i386/abi_machdep.h *)
set_error(e) == regs' = [regs EXCEPT !.eax = Bytes(e), !.cf = TRUE]
set_result(r) == regs' = [regs EXCEPT !.eax = Bytes(r), !.cf = FALSE]

EINVAL == 22
ENOSYS == 38
ENOIOCTLCMD == 515

(* What lcall7_dispatch() makes of a result. *)
outcome_untranslated(r) ==
    IF r > -ENOIOCTLCMD /\ r < 0 THEN set_error(-r) ELSE set_result(r)
outcome(r) ==
    IF r > -ENOIOCTLCMD /\ r < 0
    THEN set_error(iABI_errors(pers, -r))
    ELSE set_result(r)

(* Where a handler's first argument comes from: get_args() copies words    *)
(* from esp + off; a handler that is given the registers uses              *)
(* get_syscall_parameter(), the word after the return address.             *)
get_args(n) == [nargs |-> n, at |-> regs.esp + 4 * off]
get_syscall_parameter == [nargs |-> REGS, at |-> regs.esp + 4]
Fetched(e) ==
    IF e.se_nargs \in {Spl, Fast} THEN get_syscall_parameter ELSE get_args(e.se_nargs)

Callable(nargs) == nargs \in 0 .. 7 \cup {Spl}
NoEntry == U
NoArgs == [nargs |-> 0, at |-> 0]
NoSelectors == [syscall |-> 0, sysisc |-> 0]

-----------------------------------------------------------------------------
Init ==
    /\ pers \in Personalities
    /\ regs = [eax |-> Bytes(0), esp |-> 0, cf |-> FALSE]
    /\ stk = Pushed(0, 0)
    /\ pc = "user" /\ ap = NoEntry /\ off = 0 /\ frames = << >>
    /\ sel = NoSelectors /\ args = NoArgs /\ res = 0

(* The program loads eax, pushes its words and takes the gate. *)
Lcall ==
    /\ pc = "user"
    /\ \E c \in Calls :
         /\ regs' = [regs EXCEPT !.eax = <<c.n, c.hi, 0, 0>>]
         /\ stk' = Pushed(c.lo1, c.hi1)
    /\ pc' = "handler"
    /\ UNCHANGED <<pers, ap, off, frames, sel, args, res>>

Select(table, sysno, o) ==
    IF sysno >= Len(table)
    THEN /\ set_error(iABI_errors(pers, -EINVAL))
         /\ res' = -EINVAL /\ args' = NoArgs
         /\ pc' = "unwind" /\ UNCHANGED <<ap, off>>
    ELSE /\ ap' = table[sysno + 1] /\ off' = o
         /\ pc' = "dispatch" /\ UNCHANGED <<regs, res, args>>

(* exec_domain->handler: ibcs_lcall7() and its copies. *)
lcall7 ==
    /\ pc = "handler"
    /\ Select(Tables[pers], regs.eax[1], 1)
    /\ UNCHANGED <<pers, stk, frames, sel>>

(* lcall7_dispatch() on a handler that returns its result. *)
dispatch_call ==
    /\ pc = "dispatch" /\ Callable(ap.se_nargs)
    /\ \E r \in Results : outcome(r) /\ res' = r
    /\ args' = Fetched(ap)
    /\ pc' = "unwind"
    /\ UNCHANGED <<pers, stk, ap, off, frames, sel>>

(* ... on an entry without a handler, or with a count that is no case. *)
dispatch_unimpl ==
    /\ pc = "dispatch" /\ ~Callable(ap.se_nargs) /\ ap.se_nargs # Fast
    /\ outcome(-ENOSYS) /\ res' = -ENOSYS
    /\ pc' = "unwind"
    /\ UNCHANGED <<pers, stk, ap, off, frames, sel, args>>

(* ... on a Fast handler that sets the registers itself: svr4_shmsys() and *)
(* abi_sigfunc(), which return no restart code.                            *)
dispatch_fast ==
    /\ pc = "dispatch" /\ ap.se_nargs = Fast
    /\ ap.se_syscall \notin SubDispatchers \cup {Indirect}
    /\ \E r \in Results :
         /\ r > -255 /\ res' = r
         /\ IF r < 0 THEN set_error(iABI_errors(pers, -r)) ELSE set_result(r)
    /\ args' = Fetched(ap)
    /\ pc' = "unwind"
    /\ UNCHANGED <<pers, stk, ap, off, frames, sel>>

(* lcall7_syscall(): the number is the first word; the frame is moved and  *)
(* the personality's handler called again.                                 *)
SyscallStep == 1
lcall7_syscall ==
    /\ pc = "dispatch" /\ ap.se_syscall = Indirect
    /\ regs' = [regs EXCEPT !.eax = UserWord(regs.esp + 4), !.esp = @ + SyscallStep]
    /\ frames' = Append(frames, ap) /\ sel' = [sel EXCEPT !.syscall = @ + 1]
    /\ pc' = "handler"
    /\ UNCHANGED <<pers, stk, ap, off, args, res>>

(* cxenix(), wyse_class_nfs() and wyse_class_tcp() select by eax >> 8, and *)
(* isc_sysisc() by the first word.                                         *)
sub_dispatch ==
    /\ pc = "dispatch" /\ ap.se_syscall \in SubDispatchers
    /\ frames' = Append(frames, ap)
    /\ IF ap.se_syscall = "isc_sysisc"
       THEN /\ Select(SubTable(ap.se_syscall), Low(UserWord(regs.esp + 4)), 2)
            /\ sel' = [sel EXCEPT !.sysisc = @ + 1]
       ELSE /\ Select(SubTable(ap.se_syscall), ShiftRight8(regs.eax), 1)
            /\ UNCHANGED sel
    /\ UNCHANGED <<pers, stk>>

(* The inner dispatch is over: lcall7_syscall() moves esp back, and the    *)
(* outer lcall7_dispatch() leaves the registers as a Fast handler set them *)
(* and would report the handler's own 0 otherwise.                         *)
RegsAreSet(nargs) == nargs = Fast
StepBack(h) == IF h = Indirect THEN SyscallStep ELSE 0
return_from_fast ==
    /\ pc = "unwind" /\ frames # << >>
    /\ LET e == frames[Len(frames)]
           esp == regs.esp - StepBack(e.se_syscall)
       IN  regs' = IF RegsAreSet(e.se_nargs)
                   THEN [regs EXCEPT !.esp = esp]
                   ELSE [eax |-> Bytes(0), esp |-> esp, cf |-> FALSE]
    /\ frames' = SubSeq(frames, 1, Len(frames) - 1)
    /\ UNCHANGED <<pers, stk, pc, ap, off, sel, args, res>>

return_to_user ==
    /\ pc = "unwind" /\ frames = << >>
    /\ pc' = "user" /\ stk' = Pushed(0, 0) /\ ap' = NoEntry /\ off' = 0
    /\ sel' = NoSelectors /\ args' = NoArgs /\ res' = 0
    /\ UNCHANGED <<pers, regs, frames>>

Next ==
    \/ Lcall \/ lcall7 \/ dispatch_call \/ dispatch_unimpl \/ dispatch_fast
    \/ lcall7_syscall \/ sub_dispatch \/ return_from_fast \/ return_to_user

Spec == Init /\ [][Next]_vars

-----------------------------------------------------------------------------
TypeOK ==
    /\ pers \in Personalities
    /\ regs \in [eax : [1 .. 4 -> 0 .. 255], esp : 0 .. 8, cf : BOOLEAN]
    /\ pc \in {"user", "handler", "dispatch", "unwind"}
    /\ off \in 0 .. 2 /\ sel \in [syscall : 0 .. 8, sysisc : 0 .. 1] /\ res \in Int
    /\ args \in [nargs : -8 .. 8, at : Nat]

(* However deeply Fast handlers nest, the program gets back the innermost  *)
(* handler's result: a failure, restart codes included, is the carry flag  *)
(* and the personality's own errno for it; anything else is eax with the   *)
(* carry clear, and esp is where it was (lcall7_dispatch(),                *)
(* lcall7_syscall()).  A number past its table is reported as EPERM: the   *)
(* handlers translate -EINVAL, not EINVAL.                                 *)
ReportsTheInnermostResult ==
    pc = "unwind" /\ frames = << >> =>
        /\ regs.esp = 0
        /\ regs.cf <=> res \in -514 .. -1
        /\ regs.cf => \/ regs.eax = Bytes(iABI_errors(pers, -res))
                      \/ res = -EINVAL /\ args = NoArgs /\ regs.eax = Bytes(1)
        /\ regs.cf => regs.eax[1] # 0 /\ regs.eax[2] = 0
        /\ res \in -514 .. -512 => regs.eax = Bytes(EINTR)
        /\ ~regs.cf => regs.eax = Bytes(res)

(* A handler ran and its arguments are not the words the program pushed    *)
(* after the words that selected the call, or not passed as its prototype  *)
(* has them.                                                               *)
Misread ==
    /\ pc = "unwind" /\ args # NoArgs
    /\ \/ args.at # 4 * (1 + sel.syscall + sel.sysisc)
       \/ args.nargs # Prototype(ap.se_syscall)

(* The calls below get their arguments wrong: getpmsg and putpmsg take the *)
(* registers and are passed five words; Wyse's getsockname is passed the   *)
(* registers and takes three words; the sysisc sub-table's sigsuspend      *)
(* reads the selector for its argument.                                    *)
KnownMisreads ==
    {"svr4_getpmsg", "svr4_putpmsg", "abi_sigsuspend"} \cup
    (IF pers = "wyse" THEN {"sys_getsockname"} ELSE {})

(* Every other call made directly, through a sub-table or not, finds its   *)
(* arguments: entry, offset and prototype agree in all the tables          *)
(* (abi/*/sysent.c, lcall7_dispatch()'s off).                              *)
DirectCallsFindTheirArguments ==
    Misread => sel.syscall > 0 \/ ap.se_syscall \in KnownMisreads

(* lcall7.c:58 "This function implements syscall(2) in kernelspace for the *)
(* lcall7- based personalities.": the handler of syscall(n, ...) gets the  *)
(* words after n.                                                          *)
IndirectCallsFindTheirArguments ==
    Misread => sel.syscall = 0
=============================================================================
