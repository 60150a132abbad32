------------------------------ MODULE DupMmap ------------------------------
(***************************************************************************)
(* The memory of a new process (kernel/fork.c): dup_task_struct(), then    *)
(* copy_mm() without CLONE_VM, which copies the mm and, in dup_mmap(), one *)
(* area after the other, and undoes what it did when a step fails.  The    *)
(* caller has a sibling thread that maps and unmaps meanwhile, whenever    *)
(* mmap_sem is free; the child lives until exit_mmap().                    *)
(*                                                                         *)
(* An area has a length in pages, a file or 0, and its flags: "account",   *)
(* "dontcopy", "denywrite".  kmem_cache_alloc(), pgd_alloc(), mpol_copy(), *)
(* init_new_context() and copy_page_range() may fail at any time.          *)
(***************************************************************************)
EXTENDS Integers, Sequences, SequencesExt

CONSTANTS Areas,        \* the areas a process maps: [len, file, flags]
          MapFiles,     \* the files of areas
          MaxAreas,     \* bound: areas of the parent
          CommitLimit   \* pages that security_vm_enough_memory() grants

VARIABLES mmap,      \* the parent's areas, total_vm its count of their pages
          total_vm,
          child,     \* the areas of the new mm, and the count
          ctotal_vm,
          committed, \* the system's charged pages
          f_count,   \* references to the files
          denied,    \* times that writing to a file is denied: - i_writecount
          objs,      \* what the fork allocated: "tsk", "ti", "mm", "pgd"
          pc,
          rest,      \* areas still to be copied
          charge,    \* pages charged for an area that is not linked in
          raced      \* history: total_vm changed between the memcpy() and down_write()

parent == <<mmap, total_vm>>
system == <<committed, f_count, denied>>
vars == <<parent, child, ctotal_vm, system, objs, pc, rest, charge, raced>>

Pages(s) == FoldLeft(LAMBDA n, a : n + a.len, 0, s)
Accounted(s) == Pages(SelectSeq(s, LAMBDA a : "account" \in a.flags))
Mapping(s, f) == Len(SelectSeq(s, LAMBDA a : a.file = f))
Denying(s, f) == Len(SelectSeq(s, LAMBDA a : a.file = f /\ "denywrite" \in a.flags))

Init ==
    /\ mmap \in {s \in SeqOf(Areas, 2) : Accounted(s) <= CommitLimit}
    /\ total_vm = Pages(mmap) /\ committed = Accounted(mmap)
    /\ f_count = [f \in MapFiles |-> 1 + Mapping(mmap, f)]
    /\ denied = [f \in MapFiles |-> Denying(mmap, f)]
    /\ child = << >> /\ ctotal_vm = 0 /\ objs = {}
    /\ pc = "user" /\ rest = << >> /\ charge = 0 /\ raced = FALSE

-----------------------------------------------------------------------------
(* The sibling: do_mmap() and do_munmap() under mmap_sem. *)
Locked == pc \in {"dup_mmap", "alloc", "policy", "link", "pages", "out", "out_failed"}
MapFile(F, D, a, n) ==
    /\ f_count' = [f \in MapFiles |-> IF f = a.file THEN F[f] + n ELSE F[f]]
    /\ denied' = [f \in MapFiles |-> IF f = a.file /\ "denywrite" \in a.flags THEN D[f] + n ELSE D[f]]
Charged(a) == IF "account" \in a.flags THEN a.len ELSE 0
do_mmap(a) ==
    /\ ~Locked /\ Len(mmap) < MaxAreas /\ committed + Charged(a) <= CommitLimit
    /\ mmap' = Append(mmap, a) /\ total_vm' = total_vm + a.len
    /\ committed' = committed + Charged(a) /\ MapFile(f_count, denied, a, 1)
    /\ raced' = (raced \/ pc \in {"mm_init", "context"})
    /\ UNCHANGED <<child, ctotal_vm, objs, pc, rest, charge>>
do_munmap ==
    /\ ~Locked /\ mmap # << >>
    /\ mmap' = Tail(mmap) /\ total_vm' = total_vm - Head(mmap).len
    /\ committed' = committed - Charged(Head(mmap)) /\ MapFile(f_count, denied, Head(mmap), -1)
    /\ raced' = (raced \/ pc \in {"mm_init", "context"})
    /\ UNCHANGED <<child, ctotal_vm, objs, pc, rest, charge>>

-----------------------------------------------------------------------------
Go(l) == pc' = l
Fails(freed) ==
    /\ objs' = objs \ freed /\ Go("user")
    /\ UNCHANGED <<parent, child, ctotal_vm, system, rest, charge, raced>>

(* dup_task_struct(); free_task() when copy_mm() fails. *)
dup_task_struct ==
    \/ /\ pc = "user" /\ objs' = {"tsk"} /\ Go("thread_info") /\ raced' = FALSE
       /\ UNCHANGED <<parent, child, ctotal_vm, system, rest, charge>>
    \/ /\ pc = "thread_info"
       /\ \/ Fails({"tsk"})
          \/ /\ objs' = objs \cup {"ti"} /\ Go("copy_mm")
             /\ UNCHANGED <<parent, child, ctotal_vm, system, rest, charge, raced>>
free_task == {"tsk", "ti"}

(* copy_mm(): allocate_mm() and memcpy(), mm_init(), init_new_context(). *)
copy_mm ==
    /\ pc = "copy_mm"
    /\ \/ Fails(free_task)
       \/ /\ objs' = objs \cup {"mm"} /\ ctotal_vm' = total_vm /\ Go("mm_init")
          /\ UNCHANGED <<parent, child, system, rest, charge, raced>>
mm_init ==
    /\ pc = "mm_init"
    /\ \/ Fails(free_task \cup {"mm"})
       \/ /\ objs' = objs \cup {"pgd"} /\ Go("context")
          /\ UNCHANGED <<parent, child, ctotal_vm, system, rest, charge, raced>>
init_new_context ==
    /\ pc = "context"
    /\ \/ Fails(free_task \cup {"mm", "pgd"})
       \/ /\ Go("dup_mmap") /\ rest' = mmap
          /\ UNCHANGED <<parent, child, ctotal_vm, system, objs, charge, raced>>

(* dup_mmap(): the next area is left out, or its pages are charged.        *)
dup_dontcopy ==
    /\ pc = "dup_mmap" /\ rest # << >> /\ "dontcopy" \in Head(rest).flags
    /\ ctotal_vm' = ctotal_vm - Head(rest).len /\ rest' = Tail(rest)
    /\ UNCHANGED <<parent, child, system, objs, pc, charge, raced>>
fail_nomem_kept == Go("out_failed") /\ charge' = 0 /\ UNCHANGED committed
fail_nomem == Go("out_failed") /\ committed' = committed - charge /\ charge' = 0
dup_charge ==
    /\ pc = "dup_mmap" /\ rest # << >> /\ "dontcopy" \notin Head(rest).flags
    /\ LET len == Charged(Head(rest))
       IN IF committed + len > CommitLimit THEN fail_nomem
          ELSE committed' = committed + len /\ charge' = len /\ Go("alloc")
    /\ UNCHANGED <<parent, child, ctotal_vm, f_count, denied, objs, rest, raced>>

(* The new area is allocated, and its policy copied. *)
dup_alloc ==
    /\ \/ pc = "alloc" /\ Go("policy") /\ UNCHANGED <<committed, charge>>
       \/ pc = "policy" /\ Go("link") /\ UNCHANGED <<committed, charge>>
       \/ pc \in {"alloc", "policy"} /\ fail_nomem
    /\ UNCHANGED <<parent, child, ctotal_vm, f_count, denied, objs, rest, raced>>

(* get_file(), and the area is linked in: from here exit_mmap() undoes it. *)
dup_link ==
    /\ pc = "link" /\ child' = Append(child, Head(rest)) /\ rest' = Tail(rest) /\ charge' = 0
    /\ MapFile(f_count, denied, Head(rest), 1) /\ Go("pages")
    /\ UNCHANGED <<parent, ctotal_vm, committed, objs, raced>>
copy_page_range ==
    /\ pc = "pages" /\ (Go("dup_mmap") \/ Go("out_failed"))
    /\ UNCHANGED <<parent, child, ctotal_vm, system, objs, rest, charge, raced>>

(* up_write(); the child has its memory, or mmput(). *)
out ==
    /\ pc = "dup_mmap" /\ rest = << >> /\ Go("child")
    /\ UNCHANGED <<parent, child, ctotal_vm, system, objs, rest, charge, raced>>
out_failed ==
    /\ pc = "out_failed" /\ Go("exit_mmap") /\ rest' = << >>
    /\ UNCHANGED <<parent, child, ctotal_vm, system, objs, charge, raced>>
exit_mmap ==
    /\ pc \in {"exit_mmap", "child"} /\ Go("user")
    /\ committed' = committed - Accounted(child)
    /\ f_count' = [f \in MapFiles |-> f_count[f] - Mapping(child, f)]
    /\ denied' = [f \in MapFiles |-> denied[f] - Denying(child, f)]
    /\ child' = << >> /\ ctotal_vm' = 0 /\ objs' = {}
    /\ UNCHANGED <<parent, rest, charge, raced>>

Next ==
    \/ (\E a \in Areas : do_mmap(a)) \/ do_munmap
    \/ dup_task_struct \/ copy_mm \/ mm_init \/ init_new_context
    \/ dup_dontcopy \/ dup_charge \/ dup_alloc \/ dup_link \/ copy_page_range
    \/ out \/ out_failed \/ exit_mmap

Spec == Init /\ [][Next]_vars

-----------------------------------------------------------------------------
TypeOK ==
    /\ committed \in 0 .. CommitLimit /\ charge \in 0 .. CommitLimit
    /\ \A f \in MapFiles : f_count[f] \in Nat /\ denied[f] \in Nat
    /\ objs \subseteq {"tsk", "ti", "mm", "pgd"} /\ raced \in BOOLEAN

(* At every step the charged pages are those of the areas of both          *)
(* processes and of the area being copied, wherever dup_mmap() failed: a   *)
(* charge is taken back once, by fail_nomem or by exit_mmap().             *)
ChargesAreOwed == committed = Accounted(mmap) + Accounted(child) + charge

(* A file has one reference, and one denied writer, for each area of a     *)
(* process that maps it so, besides its descriptor's.                      *)
MappedFilesAreCounted ==
    \A f \in MapFiles : /\ f_count[f] = 1 + Mapping(mmap, f) + Mapping(child, f)
                        /\ denied[f] = Denying(mmap, f) + Denying(child, f)

(* The child's total_vm is the size of the areas it got.  copy_mm() takes  *)
(* the parent's count before dup_mmap() locks mmap_sem: a thread that maps *)
(* in between makes it wrong.                                              *)
ChildSizeIsItsOwn == (pc = "child" /\ ~raced) => ctotal_vm = Pages(child)

(* A fork that failed, at whatever step, has freed what it allocated. *)
FailedForkFreesAll == pc = "user" => (objs = {} /\ child = << >> /\ charge = 0)
=============================================================================
