----------------------------- MODULE BinfmtExec -----------------------------
(***************************************************************************)
(* execve(2) and uselib(2): the list of binary formats of fs/exec.c, the   *)
(* walk over it that runs a loader with binfmt_lock released, and the COFF *)
(* and x.out loaders (fs/binfmt_coff.c, fs/binfmt_xout.c), each of which   *)
(* is built in or a module that comes and goes under the walk.             *)
(*                                                                         *)
(* A step is a section under binfmt_lock, or a stretch of a loader between *)
(* two calls that can fail.  The files are abstracted to the format that   *)
(* recognises them; every allocation, read and mapping may fail.           *)
(***************************************************************************)
EXTENDS Integers, FiniteSets, Sequences

CONSTANTS
    Tasks,
    Coff, Xout, Elf,    \* the formats
    Mods,               \* those that are built as modules
    NoFmt,
    Images,             \* what files are executed: formats, or Junk
    Junk,               \* a file no format recognises
    MaxLibs             \* the most shared libraries a COFF file names

Formats == {Coff, Xout, Elf}
BuiltIn == Formats \ Mods

ASSUME BinfmtAssumption ==
    /\ IsFiniteSet(Tasks)
    /\ Coff # Xout /\ Elf \notin {Coff, Xout} /\ NoFmt \notin Formats
    /\ Junk \notin Formats \cup {NoFmt}
    /\ Mods \subseteq {Coff, Xout}
    /\ Images \subseteq Formats \cup {Junk} /\ MaxLibs \in Nat

VARIABLES
    mstate,     \* external: the state of each module
    mref,       \* external: its reference count
    formats,    \* the list of registered formats
    binfmt,     \* current->binfmt, NoFmt for a task that is not there
    pc,
    image,      \* the file of the exec in progress, or of the last one
    cur,        \* fmt of search_binary_handler: pinned while it is set
    lib,        \* fmt of sys_uselib: pinned while it is set
    try,
    retval,     \* of the loader, then of execve
    status,     \* of coff_load_object, FALSE once it is negative
    libs,       \* the libraries still to load
    held,       \* what the last exec has allocated and not released
    space,      \* it runs on the address space from before, or a new one
    filled,     \* what is in it: the "old" program, "none", "zero" pages, the "file"
    segv        \* the loader sent SIGSEGV

modVars  == <<mstate, mref, formats>>
walkVars == <<cur, try>>
memVars  == <<space, filled>>
vars == <<mstate, mref, formats, binfmt, pc, image, cur, lib, try, retval, status,
          libs, held, space, filled, segv>>

PCs == {"none", "user", "walk", "load", "coff", "coff_args", "coff_map", "coff_libs",
        "lib_walk", "lib_load", "coff_done", "xout", "xout_map", "success", "fail"}
Resources == {"bprm", "file", "mm", "fd", "buf", "seglist"}

(* The formats that are registered.                                        *)
Listed == {formats[i] : i \in DOMAIN formats}

(* A format is linked into the list once: its next pointer is one field.   *)
ListedOnce == \A i, j \in DOMAIN formats : formats[i] = formats[j] => i = j

(* The built-in formats are on the list, in the order of their initcalls.  *)
Init ==
    /\ mstate = [m \in Mods |-> "absent"] /\ mref = [m \in Mods |-> 0]
    /\ formats \in [1 .. Cardinality(BuiltIn) -> BuiltIn] /\ ListedOnce
    /\ \E t0 \in Tasks :
          /\ pc = [t \in Tasks |-> IF t = t0 THEN "user" ELSE "none"]
          /\ binfmt = [t \in Tasks |-> IF t = t0 THEN Elf ELSE NoFmt]
    /\ image = [t \in Tasks |-> Elf]
    /\ cur = [t \in Tasks |-> NoFmt] /\ lib = [t \in Tasks |-> NoFmt]
    /\ try = [t \in Tasks |-> 0] /\ libs = [t \in Tasks |-> 0]
    /\ retval = [t \in Tasks |-> "OK"] /\ status = [t \in Tasks |-> TRUE]
    /\ held = [t \in Tasks |-> {}]
    /\ space = [t \in Tasks |-> "new"] /\ filled = [t \in Tasks |-> "file"]
    /\ segv = [t \in Tasks |-> FALSE]

-----------------------------------------------------------------------------
(* The module loader, external, and the init and exit of the two modules.  *)

(* try_module_get() and module_put(); a built-in format has no module.     *)
try_module_get(f) == f \in Mods => mstate[f] \in {"coming", "live"}
Got(f) == IF f \in Mods THEN [mref EXCEPT ![f] = @ + 1] ELSE mref
Put(f) == IF f \in Mods THEN [mref EXCEPT ![f] = @ - 1] ELSE mref
PutGot(f, g) == [m \in Mods |-> mref[m] + (IF m = g THEN 1 ELSE 0) - (IF m = f THEN 1 ELSE 0)]

taskVars == <<binfmt, pc, image, cur, lib, try, retval, status, libs, held, space, filled, segv>>

LoadModule(m) ==
    /\ mstate[m] = "absent"
    /\ mstate' = [mstate EXCEPT ![m] = "coming"]
    /\ mref' = [mref EXCEPT ![m] = 1]
    /\ UNCHANGED <<formats, taskVars>>

(* The module's init: register_binfmt() puts the format first.  The struct *)
(* is fresh, so its next is NULL and it is not on the list.                *)
register_binfmt(m) ==
    /\ mstate[m] = "coming" /\ m \notin Listed
    /\ formats' = <<m>> \o formats
    /\ UNCHANGED <<mstate, mref, taskVars>>

ModuleLive(m) ==
    /\ mstate[m] = "coming" /\ m \in Listed
    /\ mstate' = [mstate EXCEPT ![m] = "live"]
    /\ mref' = [mref EXCEPT ![m] = @ - 1]
    /\ UNCHANGED <<formats, taskVars>>

DeleteModule(m) ==
    /\ mstate[m] = "live" /\ mref[m] = 0
    /\ mstate' = [mstate EXCEPT ![m] = "going"]
    /\ UNCHANGED <<mref, formats, taskVars>>

(* The place of a format on the list, 0 for the start of a walk.           *)
Place(f) == IF f = NoFmt THEN 0 ELSE CHOOSE i \in DOMAIN formats : formats[i] = f

(* The module's exit unlinks the format, then its memory is freed.         *)
unregister_binfmt(m) ==
    /\ mstate[m] = "going" /\ m \in Listed
    /\ formats' = [i \in 1 .. Len(formats) - 1 |-> formats[IF i < Place(m) THEN i ELSE i + 1]]
    /\ mstate' = [mstate EXCEPT ![m] = "absent"]
    /\ UNCHANGED <<mref, taskVars>>

ModStep(m) ==
    \/ LoadModule(m) \/ register_binfmt(m) \/ ModuleLive(m)
    \/ DeleteModule(m) \/ unregister_binfmt(m)

-----------------------------------------------------------------------------
Set(f, t, v) == [f EXCEPT ![t] = v]
Goto(t, l) == pc' = Set(pc, t, l)

(* do_execve() up to search_binary_handler().  A failure on the way        *)
(* releases what was allocated, and nothing has changed.                   *)
do_execve(t) ==
    /\ pc[t] = "user" /\ ~segv[t]
    /\ \E i \in Images : image' = Set(image, t, i)
    /\ held' = Set(held, t, {"bprm", "file", "mm"})
    /\ space' = Set(space, t, "old") /\ filled' = Set(filled, t, "old")
    /\ cur' = Set(cur, t, NoFmt) /\ try' = Set(try, t, 0)
    /\ retval' = Set(retval, t, "ENOENT")
    /\ Goto(t, "walk")
    /\ UNCHANGED <<modVars, binfmt, lib, status, libs, segv>>

Ahead_unpinned(f) == {i \in DOMAIN formats : i > Place(f)}

(* Where on the list a walk still has formats before it after f, the ones  *)
(* with a module on its way out left out.                                  *)
Ahead(f) == {i \in DOMAIN formats : i > Place(f) /\ try_module_get(formats[i])}

(* The format the walk takes next, NoFmt at the end of the list.           *)
NextFormat(f) ==
    IF Ahead(f) = {} THEN NoFmt
    ELSE formats[CHOOSE i \in Ahead(f) : \A j \in Ahead(f) : i <= j]

(* search_binary_handler() has read_lock(&binfmt_lock).  It drops the      *)
(* format that failed, and gives up unless that answered ENOEXEC and the   *)
(* address space is still unused; else it pins and runs the next one.      *)
MayGoOn_any(t) == cur[t] = NoFmt \/ retval[t] = "ENOEXEC"
MayGoOn(t) == cur[t] = NoFmt \/ (retval[t] = "ENOEXEC" /\ "mm" \in held[t])

walk_next(t) ==
    /\ pc[t] = "walk" /\ MayGoOn(t) /\ NextFormat(cur[t]) # NoFmt
    /\ LET f == NextFormat(cur[t])
       IN  cur' = Set(cur, t, f) /\ mref' = PutGot(cur[t], f)
    /\ Goto(t, "load")
    /\ UNCHANGED <<mstate, formats, binfmt, image, lib, try, retval, status, libs, held,
                   memVars, segv>>

walk_end_again(t) ==
    /\ pc[t] = "walk" /\ MayGoOn(t) /\ NextFormat(cur[t]) = NoFmt
    /\ mref' = Put(cur[t])
    /\ cur' = Set(cur, t, NoFmt)
    /\ \/ retval[t] = "ENOEXEC" /\ try' = Set(try, t, 1) /\ UNCHANGED pc
       \/ Goto(t, "fail") /\ UNCHANGED try
    /\ UNCHANGED <<mstate, formats, binfmt, image, lib, retval, status, libs, held,
                   memVars, segv>>

(* The list is at its end: once, request_module() is called for a binary   *)
(* file and the walk starts again.  What is printable is no binary.        *)
walk_end(t) ==
    /\ pc[t] = "walk" /\ MayGoOn(t) /\ NextFormat(cur[t]) = NoFmt
    /\ mref' = Put(cur[t])
    /\ cur' = Set(cur, t, NoFmt)
    /\ \/ try[t] = 0 /\ retval[t] = "ENOEXEC" /\ try' = Set(try, t, 1) /\ UNCHANGED pc
       \/ Goto(t, "fail") /\ UNCHANGED try
    /\ UNCHANGED <<mstate, formats, binfmt, image, lib, retval, status, libs, held,
                   memVars, segv>>

walk_break(t) ==
    /\ pc[t] = "walk" /\ ~MayGoOn(t)
    /\ mref' = Put(cur[t])
    /\ cur' = Set(cur, t, NoFmt)
    /\ Goto(t, "fail")
    /\ UNCHANGED <<mstate, formats, binfmt, image, lib, try, retval, status, libs, held,
                   memVars, segv>>

(* A loader returns r to search_binary_handler().                          *)
LoaderReturns(t, r) ==
    /\ retval' = Set(retval, t, r)
    /\ Goto(t, IF r = "OK" THEN "success" ELSE "walk")

(* The local variables of the call are gone when it returns.               *)
LocalsGone(t) ==
    /\ try' = Set(try, t, 0) /\ status' = Set(status, t, TRUE) /\ libs' = Set(libs, t, 0)

(* A format succeeded: it is dropped, and execve returns to the program.   *)
exec_success(t) ==
    /\ pc[t] = "success"
    /\ mref' = Put(cur[t])
    /\ cur' = Set(cur, t, NoFmt)
    /\ held' = [held EXCEPT ![t] = @ \ {"file", "bprm"}]
    /\ LocalsGone(t)
    /\ Goto(t, "user")
    /\ UNCHANGED <<mstate, formats, binfmt, image, lib, retval, memVars, segv>>

(* None did: do_execve() releases the rest and returns the error.          *)
exec_fail(t) ==
    /\ pc[t] = "fail"
    /\ held' = [held EXCEPT ![t] = @ \ {"file", "bprm", "mm"}]
    /\ LocalsGone(t)
    /\ Goto(t, "user")
    /\ UNCHANGED <<modVars, binfmt, image, lib, cur, retval, memVars, segv>>

-----------------------------------------------------------------------------
(* The loaders.                                                            *)

loadFrame == <<modVars, image, lib, walkVars, libs>>

(* A format that does not recognise the file.                              *)
load_enoexec(t) ==
    /\ pc[t] = "load" /\ cur[t] # image[t]
    /\ LoaderReturns(t, "ENOEXEC")
    /\ UNCHANGED <<loadFrame, binfmt, status, held, memVars, segv>>

(* set_binfmt(), to a format that may be a module.                         *)
set_binfmt(t, f) ==
    IF try_module_get(f)
    THEN binfmt' = Set(binfmt, t, f) /\ mref' = PutGot(binfmt[t], f)
    ELSE UNCHANGED <<binfmt, mref>>

(* external: ELF loads the file, or rejects it before anything has changed.*)
load_elf(t) ==
    /\ pc[t] = "load" /\ cur[t] = Elf /\ image[t] = Elf
    /\ \/ /\ LoaderReturns(t, "OK")
          /\ set_binfmt(t, Elf)
          /\ held' = [held EXCEPT ![t] = @ \ {"mm"}]
          /\ space' = Set(space, t, "new") /\ filled' = Set(filled, t, "file")
       \/ LoaderReturns(t, "ERR") /\ UNCHANGED <<binfmt, mref, held, memVars>>
    /\ UNCHANGED <<mstate, formats, image, lib, walkVars, status, libs, segv>>

(* flush_old_exec() gives the task the new address space, and nothing has  *)
(* changed if it fails.                                                    *)
flush_old_exec(t) ==
    /\ space' = Set(space, t, "new") /\ filled' = Set(filled, t, "none")

(* coff_load_object(), from the magic number to the section headers and    *)
(* the descriptor for the file.                                            *)
coff_open(t) ==
    /\ pc[t] = "load" /\ cur[t] = Coff /\ image[t] = Coff
    /\ \/ /\ Goto(t, "coff")
          /\ held' = [held EXCEPT ![t] = @ \cup {"buf", "fd"}]
          /\ status' = Set(status, t, TRUE)
          /\ libs' \in {Set(libs, t, n) : n \in 0 .. MaxLibs}
          /\ UNCHANGED retval
       \/ LoaderReturns(t, "ERR") /\ UNCHANGED <<held, status, libs>>
    /\ UNCHANGED <<modVars, binfmt, image, lib, walkVars, memVars, segv>>

(* out_free_file: the descriptor and the section headers.                  *)
coff_out_no_close(t) == held[t] \ {"buf"}
coff_out(t) == held[t] \ {"buf", "fd"}

(* The sections and the optional header are wrong, or flush_old_exec()     *)
(* fails: nothing has happened to the process.                             *)
coff_reject(t) ==
    /\ pc[t] = "coff"
    /\ \E r \in {"ENOEXEC", "ERR"} : LoaderReturns(t, r)
    /\ held' = Set(held, t, coff_out(t))
    /\ UNCHANGED <<loadFrame, binfmt, status, memVars, segv>>

(* flush_old_exec() and set_personality(), whose result is not used.       *)
coff_flush(t) ==
    /\ pc[t] = "coff"
    /\ flush_old_exec(t)
    /\ held' = [held EXCEPT ![t] = @ \ {"mm"}]
    /\ Goto(t, "coff_args")
    /\ UNCHANGED <<loadFrame, binfmt, retval, status, segv>>

(* setup_arg_pages(): a failure goes to sigsegv.                           *)
coff_args(t) ==
    /\ pc[t] = "coff_args"
    /\ \/ Goto(t, "coff_map") /\ UNCHANGED <<retval, held, segv>>
       \/ /\ segv' = Set(segv, t, TRUE)
          /\ held' = Set(held, t, coff_out(t))
          /\ LoaderReturns(t, "OK")
    /\ UNCHANGED <<loadFrame, binfmt, status, memVars>>

(* Text, data and bss are mapped.  A failure returns through out_free_file,*)
(* without the signal.                                                     *)
coff_map(t) ==
    /\ pc[t] = "coff_map"
    /\ \/ Goto(t, "coff_libs") /\ UNCHANGED <<retval, held>>
       \/ /\ \E r \in {"ENOEXEC", "ERR"} : LoaderReturns(t, r)
          /\ held' = Set(held, t, coff_out(t))
    /\ UNCHANGED <<loadFrame, binfmt, status, memVars, segv>>

coff_preload_shlibs_past_end(t) ==
    /\ pc[t] = "coff_libs"
    /\ \/ /\ libs[t] >= 0 /\ status[t]
          /\ libs' = [libs EXCEPT ![t] = @ - 1]
          /\ Goto(t, "lib_walk")
          /\ UNCHANGED status
       \/ /\ libs[t] <= 0 \/ ~status[t]
          /\ Goto(t, "coff_done")
          /\ UNCHANGED <<libs, status>>
    /\ UNCHANGED <<modVars, binfmt, image, lib, walkVars, retval, held, memVars, segv>>

(* coff_preload_shlibs(): a library that is left is loaded with            *)
(* sys_uselib(); a bad library section is an error.                        *)
coff_preload_shlibs(t) ==
    /\ pc[t] = "coff_libs"
    /\ \/ /\ libs[t] > 0 /\ status[t]
          /\ libs' = [libs EXCEPT ![t] = @ - 1]
          /\ Goto(t, "lib_walk")
          /\ UNCHANGED status
       \/ /\ libs[t] > 0
          /\ status' = Set(status, t, FALSE)
          /\ Goto(t, "coff_done")
          /\ UNCHANGED libs
       \/ /\ libs[t] = 0 \/ ~status[t]
          /\ Goto(t, "coff_done")
          /\ UNCHANGED <<libs, status>>
    /\ UNCHANGED <<modVars, binfmt, image, lib, walkVars, retval, held, memVars, segv>>

(* The end of coff_load_object(): set_binfmt(), whose result is not used,  *)
(* and the trap.  The program is whole if its libraries are there.         *)
coff_done(t) ==
    /\ pc[t] = "coff_done"
    /\ set_binfmt(t, Coff)
    /\ segv' = [segv EXCEPT ![t] = @ \/ ~status[t]]
    /\ held' = Set(held, t, coff_out(t))
    /\ filled' = IF status[t] THEN Set(filled, t, "file") ELSE filled
    /\ LoaderReturns(t, "OK")
    /\ UNCHANGED <<mstate, formats, image, lib, walkVars, status, libs, space>>

(* xout_load_object() up to the point of no return.  A file without a data *)
(* segment goes out with the result of the read, which is no error.        *)
xout_open(t) ==
    /\ pc[t] = "load" /\ cur[t] = Xout /\ image[t] = Xout
    /\ \/ /\ Goto(t, "xout")
          /\ held' = [held EXCEPT ![t] = @ \cup {"seglist"}]
          /\ UNCHANGED retval
       \/ (\E r \in {"ERR", "OK"} : LoaderReturns(t, r)) /\ UNCHANGED held
    /\ UNCHANGED <<loadFrame, binfmt, status, memVars, segv>>

(* flush_old_exec(), whose result is not used, and setup_arg_pages(), whose*)
(* failure returns at once; then set_personality().                        *)
xout_flush(t) ==
    /\ pc[t] = "xout"
    /\ \/ flush_old_exec(t) /\ held' = [held EXCEPT ![t] = @ \ {"mm"}]
       \/ filled' = Set(filled, t, "none") /\ UNCHANGED <<space, held>>
    /\ \/ Goto(t, "xout_map") /\ UNCHANGED <<retval, segv>>
       \/ LoaderReturns(t, "ERR") /\ segv' = Set(segv, t, TRUE)
    /\ UNCHANGED <<loadFrame, binfmt, status>>

(* The segments are mapped.  A pageable file is mapped through fp, which is*)
(* NULL, and not read afterwards; another one is read.  An error traps.    *)
xout_map(t) ==
    /\ pc[t] = "xout_map"
    /\ \/ /\ \E c \in {"zero", "file"} : filled' = Set(filled, t, c)
          /\ UNCHANGED segv
       \/ segv' = Set(segv, t, TRUE) /\ UNCHANGED filled
    /\ held' = [held EXCEPT ![t] = @ \ {"seglist"}]
    /\ LoaderReturns(t, "OK")
    /\ UNCHANGED <<loadFrame, binfmt, status, space>>

-----------------------------------------------------------------------------
(* sys_uselib(), called by a program or by the COFF loader.                *)

sys_uselib(t) ==
    /\ pc[t] = "user" /\ ~segv[t]
    /\ Goto(t, "lib_walk")
    /\ status' = Set(status, t, TRUE)
    /\ UNCHANGED <<loadFrame, binfmt, retval, held, memVars, segv>>

LibReturns(t) == Goto(t, IF cur[t] = Coff THEN "coff_libs" ELSE "user")

libFrame == <<mstate, formats, binfmt, image, cur, try, retval, libs, held, memVars, segv>>

(* The next format that can load libraries is pinned and run; at the end   *)
(* of the list the file was no library.                                    *)
uselib_next(t) ==
    /\ pc[t] = "lib_walk"
    /\ LET f == NextFormat(lib[t])
       IN  /\ lib' = Set(lib, t, f) /\ mref' = PutGot(lib[t], f)
           /\ IF f = NoFmt
              THEN LibReturns(t) /\ status' = Set(status, t, FALSE)
              ELSE Goto(t, "lib_load") /\ UNCHANGED status
    /\ UNCHANGED libFrame

(* load_shlib() fails with ENOEXEC and the walk goes on ...                *)
load_shlib_enoexec(t) ==
    /\ pc[t] = "lib_load"
    /\ Goto(t, "lib_walk")
    /\ UNCHANGED <<libFrame, mref, lib, status>>

(* ... or loads the library, or fails: the format is dropped.  Whatever    *)
(* coff_load_object() took for a library it has released.                  *)
load_shlib(t) ==
    /\ pc[t] = "lib_load"
    /\ \E ok \in BOOLEAN : status' = Set(status, t, ok)
    /\ mref' = Put(lib[t])
    /\ lib' = Set(lib, t, NoFmt)
    /\ LibReturns(t)
    /\ UNCHANGED libFrame

(* copy_process() takes a reference on the binary format for the child.    *)
copy_process(t, u) ==
    /\ pc[t] = "user" /\ pc[u] = "none" /\ ~segv[t]
    /\ try_module_get(binfmt[t])
    /\ Goto(u, "user")
    /\ binfmt' = Set(binfmt, u, binfmt[t]) /\ mref' = Got(binfmt[t])
    /\ image' = Set(image, u, image[t]) /\ retval' = Set(retval, u, retval[t])
    /\ space' = Set(space, u, space[t]) /\ filled' = Set(filled, u, filled[t])
    /\ UNCHANGED <<mstate, formats, lib, walkVars, status, libs, held, segv>>

(* external: do_exit(), also of a task that gets SIGSEGV, drops the format.*)
do_exit(t) ==
    /\ pc[t] = "user"
    /\ Goto(t, "none")
    /\ binfmt' = Set(binfmt, t, NoFmt) /\ mref' = Put(binfmt[t])
    /\ image' = Set(image, t, Elf) /\ retval' = Set(retval, t, "OK")
    /\ LocalsGone(t) /\ held' = Set(held, t, {}) /\ segv' = Set(segv, t, FALSE)
    /\ space' = Set(space, t, "new") /\ filled' = Set(filled, t, "file")
    /\ UNCHANGED <<mstate, formats, cur, lib>>

-----------------------------------------------------------------------------
(* A task inside execve or uselib.                                         *)
KernelStep(t) ==
    \/ walk_next(t) \/ walk_end(t) \/ walk_break(t) \/ exec_success(t) \/ exec_fail(t)
    \/ load_enoexec(t) \/ load_elf(t)
    \/ coff_open(t) \/ coff_reject(t) \/ coff_flush(t) \/ coff_args(t) \/ coff_map(t)
    \/ coff_preload_shlibs(t) \/ coff_done(t)
    \/ xout_open(t) \/ xout_flush(t) \/ xout_map(t)
    \/ uselib_next(t) \/ load_shlib_enoexec(t) \/ load_shlib(t)

Next ==
    \/ \E m \in Mods : ModStep(m)
    \/ \E t \in Tasks : KernelStep(t) \/ do_execve(t) \/ sys_uselib(t) \/ do_exit(t)
    \/ \E t, u \in Tasks : copy_process(t, u)

Spec == Init /\ [][Next]_vars

(* A task in the kernel is scheduled again and again.                      *)
FairSpec == Spec /\ \A t \in Tasks : WF_vars(KernelStep(t))

-----------------------------------------------------------------------------
(* The types of the variables.                                             *)
TypeOK ==
    /\ mstate \in [Mods -> {"absent", "coming", "live", "going"}] /\ mref \in [Mods -> Nat]
    /\ formats \in Seq(Formats)
    /\ binfmt \in [Tasks -> Formats \cup {NoFmt}]
    /\ pc \in [Tasks -> PCs] /\ image \in [Tasks -> Formats \cup {Junk}]
    /\ cur \in [Tasks -> Formats \cup {NoFmt}] /\ lib \in [Tasks -> Formats \cup {NoFmt}]
    /\ try \in [Tasks -> {0, 1}] /\ libs \in [Tasks -> 0 .. MaxLibs]
    /\ retval \in [Tasks -> {"OK", "ENOENT", "ENOEXEC", "ERR"}]
    /\ status \in [Tasks -> BOOLEAN] /\ held \in [Tasks -> SUBSET Resources]
    /\ space \in [Tasks -> {"old", "new"}] /\ filled \in [Tasks -> {"old", "none", "zero", "file"}]
    /\ segv \in [Tasks -> BOOLEAN]

(* While a loader of search_binary_handler() or sys_uselib() runs without  *)
(* binfmt_lock, and until the walk has stepped past it, its format stays   *)
(* on the list and its module in memory, whatever modules come and go; and *)
(* so does the module of the format a task is tied to by set_binfmt().     *)
FormatsInUsePinned ==
    /\ \A t \in Tasks : {cur[t], lib[t]} \subseteq Listed \cup {NoFmt}
    /\ \A t \in Tasks : binfmt[t] \in Mods => mstate[binfmt[t]] \in {"coming", "live"}
    /\ Mods \cap Listed \subseteq {m \in Mods : mstate[m] # "absent"}
    /\ ListedOnce

(* How many tasks refer to a module through f.                             *)
Users(f, m) == Cardinality({t \in Tasks : f[t] = m})

(* No path through the walk, the loaders, nested library loads, fork and   *)
(* exit loses or invents a reference to a format's module.                 *)
FormatRefsExact ==
    \A m \in Mods : mref[m] = Users(binfmt, m) + Users(cur, m) + Users(lib, m)
                               + (IF mstate[m] = "coming" THEN 1 ELSE 0)

(* A format in use keeps its module, and the counts that see to it are     *)
(* exact (search_binary_handler(), sys_uselib(), set_binfmt()).            *)
FormatsAreHeld == FormatsInUsePinned /\ FormatRefsExact

(* Whatever fails in execve of an ELF or COFF file, the descriptor, the    *)
(* file, the buffers and the unused address space are released by the time *)
(* it returns.                                                             *)
ExecReleasesAll ==
    \A t \in Tasks : pc[t] = "user" /\ image[t] # Xout => held[t] = {}

(* When execve of an ELF or COFF file succeeds and no SIGSEGV is pending,  *)
(* the program is in the new address space and the task is tied to the     *)
(* format that loaded it, although the loader does not look at what        *)
(* set_binfmt() returns.                                                   *)
SuccessMeansLoaded ==
    \A t \in Tasks :
        pc[t] = "user" /\ retval[t] = "OK" /\ image[t] # Xout /\ ~segv[t] =>
            space[t] = "new" /\ filled[t] = "file" /\ binfmt[t] = image[t]

(* After a loader has given the task the new address space, a failure is   *)
(* final: no other format gets to see the binary (bprm->mm is gone).       *)
NoLoaderAfterFlush ==
    [][\A t \in Tasks : pc[t] = "walk" /\ "mm" \notin held[t] => pc'[t] # "load"]_vars

(* What execve() reports is what happened: a success is a loaded program,  *)
(* and a failure past flush_old_exec() is final.                           *)
ExecOutcome == []SuccessMeansLoaded /\ NoLoaderAfterFlush

(* Every execve and uselib returns: new formats come first on the list,    *)
(* where a walk no longer looks, and the list is searched twice at most.   *)
ExecReturns == \A t \in Tasks : (pc[t] # "user") ~> (pc[t] \in {"user", "none"})

-----------------------------------------------------------------------------
(* What comments of the loaders say.                                       *)

(* "The new process will trap out should something fail in the load        *)
(* sequence from this point onward": a task does not come back from        *)
(* coff_load_object() to an unfinished program without SIGSEGV.            *)
FailedLoadTraps ==
    \A t \in Tasks :
        pc[t] = "user" /\ image[t] = Coff /\ space[t] = "new" /\ filled[t] # "file" => segv[t]

(* "At this point the executable is committed to being defined or a        *)
(* segmentation violation will occur": an x.out file is in a new address   *)
(* space, or the task has SIGSEGV.                                         *)
CommittedOrTraps ==
    \A t \in Tasks :
        pc[t] = "user" /\ image[t] = Xout /\ filled[t] # "old" =>
            space[t] = "new" \/ segv[t]
=============================================================================
