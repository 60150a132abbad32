------------------------- MODULE BinfmtExec_proofs --------------------------
(***************************************************************************)
(* execve(2) and uselib(2) hold the formats they run and release what they *)
(* take: the properties of BinfmtExec, for every set of tasks and however  *)
(* the formats are built, in or as modules.  First the steps of the tasks  *)
(* one by one; then the counts, the steps of the modules, the inductive    *)
(* invariant and the theorems.                                             *)
(***************************************************************************)
EXTENDS BinfmtExec, FiniteSetTheorems, TLAPS

(* A call of sys_uselib() in the COFF loader, and one of the program.      *)
Nested(t) == pc[t] \in {"lib_walk", "lib_load"} /\ cur[t] = Coff
AtUser(t) == pc[t] = "user" \/ (pc[t] \in {"lib_walk", "lib_load"} /\ cur[t] = NoFmt)

(* The COFF loader past flush_old_exec().                                  *)
Flushed(t) == pc[t] \in {"coff_args", "coff_map", "coff_libs", "coff_done"} \/ Nested(t)

(* A module that somebody refers to is not on its way out, and one that is *)
(* live is on the list.                                                    *)
ModuleInv ==
    /\ \A t \in Tasks : \A f \in {binfmt[t], cur[t], lib[t]} \cap Mods :
          mstate[f] \in {"coming", "live"}
    /\ \A m \in Mods : mstate[m] \in {"live", "going"} => m \in Listed

(* What a task refers to at each point of the two calls.                   *)
WalkInv(t) ==
    /\ pc[t] \in {"none", "user", "fail"} => cur[t] = NoFmt
    /\ pc[t] \in {"lib_walk", "lib_load"} => cur[t] \in {NoFmt, Coff}
    /\ pc[t] \notin {"lib_walk", "lib_load"} => lib[t] = NoFmt
    /\ pc[t] = "coff" \/ Flushed(t) => cur[t] = Coff /\ image[t] = Coff
    /\ pc[t] \in {"load", "xout", "xout_map"} => cur[t] # NoFmt
    /\ pc[t] \in {"xout", "xout_map"} => image[t] = Xout
    /\ pc[t] \in {"walk", "fail"} => retval[t] # "OK"
    /\ pc[t] = "none" => held[t] = {} /\ binfmt[t] = NoFmt

(* What an exec of an ELF or COFF file holds, and that it goes back to the *)
(* walk from the start only with its address space unused.                 *)
HeldInv(t) ==
    /\ pc[t] = "walk" /\ cur[t] = NoFmt => "mm" \in held[t]
    /\ image[t] # Xout =>
          /\ AtUser(t) => held[t] = {}
          /\ pc[t] \in {"walk", "load", "fail"} => held[t] \subseteq {"bprm", "file", "mm"}
          /\ pc[t] = "coff" => held[t] \subseteq {"bprm", "file", "mm", "buf", "fd"}
          /\ Flushed(t) => held[t] \subseteq {"bprm", "file", "buf", "fd"}
          /\ pc[t] = "success" => held[t] \subseteq {"bprm", "file"}

(* What a call that succeeds has loaded.                                   *)
Loaded(t) == space[t] = "new" /\ filled[t] = "file" /\ binfmt[t] = image[t]
LoadInv(t) ==
    /\ Flushed(t) => space[t] = "new"
    /\ pc[t] = "success" \/ (AtUser(t) /\ retval[t] = "OK") =>
          image[t] = Xout \/ segv[t] \/ Loaded(t)

TaskInv == \A t \in Tasks : WalkInv(t) /\ HeldInv(t) /\ LoadInv(t)

(* The types of what belongs to the tasks.                                 *)
RetVals == {"OK", "ENOENT", "ENOEXEC", "ERR"}
TaskTypes ==
    /\ binfmt \in [Tasks -> Formats \cup {NoFmt}]
    /\ pc \in [Tasks -> PCs] /\ image \in [Tasks -> Formats \cup {Junk}]
    /\ cur \in [Tasks -> Formats \cup {NoFmt}] /\ lib \in [Tasks -> Formats \cup {NoFmt}]
    /\ try \in [Tasks -> {0, 1}] /\ libs \in [Tasks -> 0 .. MaxLibs]
    /\ retval \in [Tasks -> RetVals]
    /\ status \in [Tasks -> BOOLEAN] /\ held \in [Tasks -> SUBSET Resources]
    /\ space \in [Tasks -> {"old", "new"}] /\ filled \in [Tasks -> {"old", "none", "zero", "file"}]
    /\ segv \in [Tasks -> BOOLEAN]

(* The types of what a task has of its own.                                *)
LEMMA TypesOfTasks == TypeOK => TaskTypes
  BY Zenon DEF TypeOK, TaskTypes, RetVals

(* What one reference to a adds to the count of b.                         *)
One(a, b) == IF a = b THEN 1 ELSE 0

-----------------------------------------------------------------------------
(* put_binfmt() and try_module_get() alone, as an exchange of references.  *)
LEMMA PutGotIs ==
    ASSUME TypeOK, NEW f, NEW g
    PROVE  /\ PutGot(f, g) = [m \in Mods |-> mref[m] + One(g, m) - One(f, m)]
           /\ Put(f) = PutGot(f, NoFmt) /\ Got(f) = PutGot(NoFmt, f)
           /\ PutGot(f, f) = mref
<1>1. mref \in [Mods -> Int] /\ NoFmt \notin Mods
  BY BinfmtAssumption DEF TypeOK, Formats
<1>2. PutGot(f, g) = [m \in Mods |-> mref[m] + One(g, m) - One(f, m)]
  BY Zenon DEF PutGot, One
<1>3. Put(f) = PutGot(f, NoFmt)
  <2>1. CASE f \in Mods
    <3>1. Put(f) = [mref EXCEPT ![f] = @ - 1]
      BY <2>1, Zenon DEF Put
    <3>2. ASSUME NEW m \in Mods PROVE [mref EXCEPT ![f] = @ - 1][m] = PutGot(f, NoFmt)[m]
      BY <1>1, <2>1, <3>2 DEF PutGot
    <3>3. PutGot(f, NoFmt) = [m \in Mods |-> PutGot(f, NoFmt)[m]]
      BY Zenon DEF PutGot
    <3> QED BY <1>1, <3>1, <3>2, <3>3, Zenon
  <2>2. CASE f \notin Mods
    BY <1>1, <2>2 DEF PutGot, Put
  <2> QED BY Zenon, <2>1, <2>2
<1>4. Got(f) = PutGot(NoFmt, f)
  <2>1. CASE f \in Mods
    <3>1. Got(f) = [mref EXCEPT ![f] = @ + 1]
      BY <2>1, Zenon DEF Got
    <3>2. ASSUME NEW m \in Mods PROVE [mref EXCEPT ![f] = @ + 1][m] = PutGot(NoFmt, f)[m]
      BY <1>1, <2>1, <3>2 DEF PutGot
    <3>3. PutGot(NoFmt, f) = [m \in Mods |-> PutGot(NoFmt, f)[m]]
      BY Zenon DEF PutGot
    <3> QED BY <1>1, <3>1, <3>2, <3>3, Zenon
  <2>2. CASE f \notin Mods
    BY <1>1, <2>2 DEF PutGot, Got
  <2> QED BY Zenon, <2>1, <2>2
<1>5. PutGot(f, f) = mref
  BY <1>1 DEF PutGot
<1>6. QED
  BY Zenon, <1>2, <1>3, <1>4, <1>5

(* The walk takes a format of the list whose module it could pin.          *)
LEMMA NextFormatIs ==
    ASSUME TypeOK, ListedOnce, NEW f
    PROVE  /\ NextFormat(f) \in Listed \cup {NoFmt} /\ NextFormat(f) \in Formats \cup {NoFmt}
           /\ NextFormat(f) \in Mods => mstate[NextFormat(f)] \in {"coming", "live"}
<1>1. formats \in Seq(Formats) /\ Len(formats) \in Nat /\ DOMAIN formats = 1 .. Len(formats)
  BY DEF TypeOK
<1>2. Len(formats) <= 3
  <2>1. SUFFICES ASSUME Len(formats) >= 4 PROVE FALSE
    BY <1>1
  <2>2. 1 \in DOMAIN formats /\ 2 \in DOMAIN formats /\ 3 \in DOMAIN formats /\ 4 \in DOMAIN formats
    BY <1>1, <2>1
  <2>3. \A i \in DOMAIN formats : formats[i] \in {Coff, Xout, Elf}
    BY <1>1 DEF Formats
  <2> QED BY <2>2, <2>3 DEF ListedOnce
<1>3. CASE Ahead(f) = {}
  BY <1>3, BinfmtAssumption, Zenon DEF NextFormat, Formats
<1>4. CASE Ahead(f) # {}
  <2>1. Ahead(f) \subseteq {1, 2, 3}
    BY <1>1, <1>2 DEF Ahead
  <2>2. \E i \in Ahead(f) : \A j \in Ahead(f) : i <= j
    BY <1>4, <2>1
  <2>3. PICK i \in Ahead(f) : NextFormat(f) = formats[i]
    BY <1>4, <2>2, Zenon DEF NextFormat
  <2>4. formats[i] \in Listed /\ formats[i] \in Formats /\ try_module_get(formats[i])
    BY <1>1 DEF Ahead, Listed
  <2> QED BY <2>3, <2>4, Zenon DEF try_module_get
<1>5. QED
  BY Zenon, <1>3, <1>4

(* A step of a task leaves the references alone, or exchanges one of its   *)
(* own for one to a format whose module is not on its way out, and which is*)
(* on the list if it is the walk that takes it.                            *)
OneReference(t) ==
    /\ UNCHANGED <<mstate, formats>>
    /\ \/ UNCHANGED <<mref, binfmt, cur, lib>>
       \/ \E v \in Formats \cup {NoFmt} :
             /\ v \in Mods => mstate[v] \in {"coming", "live"}
             /\ \/ /\ binfmt' = Set(binfmt, t, v) /\ mref' = PutGot(binfmt[t], v)
                   /\ UNCHANGED <<cur, lib>>
                \/ /\ v \in Listed \cup {NoFmt}
                   /\ cur' = Set(cur, t, v) /\ mref' = PutGot(cur[t], v)
                   /\ UNCHANGED <<binfmt, lib>>
                \/ /\ v \in Listed \cup {NoFmt}
                   /\ lib' = Set(lib, t, v) /\ mref' = PutGot(lib[t], v)
                   /\ UNCHANGED <<binfmt, cur>>

-----------------------------------------------------------------------------
(* What the invariant says of a task, and that it only looks at that task. *)
TaskOK(t) == WalkInv(t) /\ HeldInv(t) /\ LoadInv(t)
Untouched(u) ==
    /\ pc'[u] = pc[u] /\ cur'[u] = cur[u] /\ lib'[u] = lib[u] /\ image'[u] = image[u]
    /\ retval'[u] = retval[u] /\ held'[u] = held[u] /\ binfmt'[u] = binfmt[u]
    /\ space'[u] = space[u] /\ filled'[u] = filled[u] /\ segv'[u] = segv[u]

(* A step of t leaves the others alone, so only t has to be looked at.     *)
LEMMA OthersKeep ==
    ASSUME TaskInv, NEW t \in Tasks, TaskOK(t)', \A u \in Tasks \ {t} : Untouched(u)
    PROVE  TaskInv'
<1>1. ASSUME NEW u \in Tasks PROVE TaskOK(u)'
  <2>1. CASE u = t
    BY Zenon, <2>1
  <2>2. CASE u # t
    <3>1. TaskOK(u) /\ Untouched(u)
      BY <2>2, Zenon DEF TaskInv, TaskOK
    <3> QED BY <3>1 DEF TaskOK, Untouched, WalkInv, HeldInv, LoadInv, Flushed, Nested, AtUser,
                        Loaded
  <2> QED BY Zenon, <2>1, <2>2
<1>2. QED
  BY <1>1, Zenon DEF TaskInv, TaskOK

(* The COFF loader up to the point of no return.                           *)
LEMMA CoffOpens ==
    ASSUME TypeOK, ListedOnce, ModuleInv, TaskInv, NEW t \in Tasks,
           load_enoexec(t) \/ coff_open(t) \/ coff_reject(t)
    PROVE  OneReference(t) /\ TaskTypes' /\ TaskInv'
<1> SUFFICES ASSUME TaskTypes, WalkInv(t), HeldInv(t), LoadInv(t),
                    pc \in [Tasks -> PCs],
                    retval \in [Tasks -> RetVals],
                    status \in [Tasks -> BOOLEAN],
                    libs \in [Tasks -> 0 .. MaxLibs],
                    held \in [Tasks -> SUBSET Resources]
             PROVE  OneReference(t) /\ TaskTypes' /\ TaskInv'
  BY TypesOfTasks, Zenon DEF TaskInv, TaskTypes
<1> USE BinfmtAssumption DEF Set, Goto, LoaderReturns
<1>1. CASE load_enoexec(t)
  <2> USE <1>1
  <2>1. OneReference(t)
    BY Zenon DEF OneReference, load_enoexec, loadFrame, modVars, walkVars
  <2>2. /\ pc' \in [Tasks -> PCs]
        /\ retval' \in [Tasks -> RetVals]
    BY Zenon DEF load_enoexec, PCs, RetVals
  <2> UNCHANGED <<image, cur, lib, try, status, libs, held, binfmt, space, filled,
     segv>>
    BY Zenon DEF load_enoexec, loadFrame, modVars, walkVars, memVars
  <2>4. TaskTypes'
    BY <2>2, Zenon DEF TaskTypes
  <2>5. \A u \in Tasks \ {t} : Untouched(u)
    BY Zenon DEF Untouched, load_enoexec
  <2>6. TaskOK(t)'
    BY Zenon DEF TaskOK, WalkInv, HeldInv, LoadInv, Loaded, Flushed, Nested, AtUser, Formats,
       load_enoexec
  <2> QED BY Zenon, <2>1, <2>4, <2>5, <2>6, OthersKeep
<1>2. CASE coff_open(t)
  <2> USE <1>2
  <2>1. OneReference(t)
    BY Zenon DEF OneReference, coff_open, loadFrame, modVars, walkVars
  <2>2. /\ pc' \in [Tasks -> PCs]
        /\ retval' \in [Tasks -> RetVals]
        /\ held' \in [Tasks -> SUBSET Resources]
    BY DEF coff_open, PCs, RetVals, Resources
  <2>9. status' \in [Tasks -> BOOLEAN]
    BY Zenon DEF coff_open
  <2>10. libs' \in [Tasks -> 0 .. MaxLibs]
    BY DEF coff_open
  <2> UNCHANGED <<image, cur, lib, try, binfmt, space, filled, segv>>
    BY Zenon DEF coff_open, loadFrame, modVars, walkVars, memVars
  <2>4. TaskTypes'
    BY <2>2, <2>9, <2>10, Zenon DEF TaskTypes
  <2>5. \A u \in Tasks \ {t} : Untouched(u)
    BY Zenon DEF Untouched, coff_open
  <2>6. TaskOK(t)'
    BY DEF TaskOK, WalkInv, HeldInv, LoadInv, Loaded, Flushed, Nested, AtUser, Formats,
       coff_open
  <2> QED BY Zenon, <2>1, <2>4, <2>5, <2>6, OthersKeep
<1>3. CASE coff_reject(t)
  <2> USE <1>3
  <2>1. OneReference(t)
    BY Zenon DEF OneReference, coff_reject, loadFrame, modVars, walkVars
  <2>2. /\ pc' \in [Tasks -> PCs]
        /\ retval' \in [Tasks -> RetVals]
        /\ held' \in [Tasks -> SUBSET Resources]
    BY DEF coff_reject, coff_out, PCs, RetVals, Resources
  <2> UNCHANGED <<image, cur, lib, try, status, libs, binfmt, space, filled, segv>>
    BY Zenon DEF coff_reject, loadFrame, modVars, walkVars, memVars
  <2>4. TaskTypes'
    BY <2>2, Zenon DEF TaskTypes
  <2>5. \A u \in Tasks \ {t} : Untouched(u)
    BY Zenon DEF Untouched, coff_reject, coff_out
  <2>6. TaskOK(t)'
    BY DEF TaskOK, WalkInv, HeldInv, LoadInv, Loaded, Flushed, Nested, AtUser, Formats,
       coff_reject, coff_out
  <2> QED BY Zenon, <2>1, <2>4, <2>5, <2>6, OthersKeep
<1> QED BY Zenon, <1>1, <1>2, <1>3

(* The COFF loader after it.                                               *)
LEMMA CoffLoads ==
    ASSUME TypeOK, ListedOnce, ModuleInv, TaskInv, NEW t \in Tasks,
           coff_flush(t) \/ coff_args(t) \/ coff_map(t) \/ coff_preload_shlibs(t)
    PROVE  OneReference(t) /\ TaskTypes' /\ TaskInv'
<1> SUFFICES ASSUME TaskTypes, WalkInv(t), HeldInv(t), LoadInv(t),
                    pc \in [Tasks -> PCs],
                    retval \in [Tasks -> RetVals],
                    status \in [Tasks -> BOOLEAN],
                    libs \in [Tasks -> 0 .. MaxLibs],
                    held \in [Tasks -> SUBSET Resources],
                    space \in [Tasks -> {"old", "new"}],
                    filled \in [Tasks -> {"old", "none", "zero", "file"}],
                    segv \in [Tasks -> BOOLEAN]
             PROVE  OneReference(t) /\ TaskTypes' /\ TaskInv'
  BY TypesOfTasks, Zenon DEF TaskInv, TaskTypes
<1> USE BinfmtAssumption DEF Set, Goto, LoaderReturns
<1>1. CASE coff_flush(t)
  <2> USE <1>1
  <2>1. OneReference(t)
    BY Zenon DEF OneReference, coff_flush, loadFrame, modVars, walkVars
  <2>2. /\ pc' \in [Tasks -> PCs]
        /\ held' \in [Tasks -> SUBSET Resources]
        /\ space' \in [Tasks -> {"old", "new"}]
        /\ filled' \in [Tasks -> {"old", "none", "zero", "file"}]
    BY Zenon DEF coff_flush, flush_old_exec, PCs, Resources
  <2> UNCHANGED <<image, cur, lib, try, retval, status, libs, binfmt, segv>>
    BY Zenon DEF coff_flush, loadFrame, modVars, walkVars, memVars
  <2>4. TaskTypes'
    BY <2>2, Zenon DEF TaskTypes
  <2>5. \A u \in Tasks \ {t} : Untouched(u)
    BY Zenon DEF Untouched, coff_flush, flush_old_exec
  <2>6. TaskOK(t)'
    BY Zenon DEF TaskOK, WalkInv, HeldInv, LoadInv, Loaded, Flushed, Nested, AtUser, Formats,
       coff_flush, flush_old_exec
  <2> QED BY Zenon, <2>1, <2>4, <2>5, <2>6, OthersKeep
<1>2. CASE coff_args(t)
  <2> USE <1>2
  <2>1. OneReference(t)
    BY Zenon DEF OneReference, coff_args, loadFrame, modVars, walkVars
  <2>2. /\ pc' \in [Tasks -> PCs]
        /\ retval' \in [Tasks -> RetVals]
        /\ held' \in [Tasks -> SUBSET Resources]
    BY DEF coff_args, coff_out, PCs, RetVals, Resources
  <2>9. segv' \in [Tasks -> BOOLEAN]
    BY Zenon DEF coff_args, coff_out
  <2> UNCHANGED <<image, cur, lib, try, status, libs, binfmt, space, filled>>
    BY Zenon DEF coff_args, loadFrame, modVars, walkVars, memVars
  <2>4. TaskTypes'
    BY <2>2, <2>9, Zenon DEF TaskTypes
  <2>5. \A u \in Tasks \ {t} : Untouched(u)
    BY DEF Untouched, coff_args, coff_out
  <2>6. TaskOK(t)'
    BY DEF TaskOK, WalkInv, HeldInv, LoadInv, Loaded, Flushed, Nested, AtUser, Formats,
       coff_args, coff_out
  <2> QED BY Zenon, <2>1, <2>4, <2>5, <2>6, OthersKeep
<1>3. CASE coff_map(t)
  <2> USE <1>3
  <2>1. OneReference(t)
    BY Zenon DEF OneReference, coff_map, loadFrame, modVars, walkVars
  <2>2. /\ pc' \in [Tasks -> PCs]
        /\ retval' \in [Tasks -> RetVals]
        /\ held' \in [Tasks -> SUBSET Resources]
    BY DEF coff_map, coff_out, PCs, RetVals, Resources
  <2> UNCHANGED <<image, cur, lib, try, status, libs, binfmt, space, filled, segv>>
    BY Zenon DEF coff_map, loadFrame, modVars, walkVars, memVars
  <2>4. TaskTypes'
    BY <2>2, Zenon DEF TaskTypes
  <2>5. \A u \in Tasks \ {t} : Untouched(u)
    BY Zenon DEF Untouched, coff_map, coff_out
  <2>6. TaskOK(t)'
    BY DEF TaskOK, WalkInv, HeldInv, LoadInv, Loaded, Flushed, Nested, AtUser, Formats,
       coff_map, coff_out
  <2> QED BY Zenon, <2>1, <2>4, <2>5, <2>6, OthersKeep
<1>4. CASE coff_preload_shlibs(t)
  <2> USE <1>4
  <2>1. OneReference(t)
    BY Zenon DEF OneReference, coff_preload_shlibs, loadFrame, modVars, walkVars
  <2>2. pc' \in [Tasks -> PCs]
    BY DEF coff_preload_shlibs, PCs
  <2>9. status' \in [Tasks -> BOOLEAN]
    BY Zenon DEF coff_preload_shlibs
  <2>10. libs' \in [Tasks -> 0 .. MaxLibs]
    BY DEF coff_preload_shlibs
  <2> UNCHANGED <<image, cur, lib, try, retval, held, binfmt, space, filled, segv>>
    BY Zenon DEF coff_preload_shlibs, loadFrame, modVars, walkVars, memVars
  <2>4. TaskTypes'
    BY <2>2, <2>9, <2>10, Zenon DEF TaskTypes
  <2>5. \A u \in Tasks \ {t} : Untouched(u)
    BY Zenon DEF Untouched, coff_preload_shlibs
  <2>6. TaskOK(t)'
    BY DEF TaskOK, WalkInv, HeldInv, LoadInv, Loaded, Flushed, Nested, AtUser, Formats,
       coff_preload_shlibs
  <2> QED BY Zenon, <2>1, <2>4, <2>5, <2>6, OthersKeep
<1> QED BY Zenon, <1>1, <1>2, <1>3, <1>4

(* The x.out loader.                                                       *)
LEMMA XoutLoads ==
    ASSUME TypeOK, ListedOnce, ModuleInv, TaskInv, NEW t \in Tasks,
           xout_open(t) \/ xout_flush(t) \/ xout_map(t)
    PROVE  OneReference(t) /\ TaskTypes' /\ TaskInv'
<1> SUFFICES ASSUME TaskTypes, WalkInv(t), HeldInv(t), LoadInv(t),
                    pc \in [Tasks -> PCs],
                    retval \in [Tasks -> RetVals],
                    held \in [Tasks -> SUBSET Resources],
                    space \in [Tasks -> {"old", "new"}],
                    filled \in [Tasks -> {"old", "none", "zero", "file"}],
                    segv \in [Tasks -> BOOLEAN]
             PROVE  OneReference(t) /\ TaskTypes' /\ TaskInv'
  BY TypesOfTasks, Zenon DEF TaskInv, TaskTypes
<1> USE BinfmtAssumption DEF Set, Goto, LoaderReturns
<1>1. CASE xout_open(t)
  <2> USE <1>1
  <2>1. OneReference(t)
    BY Zenon DEF OneReference, xout_open, loadFrame, modVars, walkVars
  <2>2. /\ pc' \in [Tasks -> PCs]
        /\ retval' \in [Tasks -> RetVals]
        /\ held' \in [Tasks -> SUBSET Resources]
    BY DEF xout_open, PCs, RetVals, Resources
  <2> UNCHANGED <<image, cur, lib, try, status, libs, binfmt, space, filled, segv>>
    BY Zenon DEF xout_open, loadFrame, modVars, walkVars, memVars
  <2>4. TaskTypes'
    BY <2>2, Zenon DEF TaskTypes
  <2>5. \A u \in Tasks \ {t} : Untouched(u)
    BY Zenon DEF Untouched, xout_open
  <2>6. TaskOK(t)'
    BY DEF TaskOK, WalkInv, HeldInv, LoadInv, Loaded, Flushed, Nested, AtUser, Formats,
       xout_open
  <2> QED BY Zenon, <2>1, <2>4, <2>5, <2>6, OthersKeep
<1>2. CASE xout_flush(t)
  <2> USE <1>2
  <2>1. OneReference(t)
    BY Zenon DEF OneReference, xout_flush, loadFrame, modVars, walkVars
  <2>2. /\ pc' \in [Tasks -> PCs]
        /\ retval' \in [Tasks -> RetVals]
        /\ held' \in [Tasks -> SUBSET Resources]
        /\ space' \in [Tasks -> {"old", "new"}]
        /\ filled' \in [Tasks -> {"old", "none", "zero", "file"}]
    BY DEF xout_flush, flush_old_exec, PCs, RetVals, Resources
  <2>9. segv' \in [Tasks -> BOOLEAN]
    BY Zenon DEF xout_flush, flush_old_exec
  <2> UNCHANGED <<image, cur, lib, try, status, libs, binfmt>>
    BY Zenon DEF xout_flush, loadFrame, modVars, walkVars, memVars
  <2>4. TaskTypes'
    BY <2>2, <2>9, Zenon DEF TaskTypes
  <2>5. \A u \in Tasks \ {t} : Untouched(u)
    BY DEF Untouched, xout_flush, flush_old_exec
  <2>6. TaskOK(t)'
    BY DEF TaskOK, WalkInv, HeldInv, LoadInv, Loaded, Flushed, Nested, AtUser, Formats,
       xout_flush, flush_old_exec
  <2> QED BY Zenon, <2>1, <2>4, <2>5, <2>6, OthersKeep
<1>3. CASE xout_map(t)
  <2> USE <1>3
  <2>1. OneReference(t)
    BY Zenon DEF OneReference, xout_map, loadFrame, modVars, walkVars
  <2>2. /\ pc' \in [Tasks -> PCs]
        /\ retval' \in [Tasks -> RetVals]
        /\ held' \in [Tasks -> SUBSET Resources]
        /\ filled' \in [Tasks -> {"old", "none", "zero", "file"}]
    BY DEF xout_map, PCs, RetVals, Resources
  <2>9. segv' \in [Tasks -> BOOLEAN]
    BY Zenon DEF xout_map
  <2> UNCHANGED <<image, cur, lib, try, status, libs, binfmt, space>>
    BY Zenon DEF xout_map, loadFrame, modVars, walkVars, memVars
  <2>4. TaskTypes'
    BY <2>2, <2>9, Zenon DEF TaskTypes
  <2>5. \A u \in Tasks \ {t} : Untouched(u)
    BY Zenon DEF Untouched, xout_map
  <2>6. TaskOK(t)'
    BY Zenon DEF TaskOK, WalkInv, HeldInv, LoadInv, Loaded, Flushed, Nested, AtUser, Formats,
       xout_map
  <2> QED BY Zenon, <2>1, <2>4, <2>5, <2>6, OthersKeep
<1> QED BY Zenon, <1>1, <1>2, <1>3

(* The walk of search_binary_handler().                                    *)
LEMMA WalkSteps ==
    ASSUME TypeOK, ListedOnce, ModuleInv, TaskInv, NEW t \in Tasks,
           walk_next(t) \/ walk_end(t) \/ walk_break(t)
    PROVE  OneReference(t) /\ TaskTypes' /\ TaskInv'
<1> SUFFICES ASSUME TaskTypes, WalkInv(t), HeldInv(t), LoadInv(t),
                    pc \in [Tasks -> PCs],
                    cur \in [Tasks -> Formats \cup {NoFmt}],
                    try \in [Tasks -> {0, 1}]
             PROVE  OneReference(t) /\ TaskTypes' /\ TaskInv'
  BY TypesOfTasks, Zenon DEF TaskInv, TaskTypes
<1> USE BinfmtAssumption DEF Set, Goto, LoaderReturns
<1>1. CASE walk_next(t)
  <2> USE <1>1
  <2>0. NextFormat(cur[t]) \in Formats /\ NextFormat(cur[t]) # NoFmt
    BY NextFormatIs, Zenon DEF walk_next
  <2>1. OneReference(t)
    <3> DEFINE v == NextFormat(cur[t])
    <3>2. v \in Listed \cup {NoFmt} /\ v \in Formats \cup {NoFmt}
          /\ (v \in Mods => mstate[v] \in {"coming", "live"})
      BY Zenon, NextFormatIs
    <3>3. /\ cur' = Set(cur, t, v) /\ mref' = PutGot(cur[t], v)
          /\ UNCHANGED <<mstate, formats, binfmt, lib>>
      BY Zenon DEF walk_next
    <3> HIDE DEF v
    <3> QED BY <3>2, <3>3, Zenon DEF OneReference
  <2>2. pc' \in [Tasks -> PCs]
    BY Zenon DEF walk_next, MayGoOn, PCs
  <2>9. cur' \in [Tasks -> Formats \cup {NoFmt}]
    BY <2>0, Zenon DEF walk_next, MayGoOn
  <2> UNCHANGED <<image, lib, try, retval, status, libs, held, binfmt, space, filled,
     segv>>
    BY Zenon DEF walk_next, memVars
  <2>4. TaskTypes'
    BY <2>2, <2>9, Zenon DEF TaskTypes
  <2>5. \A u \in Tasks \ {t} : Untouched(u)
    BY Zenon DEF Untouched, walk_next, MayGoOn
  <2>6. TaskOK(t)'
    BY <2>0, Zenon DEF TaskOK, WalkInv, HeldInv, LoadInv, Loaded, Flushed, Nested, AtUser,
       Formats, walk_next, MayGoOn
  <2> QED BY Zenon, <2>1, <2>4, <2>5, <2>6, OthersKeep
<1>2. CASE walk_end(t)
  <2> USE <1>2
  <2>1. OneReference(t)
    <3>1. /\ cur' = Set(cur, t, NoFmt) /\ mref' = PutGot(cur[t], NoFmt)
          /\ UNCHANGED <<mstate, formats, binfmt, lib>>
      BY PutGotIs, Zenon DEF walk_end
    <3> QED BY <3>1, Zenon DEF OneReference, Formats
  <2>2. /\ pc' \in [Tasks -> PCs]
        /\ try' \in [Tasks -> {0, 1}]
    BY Zenon DEF walk_end, MayGoOn, PCs
  <2>9. cur' \in [Tasks -> Formats \cup {NoFmt}]
    BY Zenon DEF walk_end, MayGoOn
  <2> UNCHANGED <<image, lib, retval, status, libs, held, binfmt, space, filled, segv>>
    BY Zenon DEF walk_end, memVars
  <2>4. TaskTypes'
    BY <2>2, <2>9, Zenon DEF TaskTypes
  <2>5. \A u \in Tasks \ {t} : Untouched(u)
    BY Zenon DEF Untouched, walk_end, MayGoOn
  <2>6. TaskOK(t)'
    BY Zenon DEF TaskOK, WalkInv, HeldInv, LoadInv, Loaded, Flushed, Nested, AtUser, Formats,
       walk_end, MayGoOn
  <2> QED BY Zenon, <2>1, <2>4, <2>5, <2>6, OthersKeep
<1>3. CASE walk_break(t)
  <2> USE <1>3
  <2>1. OneReference(t)
    <3>1. /\ cur' = Set(cur, t, NoFmt) /\ mref' = PutGot(cur[t], NoFmt)
          /\ UNCHANGED <<mstate, formats, binfmt, lib>>
      BY PutGotIs, Zenon DEF walk_break
    <3> QED BY <3>1, Zenon DEF OneReference, Formats
  <2>2. pc' \in [Tasks -> PCs]
    BY Zenon DEF walk_break, MayGoOn, PCs
  <2>9. cur' \in [Tasks -> Formats \cup {NoFmt}]
    BY Zenon DEF walk_break, MayGoOn
  <2> UNCHANGED <<image, lib, try, retval, status, libs, held, binfmt, space, filled,
     segv>>
    BY Zenon DEF walk_break, memVars
  <2>4. TaskTypes'
    BY <2>2, <2>9, Zenon DEF TaskTypes
  <2>5. \A u \in Tasks \ {t} : Untouched(u)
    BY Zenon DEF Untouched, walk_break, MayGoOn
  <2>6. TaskOK(t)'
    BY Zenon DEF TaskOK, WalkInv, HeldInv, LoadInv, Loaded, Flushed, Nested, AtUser, Formats,
       walk_break, MayGoOn
  <2> QED BY Zenon, <2>1, <2>4, <2>5, <2>6, OthersKeep
<1> QED BY Zenon, <1>1, <1>2, <1>3

(* The calls and returns of execve().                                      *)
LEMMA ExecReturnSteps ==
    ASSUME TypeOK, ListedOnce, ModuleInv, TaskInv, NEW t \in Tasks,
           do_execve(t) \/ exec_success(t) \/ exec_fail(t) \/ do_exit(t)
    PROVE  OneReference(t) /\ TaskTypes' /\ TaskInv'
<1> SUFFICES ASSUME TaskTypes, WalkInv(t), HeldInv(t), LoadInv(t),
                    pc \in [Tasks -> PCs],
                    image \in [Tasks -> Formats \cup {Junk}],
                    cur \in [Tasks -> Formats \cup {NoFmt}],
                    try \in [Tasks -> {0, 1}],
                    retval \in [Tasks -> RetVals],
                    status \in [Tasks -> BOOLEAN],
                    libs \in [Tasks -> 0 .. MaxLibs],
                    held \in [Tasks -> SUBSET Resources],
                    binfmt \in [Tasks -> Formats \cup {NoFmt}],
                    space \in [Tasks -> {"old", "new"}],
                    filled \in [Tasks -> {"old", "none", "zero", "file"}],
                    segv \in [Tasks -> BOOLEAN]
             PROVE  OneReference(t) /\ TaskTypes' /\ TaskInv'
  BY TypesOfTasks, Zenon DEF TaskInv, TaskTypes
<1> USE BinfmtAssumption DEF Set, Goto, LoaderReturns
<1>1. CASE do_execve(t)
  <2> USE <1>1
  <2>1. OneReference(t)
    <3>1. cur[t] = NoFmt
      BY Zenon DEF do_execve, WalkInv
    <3>2. /\ cur' = Set(cur, t, NoFmt) /\ mref' = PutGot(cur[t], NoFmt)
          /\ UNCHANGED <<mstate, formats, binfmt, lib>>
      BY <3>1, PutGotIs, Zenon DEF do_execve, modVars
    <3> QED BY <3>2, Zenon DEF OneReference, Formats
  <2>2. /\ pc' \in [Tasks -> PCs]
        /\ image' \in [Tasks -> Formats \cup {Junk}]
        /\ try' \in [Tasks -> {0, 1}]
        /\ retval' \in [Tasks -> RetVals]
        /\ held' \in [Tasks -> SUBSET Resources]
        /\ space' \in [Tasks -> {"old", "new"}]
        /\ filled' \in [Tasks -> {"old", "none", "zero", "file"}]
    BY DEF do_execve, PCs, Formats, RetVals, Resources
  <2>9. cur' \in [Tasks -> Formats \cup {NoFmt}]
    BY Zenon DEF do_execve
  <2> UNCHANGED <<lib, status, libs, binfmt, segv>>
    BY Zenon DEF do_execve, modVars
  <2>4. TaskTypes'
    BY <2>2, <2>9, Zenon DEF TaskTypes
  <2>5. \A u \in Tasks \ {t} : Untouched(u)
    BY Zenon DEF Untouched, do_execve
  <2>6. TaskOK(t)'
    BY Zenon DEF TaskOK, WalkInv, HeldInv, LoadInv, Loaded, Flushed, Nested, AtUser, Formats,
       do_execve
  <2> QED BY Zenon, <2>1, <2>4, <2>5, <2>6, OthersKeep
<1>2. CASE exec_success(t)
  <2> USE <1>2
  <2>1. OneReference(t)
    <3>1. /\ cur' = Set(cur, t, NoFmt) /\ mref' = PutGot(cur[t], NoFmt)
          /\ UNCHANGED <<mstate, formats, binfmt, lib>>
      BY PutGotIs, Zenon DEF exec_success
    <3> QED BY <3>1, Zenon DEF OneReference, Formats
  <2>2. /\ pc' \in [Tasks -> PCs]
        /\ try' \in [Tasks -> {0, 1}]
        /\ held' \in [Tasks -> SUBSET Resources]
    BY Zenon DEF exec_success, LocalsGone, PCs, Resources
  <2>9. status' \in [Tasks -> BOOLEAN]
    BY Zenon DEF exec_success, LocalsGone
  <2>10. libs' \in [Tasks -> 0 .. MaxLibs]
    BY DEF exec_success, LocalsGone
  <2>11. cur' \in [Tasks -> Formats \cup {NoFmt}]
    BY Zenon DEF exec_success, LocalsGone
  <2> UNCHANGED <<image, lib, retval, binfmt, space, filled, segv>>
    BY Zenon DEF exec_success, memVars
  <2>4. TaskTypes'
    BY <2>2, <2>9, <2>10, <2>11, Zenon DEF TaskTypes
  <2>5. \A u \in Tasks \ {t} : Untouched(u)
    BY Zenon DEF Untouched, exec_success, LocalsGone
  <2>6. TaskOK(t)'
    BY Zenon DEF TaskOK, WalkInv, HeldInv, LoadInv, Loaded, Flushed, Nested, AtUser, Formats,
       exec_success, LocalsGone
  <2> QED BY Zenon, <2>1, <2>4, <2>5, <2>6, OthersKeep
<1>3. CASE exec_fail(t)
  <2> USE <1>3
  <2>1. OneReference(t)
    BY Zenon DEF OneReference, exec_fail, modVars
  <2>2. /\ pc' \in [Tasks -> PCs]
        /\ try' \in [Tasks -> {0, 1}]
        /\ held' \in [Tasks -> SUBSET Resources]
    BY Zenon DEF exec_fail, LocalsGone, PCs, Resources
  <2>9. status' \in [Tasks -> BOOLEAN]
    BY Zenon DEF exec_fail, LocalsGone
  <2>10. libs' \in [Tasks -> 0 .. MaxLibs]
    BY DEF exec_fail, LocalsGone
  <2> UNCHANGED <<image, cur, lib, retval, binfmt, space, filled, segv>>
    BY Zenon DEF exec_fail, modVars, memVars
  <2>4. TaskTypes'
    BY <2>2, <2>9, <2>10, Zenon DEF TaskTypes
  <2>5. \A u \in Tasks \ {t} : Untouched(u)
    BY Zenon DEF Untouched, exec_fail, LocalsGone
  <2>6. TaskOK(t)'
    BY Zenon DEF TaskOK, WalkInv, HeldInv, LoadInv, Loaded, Flushed, Nested, AtUser, Formats,
       exec_fail, LocalsGone
  <2> QED BY Zenon, <2>1, <2>4, <2>5, <2>6, OthersKeep
<1>4. CASE do_exit(t)
  <2> USE <1>4
  <2>1. OneReference(t)
    <3>1. /\ binfmt' = Set(binfmt, t, NoFmt) /\ mref' = PutGot(binfmt[t], NoFmt)
          /\ UNCHANGED <<mstate, formats, cur, lib>>
      BY PutGotIs, Zenon DEF do_exit
    <3> QED BY <3>1, Zenon DEF OneReference, Formats
  <2>2. /\ pc' \in [Tasks -> PCs]
        /\ image' \in [Tasks -> Formats \cup {Junk}]
        /\ try' \in [Tasks -> {0, 1}]
        /\ retval' \in [Tasks -> RetVals]
        /\ held' \in [Tasks -> SUBSET Resources]
        /\ space' \in [Tasks -> {"old", "new"}]
        /\ filled' \in [Tasks -> {"old", "none", "zero", "file"}]
    BY Zenon DEF do_exit, LocalsGone, PCs, Formats, RetVals, Resources
  <2>9. status' \in [Tasks -> BOOLEAN]
    BY Zenon DEF do_exit, LocalsGone
  <2>10. libs' \in [Tasks -> 0 .. MaxLibs]
    BY DEF do_exit, LocalsGone
  <2>11. segv' \in [Tasks -> BOOLEAN]
    BY Zenon DEF do_exit, LocalsGone
  <2>12. binfmt' \in [Tasks -> Formats \cup {NoFmt}]
    BY Zenon DEF do_exit, LocalsGone, Formats
  <2> UNCHANGED <<cur, lib>>
    BY Zenon DEF do_exit
  <2>4. TaskTypes'
    BY <2>2, <2>9, <2>10, <2>11, <2>12, Zenon DEF TaskTypes
  <2>5. \A u \in Tasks \ {t} : Untouched(u)
    BY Zenon DEF Untouched, do_exit, LocalsGone
  <2>6. TaskOK(t)'
    BY Zenon DEF TaskOK, WalkInv, HeldInv, LoadInv, Loaded, Flushed, Nested, AtUser, Formats,
       do_exit, LocalsGone
  <2> QED BY Zenon, <2>1, <2>4, <2>5, <2>6, OthersKeep
<1> QED BY Zenon, <1>1, <1>2, <1>3, <1>4

(* The loaders that end in set_binfmt().                                   *)
LEMMA TiesToFormat ==
    ASSUME TypeOK, ListedOnce, ModuleInv, TaskInv, NEW t \in Tasks,
           load_elf(t) \/ coff_done(t)
    PROVE  OneReference(t) /\ TaskTypes' /\ TaskInv'
<1> SUFFICES ASSUME TaskTypes, WalkInv(t), HeldInv(t), LoadInv(t),
                    pc \in [Tasks -> PCs],
                    retval \in [Tasks -> RetVals],
                    held \in [Tasks -> SUBSET Resources],
                    binfmt \in [Tasks -> Formats \cup {NoFmt}],
                    space \in [Tasks -> {"old", "new"}],
                    filled \in [Tasks -> {"old", "none", "zero", "file"}],
                    segv \in [Tasks -> BOOLEAN]
             PROVE  OneReference(t) /\ TaskTypes' /\ TaskInv'
  BY TypesOfTasks, Zenon DEF TaskInv, TaskTypes
<1> USE BinfmtAssumption DEF Set, Goto, LoaderReturns
<1>1. CASE load_elf(t)
  <2> USE <1>1
  <2>0. /\ pc[t] = "load" /\ cur[t] = Elf /\ image[t] = Elf
        /\ \/ /\ binfmt' = Set(binfmt, t, Elf) /\ mref' = PutGot(binfmt[t], Elf)
              /\ binfmt'[t] = Elf /\ pc'[t] = "success" /\ held'[t] = held[t] \ {"mm"}
              /\ space'[t] = "new" /\ filled'[t] = "file"
           \/ /\ UNCHANGED <<binfmt, mref>> /\ pc'[t] = "walk" /\ retval'[t] = "ERR"
              /\ held'[t] = held[t]
    BY DEF load_elf, set_binfmt, try_module_get, Formats, memVars
  <2>1. OneReference(t)
    <3>1. UNCHANGED <<mstate, formats, cur, lib>>
      BY Zenon DEF load_elf, walkVars
    <3>2. CASE UNCHANGED <<binfmt, mref>>
      BY <3>1, <3>2, Zenon DEF OneReference
    <3>3. CASE binfmt' = Set(binfmt, t, Elf) /\ mref' = PutGot(binfmt[t], Elf)
      BY <3>1, <3>3, Zenon DEF OneReference, Formats
    <3> QED BY Zenon, <2>0, <3>2, <3>3
  <2>2. /\ pc' \in [Tasks -> PCs]
        /\ retval' \in [Tasks -> RetVals]
        /\ held' \in [Tasks -> SUBSET Resources]
        /\ space' \in [Tasks -> {"old", "new"}]
        /\ filled' \in [Tasks -> {"old", "none", "zero", "file"}]
    BY DEF load_elf, memVars, PCs, RetVals, Resources
  <2>9. binfmt' \in [Tasks -> Formats \cup {NoFmt}]
    BY <2>0, Zenon DEF load_elf, memVars, Formats
  <2> UNCHANGED <<image, cur, lib, try, status, libs, segv>>
    BY Zenon DEF load_elf, walkVars, memVars
  <2>4. TaskTypes'
    BY <2>2, <2>9, Zenon DEF TaskTypes
  <2>5. \A u \in Tasks \ {t} : Untouched(u)
    BY <2>0 DEF Untouched, load_elf, memVars
  <2>6. TaskOK(t)'
    BY <2>0, Zenon DEF TaskOK, WalkInv, HeldInv, LoadInv, Loaded, Flushed, Nested, AtUser,
       Formats
  <2> QED BY Zenon, <2>1, <2>4, <2>5, <2>6, OthersKeep
<1>2. CASE coff_done(t)
  <2> USE <1>2
  <2>0. binfmt' = Set(binfmt, t, Coff) /\ mref' = PutGot(binfmt[t], Coff)
    <3>1. cur[t] = Coff
      BY Zenon DEF coff_done, WalkInv, Flushed
    <3>2. try_module_get(Coff)
      BY <3>1, Zenon DEF ModuleInv, try_module_get
    <3> QED BY <3>2, Zenon DEF coff_done, set_binfmt
  <2>1. OneReference(t)
    <3>1. UNCHANGED <<mstate, formats, cur, lib>>
      BY Zenon DEF coff_done, walkVars
    <3>2. Coff \in Mods => mstate[Coff] \in {"coming", "live"}
      BY Zenon DEF coff_done, WalkInv, Flushed, ModuleInv
    <3> QED BY <2>0, <3>1, <3>2, Zenon DEF OneReference, Formats
  <2>2. /\ pc' \in [Tasks -> PCs]
        /\ retval' \in [Tasks -> RetVals]
        /\ held' \in [Tasks -> SUBSET Resources]
        /\ filled' \in [Tasks -> {"old", "none", "zero", "file"}]
    BY Zenon DEF coff_done, coff_out, PCs, RetVals, Resources
  <2>9. segv' \in [Tasks -> BOOLEAN]
    BY Zenon DEF coff_done, coff_out
  <2>10. binfmt' \in [Tasks -> Formats \cup {NoFmt}]
    BY <2>0, Zenon DEF coff_done, coff_out, Formats
  <2> UNCHANGED <<image, cur, lib, try, status, libs, space>>
    BY Zenon DEF coff_done, walkVars
  <2>4. TaskTypes'
    BY <2>2, <2>9, <2>10, Zenon DEF TaskTypes
  <2>5. \A u \in Tasks \ {t} : Untouched(u)
    BY <2>0, Zenon DEF Untouched, coff_done, coff_out
  <2>6. TaskOK(t)'
    BY <2>0, Zenon DEF TaskOK, WalkInv, HeldInv, LoadInv, Loaded, Flushed, Nested,
       AtUser, Formats, coff_done, coff_out
  <2> QED BY Zenon, <2>1, <2>4, <2>5, <2>6, OthersKeep
<1> QED BY Zenon, <1>1, <1>2

(* The walk of sys_uselib().                                               *)
LEMMA UselibSteps ==
    ASSUME TypeOK, ListedOnce, ModuleInv, TaskInv, NEW t \in Tasks,
           sys_uselib(t) \/ uselib_next(t) \/ load_shlib_enoexec(t) \/ load_shlib(t)
    PROVE  OneReference(t) /\ TaskTypes' /\ TaskInv'
<1> SUFFICES ASSUME TaskTypes, WalkInv(t), HeldInv(t), LoadInv(t),
                    pc \in [Tasks -> PCs],
                    lib \in [Tasks -> Formats \cup {NoFmt}],
                    status \in [Tasks -> BOOLEAN]
             PROVE  OneReference(t) /\ TaskTypes' /\ TaskInv'
  BY TypesOfTasks, Zenon DEF TaskInv, TaskTypes
<1> USE BinfmtAssumption DEF Set, Goto, LoaderReturns
<1>1. CASE sys_uselib(t)
  <2> USE <1>1
  <2>1. OneReference(t)
    BY Zenon DEF OneReference, sys_uselib, loadFrame, modVars, walkVars
  <2>2. pc' \in [Tasks -> PCs]
    BY Zenon DEF sys_uselib, PCs
  <2>9. status' \in [Tasks -> BOOLEAN]
    BY Zenon DEF sys_uselib
  <2> UNCHANGED <<image, cur, lib, try, retval, libs, held, binfmt, space, filled,
     segv>>
    BY Zenon DEF sys_uselib, loadFrame, modVars, walkVars, memVars
  <2>4. TaskTypes'
    BY <2>2, <2>9, Zenon DEF TaskTypes
  <2>5. \A u \in Tasks \ {t} : Untouched(u)
    BY Zenon DEF Untouched, sys_uselib
  <2>6. TaskOK(t)'
    BY Zenon DEF TaskOK, WalkInv, HeldInv, LoadInv, Loaded, Flushed, Nested, AtUser, Formats,
       sys_uselib
  <2> QED BY Zenon, <2>1, <2>4, <2>5, <2>6, OthersKeep
<1>2. CASE uselib_next(t)
  <2> USE <1>2
  <2>0. NextFormat(lib[t]) \in Formats \cup {NoFmt}
    BY Zenon, NextFormatIs
  <2>1. OneReference(t)
    <3> DEFINE v == NextFormat(lib[t])
    <3>2. v \in Listed \cup {NoFmt} /\ v \in Formats \cup {NoFmt}
          /\ (v \in Mods => mstate[v] \in {"coming", "live"})
      BY Zenon, NextFormatIs
    <3>3. /\ lib' = Set(lib, t, v) /\ mref' = PutGot(lib[t], v)
          /\ UNCHANGED <<mstate, formats, binfmt, cur>>
      BY Zenon DEF uselib_next, libFrame
    <3> HIDE DEF v
    <3> QED BY <3>2, <3>3, Zenon DEF OneReference
  <2>2. pc' \in [Tasks -> PCs]
    BY DEF uselib_next, LibReturns, PCs
  <2>9. status' \in [Tasks -> BOOLEAN]
    BY Zenon DEF uselib_next, LibReturns
  <2>10. lib' \in [Tasks -> Formats \cup {NoFmt}]
    BY <2>0, Zenon DEF uselib_next, LibReturns
  <2> UNCHANGED <<image, cur, try, retval, libs, held, binfmt, space, filled, segv>>
    BY Zenon DEF uselib_next, libFrame, memVars
  <2>4. TaskTypes'
    BY <2>2, <2>9, <2>10, Zenon DEF TaskTypes
  <2>5. \A u \in Tasks \ {t} : Untouched(u)
    BY Zenon DEF Untouched, uselib_next, LibReturns
  <2>6. TaskOK(t)'
    <3>1. /\ pc[t] = "lib_walk"
          /\ \/ pc'[t] = "lib_load"
             \/ cur[t] = Coff /\ lib'[t] = NoFmt /\ pc'[t] = "coff_libs"
             \/ cur[t] # Coff /\ lib'[t] = NoFmt /\ pc'[t] = "user"
      BY Zenon DEF uselib_next, LibReturns
    <3>2. cur[t] \in {NoFmt, Coff}
      BY <3>1, Zenon DEF WalkInv
    <3> HIDE <1>2
    <3>3. WalkInv(t)'
      BY <3>1, <3>2, Zenon DEF WalkInv, Flushed, Nested
    <3>4. HeldInv(t)'
      BY <3>1, <3>2, Zenon DEF HeldInv, Flushed, Nested, AtUser
    <3>5. LoadInv(t)'
      BY <3>1, <3>2, Zenon DEF LoadInv, Loaded, Flushed, Nested, AtUser
    <3> QED BY <3>3, <3>4, <3>5, Zenon DEF TaskOK
  <2> QED BY Zenon, <2>1, <2>4, <2>5, <2>6, OthersKeep
<1>3. CASE load_shlib_enoexec(t)
  <2> USE <1>3
  <2>1. OneReference(t)
    BY Zenon DEF OneReference, load_shlib_enoexec, libFrame
  <2>2. pc' \in [Tasks -> PCs]
    BY Zenon DEF load_shlib_enoexec, PCs
  <2> UNCHANGED <<image, cur, lib, try, retval, status, libs, held, binfmt, space,
     filled, segv>>
    BY Zenon DEF load_shlib_enoexec, libFrame, memVars
  <2>4. TaskTypes'
    BY <2>2, Zenon DEF TaskTypes
  <2>5. \A u \in Tasks \ {t} : Untouched(u)
    BY Zenon DEF Untouched, load_shlib_enoexec
  <2>6. TaskOK(t)'
    BY Zenon DEF TaskOK, WalkInv, HeldInv, LoadInv, Loaded, Flushed, Nested, AtUser, Formats,
       load_shlib_enoexec
  <2> QED BY Zenon, <2>1, <2>4, <2>5, <2>6, OthersKeep
<1>4. CASE load_shlib(t)
  <2> USE <1>4
  <2>1. OneReference(t)
    <3>1. /\ lib' = Set(lib, t, NoFmt) /\ mref' = PutGot(lib[t], NoFmt)
          /\ UNCHANGED <<mstate, formats, binfmt, cur>>
      BY PutGotIs, Zenon DEF load_shlib, libFrame
    <3> QED BY <3>1, Zenon DEF OneReference, Formats
  <2>2. pc' \in [Tasks -> PCs]
    BY Zenon DEF load_shlib, LibReturns, PCs
  <2>9. status' \in [Tasks -> BOOLEAN]
    BY Zenon DEF load_shlib, LibReturns
  <2>10. lib' \in [Tasks -> Formats \cup {NoFmt}]
    BY Zenon DEF load_shlib, LibReturns
  <2> UNCHANGED <<image, cur, try, retval, libs, held, binfmt, space, filled, segv>>
    BY Zenon DEF load_shlib, libFrame, memVars
  <2>4. TaskTypes'
    BY <2>2, <2>9, <2>10, Zenon DEF TaskTypes
  <2>5. \A u \in Tasks \ {t} : Untouched(u)
    BY Zenon DEF Untouched, load_shlib, LibReturns
  <2>6. TaskOK(t)'
    BY Zenon DEF TaskOK, WalkInv, HeldInv, LoadInv, Loaded, Flushed, Nested, AtUser, Formats,
       load_shlib, LibReturns
  <2> QED BY Zenon, <2>1, <2>4, <2>5, <2>6, OthersKeep
<1> QED BY Zenon, <1>1, <1>2, <1>3, <1>4

(* fork(): s is the parent, t the child.                                   *)
LEMMA ForkStep ==
    ASSUME TypeOK, ListedOnce, ModuleInv, TaskInv, NEW t \in Tasks, NEW s \in Tasks,
           copy_process(s, t)
    PROVE  OneReference(t) /\ TaskTypes' /\ TaskInv'
<1> SUFFICES ASSUME TaskTypes, WalkInv(t), HeldInv(t), LoadInv(t),
                    pc \in [Tasks -> PCs],
                    image \in [Tasks -> Formats \cup {Junk}],
                    retval \in [Tasks -> RetVals],
                    binfmt \in [Tasks -> Formats \cup {NoFmt}],
                    space \in [Tasks -> {"old", "new"}],
                    filled \in [Tasks -> {"old", "none", "zero", "file"}]
             PROVE  OneReference(t) /\ TaskTypes' /\ TaskInv'
  BY TypesOfTasks, Zenon DEF TaskInv, TaskTypes
<1> USE BinfmtAssumption DEF Set, Goto, LoaderReturns
<1>1. CASE copy_process(s, t)
  <2> USE <1>1
  <2>0. /\ WalkInv(s) /\ HeldInv(s) /\ LoadInv(s) /\ binfmt[t] = NoFmt /\ s # t
        /\ image[s] \in Formats \cup {Junk} /\ binfmt[s] \in Formats \cup {NoFmt}
        /\ retval[s] \in RetVals /\ space[s] \in {"old", "new"}
        /\ filled[s] \in {"old", "none", "zero", "file"}
        /\ pc[s] = "user" /\ pc[t] = "none" /\ pc'[t] = "user" /\ ~segv[s]
        /\ image'[t] = image[s] /\ retval'[t] = retval[s] /\ binfmt'[t] = binfmt[s]
        /\ space'[t] = space[s] /\ filled'[t] = filled[s]
    BY DEF copy_process, TaskInv, WalkInv
  <2>1. OneReference(t)
    <3>1. /\ binfmt' = Set(binfmt, t, binfmt[s]) /\ mref' = PutGot(binfmt[t], binfmt[s])
          /\ UNCHANGED <<mstate, formats, cur, lib>>
      BY <2>0, PutGotIs, Zenon DEF copy_process, walkVars
    <3>2. binfmt[s] \in Mods => mstate[binfmt[s]] \in {"coming", "live"}
      BY Zenon DEF copy_process, try_module_get
    <3> QED BY <2>0, <3>1, <3>2, Zenon DEF OneReference, Formats
  <2>2. /\ pc' \in [Tasks -> PCs]
        /\ image' \in [Tasks -> Formats \cup {Junk}]
        /\ retval' \in [Tasks -> RetVals]
        /\ space' \in [Tasks -> {"old", "new"}]
        /\ filled' \in [Tasks -> {"old", "none", "zero", "file"}]
    BY DEF copy_process, PCs, Formats, RetVals
  <2>9. binfmt' \in [Tasks -> Formats \cup {NoFmt}]
    BY <2>0, Zenon DEF copy_process, Formats
  <2> UNCHANGED <<cur, lib, try, status, libs, held, segv>>
    BY Zenon DEF copy_process, walkVars
  <2>4. TaskTypes'
    BY <2>2, <2>9, Zenon DEF TaskTypes
  <2>5. \A u \in Tasks \ {t} : Untouched(u)
    BY DEF Untouched, copy_process
  <2>6. TaskOK(t)'
    BY <2>0, Zenon DEF TaskOK, WalkInv, HeldInv, LoadInv, Loaded, Flushed, Nested, AtUser,
       Formats
  <2> QED BY Zenon, <2>1, <2>4, <2>5, <2>6, OthersKeep
<1> QED BY Zenon, <1>1

-----------------------------------------------------------------------------
(* The inductive invariant.  The counts are exact only as long as nobody   *)
(* takes a reference to a module on its way out; a task that succeeds is   *)
(* tied to its format only because the walk still pins that format when    *)
(* the loader calls set_binfmt().                                          *)
IInv == TypeOK /\ FormatsAreHeld /\ ModuleInv /\ TaskInv

-----------------------------------------------------------------------------
(* Counting the tasks that refer to a module.                              *)

(* A count is a number, and zero when nobody refers to the module.         *)
LEMMA UsersIsNat ==
    ASSUME NEW f, NEW m
    PROVE  /\ Users(f, m) \in Nat
           /\ Users(f, m) = 0 <=> \A t \in Tasks : f[t] # m
<1> DEFINE S == {t \in Tasks : f[t] = m}
<1>1. IsFiniteSet(S)
  BY BinfmtAssumption, FS_Subset, Zenon
<1>2. Cardinality(S) \in Nat /\ (Cardinality(S) = 0 <=> S = {})
  BY <1>1, FS_CardinalityType, FS_EmptySet, Zenon
<1>3. QED
  BY <1>2, Zenon DEF Users

(* The counts change with what one task refers to.                         *)
LEMMA UsersSet ==
    ASSUME NEW D, NEW f \in [Tasks -> D], NEW t \in Tasks, NEW v, NEW m
    PROVE  Users(Set(f, t, v), m) = Users(f, m) + One(v, m) - One(f[t], m)
<1> DEFINE S == {u \in Tasks : f[u] = m}
           T == {u \in Tasks : Set(f, t, v)[u] = m}
           R == S \ {t}
<1>1. IsFiniteSet(S) /\ IsFiniteSet(R)
  BY BinfmtAssumption, FS_Subset, Zenon
<1>2. Cardinality(S) \in Nat /\ Cardinality(R) \in Nat
  BY <1>1, FS_CardinalityType, Zenon
<1>3. Cardinality(S) = Cardinality(R) + One(f[t], m)
  <2>1. CASE f[t] = m
    <3>1. t \in S
      BY <2>1, Zenon
    <3>2. Cardinality(R) = Cardinality(S) - 1
      BY <1>1, <3>1, FS_RemoveElement, Zenon
    <3> QED BY <2>1, <3>2, <1>2 DEF One
  <2>2. CASE f[t] # m
    <3>1. R = S
      BY <2>2, Zenon
    <3> QED BY <2>2, <3>1, <1>2 DEF One
  <2> QED BY <2>1, <2>2, Zenon
<1>4. Cardinality(T) = Cardinality(R) + One(v, m)
  <2>1. CASE v = m
    <3>1. T = R \cup {t} /\ t \notin R
      BY <2>1, Zenon DEF Set
    <3>2. Cardinality(R \cup {t}) = Cardinality(R) + 1
      BY <1>1, <3>1, FS_AddElement, Zenon
    <3> QED BY <2>1, <3>1, <3>2, Zenon DEF One
  <2>2. CASE v # m
    <3>1. T = R
      BY <2>2, Zenon DEF Set
    <3> QED BY <2>2, <3>1, <1>2 DEF One
  <2> QED BY <2>1, <2>2, Zenon
<1>5. QED
  BY <1>2, <1>3, <1>4 DEF Users, One

-----------------------------------------------------------------------------
(* References to formats.                                                  *)

(* One task exchanges one reference for another, and the counts with it.   *)
LEMMA RefsMove ==
    ASSUME TypeOK, FormatRefsExact, UNCHANGED mstate, NEW t \in Tasks, NEW v,
           \/ /\ binfmt' = Set(binfmt, t, v) /\ mref' = PutGot(binfmt[t], v)
              /\ UNCHANGED <<cur, lib>>
           \/ /\ cur' = Set(cur, t, v) /\ mref' = PutGot(cur[t], v)
              /\ UNCHANGED <<binfmt, lib>>
           \/ /\ lib' = Set(lib, t, v) /\ mref' = PutGot(lib[t], v)
              /\ UNCHANGED <<binfmt, cur>>
    PROVE  FormatRefsExact' /\ mref' \in [Mods -> Nat]
<1> DEFINE Sum(m) == Users(binfmt, m) + Users(cur, m) + Users(lib, m)
                     + One(mstate[m], "coming")
<1>1. ASSUME NEW m \in Mods PROVE mref'[m] = Sum(m)' /\ Sum(m)' \in Nat
  <2>0. mref[m] \in Nat
    BY Zenon DEF TypeOK
  <2>1. mref[m] = Sum(m)
    BY <1>1, Zenon DEF FormatRefsExact, One
  <2>2. /\ Users(binfmt, m) \in Nat /\ Users(cur, m) \in Nat /\ Users(lib, m) \in Nat
        /\ Users(binfmt', m) \in Nat /\ Users(cur', m) \in Nat /\ Users(lib', m) \in Nat
    BY UsersIsNat, Zenon
  <2>3. ASSUME NEW f \in [Tasks -> Formats \cup {NoFmt}], NEW g, g = Set(f, t, v),
               mref' = PutGot(f[t], v)
        PROVE  mref'[m] = mref[m] + Users(g, m) - Users(f, m)
    <3>1. Users(g, m) = Users(f, m) + One(v, m) - One(f[t], m)
      BY <2>3, UsersSet
    <3>2. mref'[m] = mref[m] + One(v, m) - One(f[t], m)
      BY <1>1, <2>3, PutGotIs
    <3>3. mref[m] \in Nat /\ Users(f, m) \in Nat
      BY <1>1, UsersIsNat, Zenon DEF TypeOK
    <3> QED BY <3>1, <3>2, <3>3 DEF One
  <2>4. binfmt \in [Tasks -> Formats \cup {NoFmt}] /\ cur \in [Tasks -> Formats \cup {NoFmt}]
        /\ lib \in [Tasks -> Formats \cup {NoFmt}]
    BY Zenon DEF TypeOK
  <2>5. mref'[m] = mref[m] + Users(binfmt', m) - Users(binfmt, m) + Users(cur', m)
                   - Users(cur, m) + Users(lib', m) - Users(lib, m)
    <3>1. CASE binfmt' = Set(binfmt, t, v) /\ mref' = PutGot(binfmt[t], v) /\ UNCHANGED <<cur, lib>>
      BY <2>0, <2>2, <2>4, <3>1, <2>3
    <3>2. CASE cur' = Set(cur, t, v) /\ mref' = PutGot(cur[t], v) /\ UNCHANGED <<binfmt, lib>>
      BY <2>0, <2>2, <2>4, <3>2, <2>3
    <3>3. CASE lib' = Set(lib, t, v) /\ mref' = PutGot(lib[t], v) /\ UNCHANGED <<binfmt, cur>>
      BY <2>0, <2>2, <2>4, <3>3, <2>3
    <3> QED BY <3>1, <3>2, <3>3, Zenon
  <2>6. Users(binfmt', m) = Users(binfmt, m)' /\ Users(cur', m) = Users(cur, m)'
        /\ Users(lib', m) = Users(lib, m)'
    BY Zenon DEF Users
  <2>7. One(mstate'[m], "coming") = One(mstate[m], "coming")
        /\ One(mstate[m], "coming") \in Nat
    BY Zenon DEF One
  <2> QED BY <2>0, <2>1, <2>2, <2>5, <2>6, <2>7
<1>2. mref' \in [Mods -> Int]
  <2>1. mref \in [Mods -> Nat] /\ \E f : mref' = PutGot(f, v)
    BY Zenon DEF TypeOK
  <2> QED BY <2>1 DEF PutGot
<1>3. QED
  BY <1>1, <1>2, Zenon DEF FormatRefsExact, One

(* What the references rely on stays true if the new one is to a format    *)
(* on the list whose module is not on its way out.                         *)
LEMMA HoldMove ==
    ASSUME TypeOK, FormatsAreHeld, ModuleInv, UNCHANGED <<mstate, formats>>,
           NEW t \in Tasks, NEW v \in Formats \cup {NoFmt},
           v \in Mods => mstate[v] \in {"coming", "live"},
           \/ /\ binfmt' = Set(binfmt, t, v) /\ mref' = PutGot(binfmt[t], v)
              /\ UNCHANGED <<cur, lib>>
           \/ /\ v \in Listed \cup {NoFmt}
              /\ cur' = Set(cur, t, v) /\ mref' = PutGot(cur[t], v)
              /\ UNCHANGED <<binfmt, lib>>
           \/ /\ v \in Listed \cup {NoFmt}
              /\ lib' = Set(lib, t, v) /\ mref' = PutGot(lib[t], v)
              /\ UNCHANGED <<binfmt, cur>>
    PROVE  FormatsAreHeld' /\ ModuleInv' /\ mref' \in [Mods -> Nat]
<1>1. FormatRefsExact' /\ mref' \in [Mods -> Nat]
  BY RefsMove, Zenon DEF FormatsAreHeld
<1>2. Listed' = Listed /\ (ListedOnce' <=> ListedOnce)
  BY Zenon DEF Listed, ListedOnce
<1>3. ASSUME NEW u \in Tasks
      PROVE  /\ binfmt'[u] \in {binfmt[u], v}
             /\ cur'[u] = cur[u] \/ (cur'[u] = v /\ v \in Listed \cup {NoFmt})
             /\ lib'[u] = lib[u] \/ (lib'[u] = v /\ v \in Listed \cup {NoFmt})
  BY <1>3 DEF TypeOK, Set
<1>4. FormatsInUsePinned'
  BY <1>2, <1>3 DEF FormatsAreHeld, FormatsInUsePinned
<1>5. ModuleInv'
  <2>1. ASSUME NEW u \in Tasks, NEW f \in {binfmt[u], cur[u], lib[u]}' \cap Mods
        PROVE  mstate'[f] \in {"coming", "live"}
    <3>1. f = v \/ f \in {binfmt[u], cur[u], lib[u]}
      BY <2>1, <1>3, Zenon
    <3> QED BY <2>1, <3>1, Zenon DEF ModuleInv
  <2> QED BY <2>1, <1>2, Zenon DEF ModuleInv
<1>6. QED
  BY <1>1, <1>4, <1>5, Zenon DEF FormatsAreHeld

(* Steps that leave all of it alone.                                       *)
LEMMA HoldSame ==
    ASSUME TypeOK, FormatsAreHeld, ModuleInv,
           UNCHANGED <<mstate, mref, formats, binfmt, cur, lib>>
    PROVE  FormatsAreHeld' /\ ModuleInv' /\ mref' \in [Mods -> Nat]
<1>1. Listed' = Listed /\ (ListedOnce' <=> ListedOnce)
  BY Zenon DEF Listed, ListedOnce
<1>2. FormatsInUsePinned' /\ ModuleInv'
  BY <1>1, Zenon DEF FormatsAreHeld, FormatsInUsePinned, ModuleInv
<1>3. FormatRefsExact'
  BY Zenon DEF FormatsAreHeld, FormatRefsExact, Users
<1>4. QED
  BY <1>2, <1>3, Zenon DEF FormatsAreHeld, TypeOK

(* A step that exchanges at most one reference of one task, and keeps what *)
(* is said of the tasks, keeps the invariant.                              *)
LEMMA TaskStepKeeps ==
    ASSUME IInv, NEW t \in Tasks, OneReference(t), TaskTypes', TaskInv'
    PROVE  IInv'
<1>1. TypeOK /\ FormatsAreHeld /\ ModuleInv
  BY Zenon DEF IInv
<1>2. UNCHANGED <<mstate, formats>>
  BY Zenon DEF OneReference
<1>3. FormatsAreHeld' /\ ModuleInv' /\ mref' \in [Mods -> Nat]
  <2>1. CASE UNCHANGED <<mref, binfmt, cur, lib>>
    BY <1>1, <1>2, <2>1, HoldSame, Zenon
  <2>2. CASE ~UNCHANGED <<mref, binfmt, cur, lib>>
    <3>1. PICK v \in Formats \cup {NoFmt} :
             /\ v \in Mods => mstate[v] \in {"coming", "live"}
             /\ \/ /\ binfmt' = Set(binfmt, t, v) /\ mref' = PutGot(binfmt[t], v)
                   /\ UNCHANGED <<cur, lib>>
                \/ /\ v \in Listed \cup {NoFmt}
                   /\ cur' = Set(cur, t, v) /\ mref' = PutGot(cur[t], v)
                   /\ UNCHANGED <<binfmt, lib>>
                \/ /\ v \in Listed \cup {NoFmt}
                   /\ lib' = Set(lib, t, v) /\ mref' = PutGot(lib[t], v)
                   /\ UNCHANGED <<binfmt, cur>>
      BY <2>2, Zenon DEF OneReference
    <3> QED BY <1>1, <1>2, <3>1, HoldMove, Zenon
  <2> QED BY <2>1, <2>2, Zenon
<1>4. TypeOK'
  BY <1>1, <1>2, <1>3, Zenon DEF TypeOK, TaskTypes, RetVals
<1>5. QED
  BY <1>3, <1>4, Zenon DEF IInv

-----------------------------------------------------------------------------
(* Modules come and go.                                                    *)

(* register_binfmt() adds one format, first, and unregister_binfmt() takes *)
(* out that one, wherever it is.                                           *)
LEMMA Registered ==
    ASSUME TypeOK, ListedOnce, NEW m \in Mods, m \notin Listed, formats' = <<m>> \o formats
    PROVE  formats' \in Seq(Formats) /\ ListedOnce' /\ Listed' = Listed \cup {m}
<1>1. formats \in Seq(Formats) /\ Len(formats) \in Nat /\ DOMAIN formats = 1 .. Len(formats)
  BY DEF TypeOK
<1>2. <<m>> \in Seq(Formats)
  BY BinfmtAssumption DEF Formats
<1>3. /\ formats' \in Seq(Formats) /\ Len(formats') = Len(formats) + 1
      /\ DOMAIN formats' = 1 .. Len(formats) + 1
      /\ \A i \in 1 .. Len(formats) + 1 : formats'[i] = IF i = 1 THEN m ELSE formats[i - 1]
  BY <1>1, <1>2
<1>4. ListedOnce'
  <2>1. SUFFICES ASSUME NEW i \in DOMAIN formats', NEW j \in DOMAIN formats',
                        formats'[i] = formats'[j]
                 PROVE  i = j
    BY Zenon DEF ListedOnce
  <2>2. \A k \in DOMAIN formats : formats[k] # m
    BY Zenon DEF Listed
  <2>3. \A k \in 1 .. Len(formats) + 1 : k # 1 => k - 1 \in DOMAIN formats
    BY <1>1
  <2> QED BY <1>1, <1>3, <2>1, <2>2, <2>3 DEF ListedOnce
<1>5. Listed' = Listed \cup {m}
  <2>1. \A f : f \in Listed' <=> \E i \in 1 .. Len(formats) + 1 : f = formats'[i]
    BY <1>3, Zenon DEF Listed
  <2>2. \A f : f \in Listed <=> \E i \in 1 .. Len(formats) : f = formats[i]
    BY <1>1, Zenon DEF Listed
  <2>3. ASSUME NEW f \in Listed' PROVE f \in Listed \cup {m}
    <3>1. PICK i \in 1 .. Len(formats) + 1 : f = formats'[i]
      BY <2>1, <2>3, Zenon
    <3>2. CASE i = 1
      BY <1>3, <3>1, <3>2, Zenon
    <3>3. CASE i # 1
      <4>1. i - 1 \in 1 .. Len(formats) /\ f = formats[i - 1]
        BY <1>1, <1>3, <3>1, <3>3
      <4> QED BY <2>2, <4>1, Zenon
    <3> QED BY <3>2, <3>3, Zenon
  <2>4. ASSUME NEW f \in Listed PROVE f \in Listed'
    <3>1. PICK i \in 1 .. Len(formats) : f = formats[i]
      BY <2>2, <2>4, Zenon
    <3>2. i + 1 \in 1 .. Len(formats) + 1 /\ f = formats'[i + 1]
      BY <1>1, <1>3, <3>1
    <3> QED BY <2>1, <3>2, Zenon
  <2>5. m \in Listed'
    <3>1. 1 \in 1 .. Len(formats) + 1 /\ m = formats'[1]
      BY <1>1, <1>3
    <3> QED BY <2>1, <3>1, Zenon
  <2> QED BY <2>3, <2>4, <2>5, Zenon
<1>6. QED
  BY <1>3, <1>4, <1>5, Zenon

(* unregister_binfmt() takes one format from the list and leaves the       *)
(* others in order.                                                        *)
LEMMA Unregistered ==
    ASSUME TypeOK, ListedOnce, NEW m \in Mods, m \in Listed,
           formats' = [i \in 1 .. Len(formats) - 1 |->
                           formats[IF i < Place(m) THEN i ELSE i + 1]]
    PROVE  formats' \in Seq(Formats) /\ ListedOnce' /\ Listed' = Listed \ {m}
<1> DEFINE n == Len(formats)
           p == Place(m)
<1>1. formats \in Seq(Formats) /\ n \in Nat /\ DOMAIN formats = 1 .. n
      /\ formats \in [1 .. n -> Formats]
  BY DEF TypeOK
<1>2. p \in 1 .. n /\ formats[p] = m
  BY <1>1, BinfmtAssumption, Zenon DEF Place, Listed, Formats
<1> HIDE DEF n, p
<1>3. formats' = [i \in 1 .. n - 1 |-> formats[IF i < p THEN i ELSE i + 1]]
  BY Zenon DEF n, p
<1>4. n - 1 \in Nat /\ \A i \in 1 .. n - 1 : (IF i < p THEN i ELSE i + 1) \in 1 .. n
  BY <1>1, <1>2
<1>5. /\ formats' \in [1 .. n - 1 -> Formats]
      /\ DOMAIN formats' = 1 .. n - 1
  BY <1>1, <1>3, <1>4, Zenon
<1>6. formats' \in Seq(Formats)
  BY <1>4, <1>5
<1>7. \A i, j \in 1 .. n : formats[i] = formats[j] => i = j
  BY <1>1, Zenon DEF ListedOnce
<1>8. ListedOnce'
  <2>1. SUFFICES ASSUME NEW i \in 1 .. n - 1, NEW j \in 1 .. n - 1, formats'[i] = formats'[j]
                 PROVE  i = j
    BY <1>5 DEF ListedOnce
  <2>2. (IF i < p THEN i ELSE i + 1) = (IF j < p THEN j ELSE j + 1)
    BY <1>3, <1>4, <1>7, <2>1
  <2> QED BY <1>1, <1>2, <2>2
<1>9. Listed' = Listed \ {m}
  <2>1. \A f : f \in Listed' <=> \E i \in 1 .. n - 1 : f = formats'[i]
    BY <1>5, Zenon DEF Listed
  <2>2. \A f : f \in Listed <=> \E i \in 1 .. n : f = formats[i]
    BY <1>1, Zenon DEF Listed
  <2>3. ASSUME NEW f \in Listed' PROVE f \in Listed \ {m}
    <3>1. PICK i \in 1 .. n - 1 : f = formats'[i]
      BY <2>1, <2>3, Zenon
    <3> DEFINE k == IF i < p THEN i ELSE i + 1
    <3>2. k \in 1 .. n /\ k # p /\ f = formats[k]
      BY <1>1, <1>2, <1>3, <1>4, <3>1
    <3> QED BY <1>2, <1>7, <2>2, <3>2, Zenon
  <2>4. ASSUME NEW f \in Listed \ {m} PROVE f \in Listed'
    <3>1. PICK k \in 1 .. n : f = formats[k]
      BY <2>2, <2>4, Zenon
    <3>2. k # p
      BY <1>2, <2>4, <3>1, Zenon
    <3> DEFINE i == IF k < p THEN k ELSE k - 1
    <3>3. i \in 1 .. n - 1 /\ (IF i < p THEN i ELSE i + 1) = k
      BY <1>1, <1>2, <3>2
    <3>4. f = formats'[i]
      BY <1>3, <3>1, <3>3, Zenon
    <3> QED BY <2>1, <3>3, <3>4, Zenon
  <2> QED BY <2>3, <2>4, Zenon
<1>10. QED
  BY <1>6, <1>8, <1>9, Zenon

(* A module that is not there, or on its way out, is referred to by nobody.*)
LEMMA NobodyRefers ==
    ASSUME TypeOK, FormatsAreHeld, ModuleInv, NEW m \in Mods,
           mstate[m] \in {"absent", "going"} \/ mref[m] = 0
    PROVE  /\ \A t \in Tasks : m \notin {binfmt[t], cur[t], lib[t]}
           /\ Users(binfmt, m) = 0 /\ Users(cur, m) = 0 /\ Users(lib, m) = 0
<1>1. /\ Users(binfmt, m) \in Nat /\ Users(cur, m) \in Nat /\ Users(lib, m) \in Nat
      /\ Users(binfmt, m) = 0 <=> \A t \in Tasks : binfmt[t] # m
      /\ Users(cur, m) = 0 <=> \A t \in Tasks : cur[t] # m
      /\ Users(lib, m) = 0 <=> \A t \in Tasks : lib[t] # m
  BY UsersIsNat, Zenon
<1>2. CASE mstate[m] \in {"absent", "going"}
  BY <1>1, <1>2, Zenon DEF ModuleInv
<1>3. CASE mref[m] = 0
  <2>1. Users(binfmt, m) + Users(cur, m) + Users(lib, m)
            + (IF mstate[m] = "coming" THEN 1 ELSE 0) = 0
    BY <1>3, Zenon DEF FormatsAreHeld, FormatRefsExact
  <2>2. Users(binfmt, m) = 0 /\ Users(cur, m) = 0 /\ Users(lib, m) = 0
    BY <1>1, <2>1
  <2> QED BY <1>1, <2>2, Zenon
<1>4. QED
  BY <1>2, <1>3, Zenon

(* The counts of a step that changes one module's state and count only.    *)
LEMMA CountsOfModule ==
    ASSUME TypeOK, FormatsAreHeld, NEW m \in Mods, UNCHANGED <<binfmt, cur, lib>>,
           mref' \in [Mods -> Int],
           \A k \in Mods \ {m} : mref'[k] = mref[k] /\ mstate'[k] = mstate[k],
           mref'[m] + (IF mstate[m] = "coming" THEN 1 ELSE 0)
               = mref[m] + (IF mstate'[m] = "coming" THEN 1 ELSE 0)
    PROVE  FormatRefsExact' /\ mref' \in [Mods -> Nat]
<1>1. mref \in [Mods -> Nat]
  BY Zenon DEF TypeOK
<1>2. ASSUME NEW k \in Mods
      PROVE  /\ mref'[k] \in Nat
             /\ mref'[k] = Users(binfmt', k) + Users(cur', k) + Users(lib', k)
                              + (IF mstate'[k] = "coming" THEN 1 ELSE 0)
  <2>1. /\ Users(binfmt', k) = Users(binfmt, k) /\ Users(binfmt, k) \in Nat
        /\ Users(cur', k) = Users(cur, k) /\ Users(cur, k) \in Nat
        /\ Users(lib', k) = Users(lib, k) /\ Users(lib, k) \in Nat
    BY UsersIsNat, Zenon
  <2>2. mref[k] = Users(binfmt, k) + Users(cur, k) + Users(lib, k)
                    + (IF mstate[k] = "coming" THEN 1 ELSE 0)
    BY <1>2, Zenon DEF FormatsAreHeld, FormatRefsExact
  <2>3. CASE k # m
    BY <1>1, <1>2, <2>1, <2>2, <2>3, Zenon
  <2>4. CASE k = m
    BY <1>1, <1>2, <2>1, <2>2, <2>4
  <2> QED BY <2>3, <2>4, Zenon
<1>3. mref' \in [Mods -> Nat]
  BY <1>2, Zenon
<1>4. QED
  BY <1>2, <1>3, Zenon DEF FormatRefsExact

(* The steps of the modules: loading, registering, unregistering,          *)
(* unloading.                                                              *)
LEMMA ModuleSteps ==
    ASSUME IInv, NEW m \in Mods, ModStep(m)
    PROVE  IInv'
<1>0. TypeOK /\ FormatsAreHeld /\ ModuleInv /\ TaskInv /\ FormatsInUsePinned /\ ListedOnce
  BY Zenon DEF IInv, FormatsAreHeld, FormatsInUsePinned
<1>1. mstate \in [Mods -> {"absent", "coming", "live", "going"}] /\ mref \in [Mods -> Nat]
  BY <1>0, Zenon DEF TypeOK
<1>2. UNCHANGED taskVars
  BY Zenon DEF ModStep, LoadModule, register_binfmt, ModuleLive, DeleteModule, unregister_binfmt
<1>3. TaskInv'
  BY <1>0, <1>2 DEF taskVars, TaskInv, WalkInv, HeldInv, LoadInv, Flushed, Nested, AtUser,
                    Loaded
<1>4. SUFFICES /\ FormatsInUsePinned' /\ FormatRefsExact' /\ ModuleInv'
               /\ mref' \in [Mods -> Nat] /\ formats' \in Seq(Formats)
               /\ mstate' \in [Mods -> {"absent", "coming", "live", "going"}]
  BY <1>0, <1>2, <1>3, Zenon DEF IInv, TypeOK, FormatsAreHeld, taskVars
<1>5. formats \in Seq(Formats)
  BY <1>0, Zenon DEF TypeOK
<1>6. ASSUME UNCHANGED formats PROVE Listed' = Listed /\ ListedOnce'
  BY <1>0, <1>6, Zenon DEF Listed, ListedOnce
<1>7. UNCHANGED <<binfmt, cur, lib>>
  BY <1>2, Zenon DEF taskVars
<1>8. CASE LoadModule(m)
  <2>1. mstate[m] = "absent" /\ mstate' = [mstate EXCEPT ![m] = "coming"] /\ UNCHANGED formats
    BY <1>8, Zenon DEF LoadModule
  <2>2. mref[m] = 0
    BY <1>0, <1>1, <2>1, NobodyRefers DEF FormatsAreHeld, FormatRefsExact
  <2>3. mref' = [mref EXCEPT ![m] = 1]
    BY <1>8, Zenon DEF LoadModule
  <2>4. FormatRefsExact' /\ mref' \in [Mods -> Nat]
    BY <1>0, <1>1, <1>7, <2>1, <2>2, <2>3, CountsOfModule
  <2>5. FormatsInUsePinned' /\ ModuleInv'
    BY <1>0, <1>1, <1>6, <1>7, <2>1 DEF FormatsInUsePinned, ModuleInv
  <2> QED BY <1>1, <1>5, <2>1, <2>4, <2>5, Zenon
<1>9. CASE register_binfmt(m)
  <2>1. mstate[m] = "coming" /\ m \notin Listed /\ UNCHANGED <<mstate, mref>>
    BY <1>9, Zenon DEF register_binfmt
  <2>2. formats' \in Seq(Formats) /\ ListedOnce' /\ Listed' = Listed \cup {m}
    BY <1>0, <1>9, Registered, Zenon DEF register_binfmt
  <2>3. FormatRefsExact'
    BY <1>0, <1>7, <2>1, Zenon DEF FormatsAreHeld, FormatRefsExact, Users
  <2>4. FormatsInUsePinned' /\ ModuleInv'
    BY <1>0, <1>1, <1>7, <2>1, <2>2 DEF FormatsInUsePinned, ModuleInv
  <2> QED BY <1>1, <2>1, <2>2, <2>3, <2>4, Zenon
<1>10. CASE ModuleLive(m)
  <2>1. /\ mstate[m] = "coming" /\ m \in Listed /\ UNCHANGED formats
        /\ mstate' = [mstate EXCEPT ![m] = "live"] /\ mref' = [mref EXCEPT ![m] = @ - 1]
    BY <1>10, Zenon DEF ModuleLive
  <2>2. FormatRefsExact' /\ mref' \in [Mods -> Nat]
    BY <1>0, <1>1, <1>7, <2>1, CountsOfModule
  <2>3. FormatsInUsePinned' /\ ModuleInv'
    BY <1>0, <1>1, <1>6, <1>7, <2>1 DEF FormatsInUsePinned, ModuleInv
  <2> QED BY <1>1, <1>5, <2>1, <2>2, <2>3, Zenon
<1>11. CASE DeleteModule(m)
  <2>1. /\ mstate[m] = "live" /\ mref[m] = 0 /\ UNCHANGED <<mref, formats>>
        /\ mstate' = [mstate EXCEPT ![m] = "going"]
    BY <1>11, Zenon DEF DeleteModule
  <2>2. FormatRefsExact' /\ mref' \in [Mods -> Nat]
    BY <1>0, <1>1, <1>7, <2>1, CountsOfModule
  <2>3. \A t \in Tasks : m \notin {binfmt[t], cur[t], lib[t]}
    BY <1>0, <2>1, NobodyRefers, Zenon
  <2>4. FormatsInUsePinned' /\ ModuleInv'
    BY <1>0, <1>1, <1>6, <1>7, <2>1, <2>3 DEF FormatsInUsePinned, ModuleInv
  <2> QED BY <1>1, <1>5, <2>1, <2>2, <2>4, Zenon
<1>12. CASE unregister_binfmt(m)
  <2>1. /\ mstate[m] = "going" /\ m \in Listed /\ UNCHANGED mref
        /\ mstate' = [mstate EXCEPT ![m] = "absent"]
    BY <1>12, Zenon DEF unregister_binfmt
  <2>2. formats' \in Seq(Formats) /\ ListedOnce' /\ Listed' = Listed \ {m}
    BY <1>0, <1>12, Unregistered, Zenon DEF unregister_binfmt
  <2>3. FormatRefsExact' /\ mref' \in [Mods -> Nat]
    BY <1>0, <1>1, <1>7, <2>1, CountsOfModule
  <2>4. \A t \in Tasks : m \notin {binfmt[t], cur[t], lib[t]}
    BY <1>0, <2>1, NobodyRefers, Zenon
  <2>5. FormatsInUsePinned'
    BY <1>0, <1>1, <1>7, <2>1, <2>2, <2>4 DEF FormatsInUsePinned
  <2>6. ModuleInv'
    BY <1>0, <1>1, <1>7, <2>1, <2>2, <2>4, Zenon DEF ModuleInv
  <2> QED BY <1>1, <2>1, <2>2, <2>3, <2>5, <2>6, Zenon
<1>13. QED
  BY <1>8, <1>9, <1>10, <1>11, <1>12, Zenon DEF ModStep

-----------------------------------------------------------------------------
(* The inductive invariant holds.                                          *)

(* The invariant holds when the system starts.                             *)
LEMMA InvInit == ASSUME Init PROVE IInv
<1> USE BinfmtAssumption DEF Init
<1>1. Formats \ Mods = BuiltIn /\ Elf \in BuiltIn /\ BuiltIn \subseteq Formats
  BY Zenon DEF BuiltIn, Formats
<1>2. Cardinality(BuiltIn) \in Nat
  <2>1. IsFiniteSet({}) /\ IsFiniteSet({} \cup {Coff}) /\ IsFiniteSet({} \cup {Coff} \cup {Xout})
    BY FS_EmptySet, FS_AddElement, Zenon
  <2>2. IsFiniteSet({} \cup {Coff} \cup {Xout} \cup {Elf})
    BY <2>1, FS_AddElement, Zenon
  <2>3. Formats = {} \cup {Coff} \cup {Xout} \cup {Elf}
    BY Zenon DEF Formats
  <2>4. IsFiniteSet(Formats)
    BY <2>2, <2>3, Zenon
  <2> QED BY <1>1, <2>4, FS_Subset, FS_CardinalityType, Zenon
<1>3. formats \in [1 .. Cardinality(BuiltIn) -> BuiltIn]
  BY Zenon
<1>4. formats \in Seq(Formats) /\ Listed \subseteq BuiltIn
  <2>1. formats \in [1 .. Cardinality(BuiltIn) -> Formats]
    BY <1>1, <1>3, Zenon
  <2>2. formats \in Seq(Formats)
    BY <1>2, <2>1
  <2>3. Listed \subseteq BuiltIn
    BY <1>3 DEF Listed
  <2> QED BY <2>2, <2>3, Zenon
<1>5. PICK t0 \in Tasks :
          /\ pc = [t \in Tasks |-> IF t = t0 THEN "user" ELSE "none"]
          /\ binfmt = [t \in Tasks |-> IF t = t0 THEN Elf ELSE NoFmt]
  BY Zenon
<1>6. TypeOK
  <2>1. pc \in [Tasks -> PCs] /\ binfmt \in [Tasks -> Formats \cup {NoFmt}]
    BY <1>5, Zenon DEF PCs, Formats
  <2>2. held \in [Tasks -> SUBSET Resources]
    BY Zenon
  <2>3. libs \in [Tasks -> 0 .. MaxLibs]
    OBVIOUS
  <2> HIDE BinfmtAssumption
  <2>4. /\ image \in [Tasks -> Formats \cup {Junk}]
        /\ cur \in [Tasks -> Formats \cup {NoFmt}] /\ lib \in [Tasks -> Formats \cup {NoFmt}]
    BY Zenon DEF Formats
  <2> QED BY <1>4, <2>1, <2>2, <2>3, <2>4, Zenon DEF TypeOK
<1>7. ASSUME NEW t \in Tasks PROVE binfmt[t] \notin Mods /\ cur[t] = NoFmt /\ lib[t] = NoFmt
                                   /\ NoFmt \notin Mods
  BY <1>5, Zenon DEF Formats
<1>8. FormatsInUsePinned /\ ModuleInv
  BY <1>1, <1>4, <1>7 DEF FormatsInUsePinned, ModuleInv
<1>9. FormatRefsExact
  <2>1. ASSUME NEW m \in Mods
        PROVE  Users(binfmt, m) = 0 /\ Users(cur, m) = 0 /\ Users(lib, m) = 0
    BY <1>7, UsersIsNat
  <2> QED BY <2>1 DEF FormatRefsExact
<1>10. ASSUME NEW t \in Tasks PROVE WalkInv(t) /\ HeldInv(t) /\ LoadInv(t)
  BY <1>5, Zenon DEF WalkInv, HeldInv, LoadInv, Flushed, Nested, AtUser, Loaded, Formats
<1>11. QED
  BY <1>6, <1>8, <1>9, <1>10, Zenon DEF IInv, FormatsAreHeld, TaskInv

(* Every step keeps the invariant.                                         *)
LEMMA InvStep == ASSUME IInv, [Next]_vars PROVE IInv'
<1>0. TypeOK /\ ListedOnce /\ ModuleInv /\ TaskInv
  BY Zenon DEF IInv, FormatsAreHeld, FormatsInUsePinned
<1>1. CASE \E m \in Mods : ModStep(m)
  BY <1>1, ModuleSteps, Zenon
<1>2. ASSUME NEW t \in Tasks, KernelStep(t) \/ do_execve(t) \/ sys_uselib(t) \/ do_exit(t)
      PROVE  IInv'
  <2>1. OneReference(t) /\ TaskTypes' /\ TaskInv'
    BY <1>0, <1>2, WalkSteps, ExecReturnSteps, CoffOpens, CoffLoads, XoutLoads, TiesToFormat,
       UselibSteps, Zenon DEF KernelStep
  <2> QED BY <2>1, TaskStepKeeps, Zenon
<1>3. ASSUME NEW s \in Tasks, NEW t \in Tasks, copy_process(s, t)
      PROVE  IInv'
  <2>1. OneReference(t) /\ TaskTypes' /\ TaskInv'
    BY <1>0, <1>3, ForkStep, Zenon
  <2> QED BY <2>1, TaskStepKeeps, Zenon
<1>4. CASE UNCHANGED vars
  <2>1. FormatsAreHeld' /\ ModuleInv' /\ mref' \in [Mods -> Nat]
    BY <1>4, HoldSame, Zenon DEF IInv, vars
  <2>2. TypeOK'
    BY <1>4, Zenon DEF IInv, TypeOK, vars
  <2>3. TaskInv'
    BY <1>4 DEF IInv, vars, TaskInv, WalkInv, HeldInv, LoadInv, Flushed, Nested, AtUser, Loaded
  <2> QED BY <2>1, <2>2, <2>3, Zenon DEF IInv
<1>5. QED
  BY <1>1, <1>2, <1>3, <1>4, Zenon DEF Next

(* The invariant always holds.                                             *)
LEMMA InvHolds == Spec => []IInv
<1>1. Init => IInv
  BY InvInit, Zenon
<1>2. IInv /\ [Next]_vars => IInv'
  BY InvStep, Zenon
<1>3. QED
  BY <1>1, <1>2, PTL DEF Spec

-----------------------------------------------------------------------------
(* Every variable keeps its type: no reference count of a module goes      *)
(* below zero, and no exec holds anything but what it allocates.           *)
THEOREM TypesHold == Spec => []TypeOK
<1>1. IInv => TypeOK
  BY Zenon DEF IInv
<1>2. QED
  BY <1>1, InvHolds, PTL

(* The format a loader runs for, in search_binary_handler() or in          *)
(* sys_uselib(), stays on the list and in memory, as does the one a task   *)
(* is tied to, and the module's count is exactly the references there are, *)
(* for any number of tasks that run, fork and exit while modules come and  *)
(* go.                                                                     *)
THEOREM FormatsHeld == Spec => []FormatsAreHeld
<1>1. IInv => FormatsAreHeld
  BY Zenon DEF IInv
<1>2. QED
  BY <1>1, InvHolds, PTL

(* An exec of an ELF or COFF file has released all it took by the time it  *)
(* returns, on every path through do_execve() and the loaders.             *)
THEOREM ExecReleases == Spec => []ExecReleasesAll
<1>1. IInv => ExecReleasesAll
  BY Zenon DEF IInv, ExecReleasesAll, TaskInv, HeldInv, AtUser
<1>2. QED
  BY <1>1, InvHolds, PTL

(* An exec of an ELF or COFF file that succeeds without SIGSEGV has loaded *)
(* the program and tied the task to its format; one that fails after       *)
(* flush_old_exec() is not given to another loader.                        *)
THEOREM OutcomeIsReal == Spec => ExecOutcome
<1>1. IInv => SuccessMeansLoaded
  BY Zenon DEF IInv, SuccessMeansLoaded, TaskInv, LoadInv, AtUser, Loaded
<1> DEFINE Stays == \A t \in Tasks : pc[t] = "walk" /\ "mm" \notin held[t] => pc'[t] # "load"
<1>2. IInv /\ [Next]_vars => [Stays]_vars
  <2>1. SUFFICES ASSUME IInv, Next, NEW t \in Tasks, pc[t] = "walk", "mm" \notin held[t]
                 PROVE  pc'[t] # "load"
    BY Zenon
  <2>2. pc \in [Tasks -> PCs] /\ (cur[t] = NoFmt => "mm" \in held[t])
    BY <2>1, Zenon DEF IInv, TypeOK, TaskInv, HeldInv
  <2>3. pc'[t] = pc[t] \/ pc'[t] # "load" \/ walk_next(t)
    <3>1. CASE \E m \in Mods : ModStep(m)
      BY <3>1, Zenon DEF ModStep, LoadModule, register_binfmt, ModuleLive, DeleteModule,
                  unregister_binfmt, taskVars
    <3>2. ASSUME NEW u \in Tasks, walk_next(u) PROVE pc'[t] = pc[t] \/ walk_next(t)
      BY <2>2, <3>2, Zenon DEF walk_next, Goto, Set
    <3>3. ASSUME NEW u \in Tasks,
                 \/ walk_end(u) \/ walk_break(u) \/ exec_success(u) \/ exec_fail(u)
                 \/ do_execve(u) \/ sys_uselib(u) \/ do_exit(u)
          PROVE  pc'[t] = pc[t] \/ pc'[t] # "load"
      BY <2>2, <3>3, Zenon DEF walk_end, walk_break, exec_success, exec_fail, do_execve, sys_uselib,
                        do_exit, Goto, Set
    <3>4. ASSUME NEW u \in Tasks,
                 \/ load_enoexec(u) \/ load_elf(u) \/ coff_open(u) \/ coff_reject(u)
                 \/ coff_flush(u) \/ coff_args(u) \/ coff_map(u)
          PROVE  pc'[t] = pc[t] \/ pc'[t] # "load"
      BY <2>2, <3>4, Zenon DEF load_enoexec, load_elf, coff_open, coff_reject, coff_flush, coff_args,
                        coff_map, LoaderReturns, Goto, Set
    <3>5. ASSUME NEW u \in Tasks,
                 \/ coff_preload_shlibs(u) \/ coff_done(u) \/ xout_open(u) \/ xout_flush(u)
                 \/ xout_map(u) \/ uselib_next(u) \/ load_shlib_enoexec(u) \/ load_shlib(u)
          PROVE  pc'[t] = pc[t] \/ pc'[t] # "load"
      BY <2>2, <3>5, Zenon DEF coff_preload_shlibs, coff_done, xout_open, xout_flush, xout_map,
                        uselib_next, load_shlib_enoexec, load_shlib, LibReturns, LoaderReturns,
                        Goto, Set
    <3>6. ASSUME NEW s \in Tasks, NEW u \in Tasks, copy_process(s, u)
          PROVE  pc'[t] = pc[t] \/ pc'[t] # "load"
      BY <2>2, <3>6, Zenon DEF copy_process, Goto, Set
    <3> QED BY <2>1, <3>1, <3>2, <3>3, <3>4, <3>5, <3>6, Zenon DEF Next, KernelStep
  <2>4. ~walk_next(t)
    BY <2>1, <2>2, Zenon DEF walk_next, MayGoOn
  <2> QED BY <2>1, <2>3, <2>4, Zenon
<1>3. QED
  BY <1>1, <1>2, InvHolds, PTL DEF Spec, ExecOutcome, NoLoaderAfterFlush
=============================================================================
