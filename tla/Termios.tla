------------------------------ MODULE Termios ------------------------------
(***************************************************************************)
(* The terminal ioctls of System V, SCO and BSD programs                   *)
(* (abi/svr4/termios.c, abi/sco/termios.c): one terminal of Linux' and     *)
(* several processes, each of which sees it through one of the foreign     *)
(* structures.  A call that gets a structure translates Linux' termios; a  *)
(* call that sets one reads the termios, writes the program's fields over  *)
(* it and sets the result, in two calls between which another process may  *)
(* set the terminal.                                                       *)
(*                                                                         *)
(* A flag word is the set of its bit numbers: 16 bits in a termio, 32 in   *)
(* Linux' termios.  Control characters have the indices of Linux' c_cc.    *)
(***************************************************************************)
EXTENDS Integers, TLC

CONSTANTS Procs,
          Sees,       \* the views that each process uses
          Terminals,  \* how the terminal may be set up at first
          Junk,       \* what a character that nobody stored may hold
          MaxSets     \* bound: calls that set the terminal

VARIABLES tty,     \* Linux' termios of the terminal
          user,    \* per process: its view, its structure, the terminal it was got from
          t,       \* per process: the termios that a call under way has read, or None
          sets,    \* calls that set the terminal, begun so far
          raced    \* history: the terminal was set while a call was under way

vars == <<tty, user, t, sets, raced>>

Views == {"termio", "termios", "sco", "termiox", "bsd", "sgttyb", "tchars", "ltchars", "hupcl"}
ICANON == 1          \* of the lflag
TOSTOP == 8
ECHOCTL == 9
CRTSCTS == 31        \* of the cflag
CBAUDEX == 12
CIBAUD == (16 .. 19) \cup {28}
OPOST == 0           \* of the oflag
HUPCL == 10          \* of the cflag
NCCS == 17

Struct(i, o, c, l, cc) == [i |-> i, o |-> o, c |-> c, l |-> l, cc |-> cc]
None == Struct({}, {}, {}, {}, <<>>)
NoUser == [view |-> "none", it |-> None, of |-> None]

(* Bits moved: the pairs of a bit and its new place.  Characters moved: a  *)
(* function from an index to the index it is taken from.                   *)
Moved(word, pairs) == {pr[2] : pr \in {q \in pairs : q[1] \in word}}
Pick(M, cc) == [k \in DOMAIN M |-> cc[M[k]]]
Over(cc, M, from) == [k \in DOMAIN cc |-> IF k \in DOMAIN M THEN from[M[k]] ELSE cc[k]]
Same(S) == [k \in S |-> k]
Canonical(l) == ICANON \in l
Low(word) == word \cap 0 .. 15

-----------------------------------------------------------------------------
(* struct termio: 16 bits, eight characters, VMIN in the place of VEOF     *)
(* unless ICANON is set.                                                   *)
linux_to_svr_termio(tt) ==
    Struct(Low(tt.i), Low(tt.o), Low(tt.c), Low(tt.l),
           Pick(IF ICANON \in tt.l THEN Same(0 .. 7) ELSE (4 :> 6) @@ Same(0 .. 7), tt.cc))

(* The short cflag has no room for CRTSCTS.  TCSETA leaves the upper       *)
(* halves and the other characters as they are by then.                    *)
svr_to_linux_termio_eol2(old, it, now) ==
    LET cc == IF ICANON \in it.l THEN it.cc ELSE (6 :> it.cc[4]) @@ (4 :> old.cc[4]) @@ it.cc
        Merge(new, word) == new \cup (word \ 0 .. 15)
    IN Struct(Merge(it.i, now.i), Merge(it.o, now.o), Merge(it.c \ 12 .. 15, now.c),
              Merge(it.l, now.l),
              (IF ICANON \in it.l THEN << >> ELSE 16 :> it.cc[5]) @@ Over(now.cc, Same(0 .. 7), cc))
svr_to_linux_termio(old, it, now) ==
    LET cc == IF ICANON \in it.l THEN it.cc ELSE (6 :> it.cc[4]) @@ (4 :> old.cc[4]) @@ it.cc
        Merge(new, word) == new \cup (word \ 0 .. 15)
    IN Struct(Merge(it.i, now.i), Merge(it.o, now.o), Merge(it.c \ 12 .. 15, now.c),
              Merge(it.l, now.l), Over(now.cc, Same(0 .. 7), cc))

(* The flags of SVR4's and SCO's termios: IEXTEN and TOSTOP have other     *)
(* places, ECHOCTL none; CRTSFL stands for CRTSCTS.                        *)
to_svr4_lflag(l) == ((l \cap 0 .. 7) \cup Moved(l, {<<TOSTOP, 9>>, <<15, 8>>}))
to_svr4_cflag(c) == Low(c \cup Moved(c, {<<CRTSCTS, 15>>}))
from_svr4_cflag(c) == (c \cup Moved(c, {<<15, CRTSCTS>>})) \ 12 .. 15
(* The old word's bits 9 to 14 stay, and the program's are added; then     *)
(* bit 8 goes to 15, bit 9 to TOSTOP, and ECHOCTL is put back.             *)
from_svr4_lflag(old, l) ==
    LET w == (old \cap ((9 .. 14) \cup (16 .. 31))) \cup Low(l)
    IN (w \ {8, 9, 15}) \cup Moved(w, {<<8, 15>>, <<9, TOSTOP>>}) \cup (old \cap {ECHOCTL})

svr4_get(icanon) ==
    (IF icanon THEN (4 :> 4) @@ (5 :> 11) ELSE (4 :> 6) @@ (5 :> 5))
        @@ (6 :> 16) @@ (11 :> 10) @@ Same((0 .. 3) \cup (7 .. 10) \cup (12 .. 15))
svr4_set(icanon) ==
    (IF icanon THEN (4 :> 4) @@ (11 :> 5) ELSE (5 :> 5) @@ (6 :> 4) @@ (11 :> 6))
        @@ Same((0 .. 3) \cup (7 .. 10) \cup (12 .. 16))
sco_get(icanon) ==
    (IF icanon THEN (4 :> 4) @@ (5 :> 11) ELSE (4 :> 6) @@ (5 :> 5))
        @@ (6 :> 16) @@ (8 :> 4) @@ (9 :> 11) @@ (11 :> 8) @@ (12 :> 9) @@ Same((0 .. 3) \cup {7, 10})
sco_set(icanon) ==
    (IF icanon THEN (4 :> 4) @@ (11 :> 5) ELSE (4 :> 8) @@ (5 :> 5) @@ (6 :> 4) @@ (11 :> 9))
        @@ (8 :> 11) @@ (9 :> 12) @@ (16 :> 6) @@ Same((0 .. 3) \cup {7, 10})

(* Characters 16 to 18 of SVR4's structure are not stored. *)
linux_to_termios(tt, get, junk) ==
    Struct(tt.i \cap 0 .. 12, Low(tt.o), to_svr4_cflag(tt.c), to_svr4_lflag(tt.l),
           Pick(get[Canonical(tt.l)], tt.cc) @@ [k \in 13 .. 18 |-> junk])
termios_to_linux(old, it, set) ==
    LET l == from_svr4_lflag(old.l, it.l)
    IN Struct(it.i \ {15}, it.o, from_svr4_cflag(it.c), l, Over(old.cc, set[Canonical(l)], it.cc))
SvrGet == [b \in BOOLEAN |-> svr4_get(b)]
SvrSet == [b \in BOOLEAN |-> svr4_set(b)]
ScoGet == [b \in BOOLEAN |-> sco_get(b)]
ScoSet == [b \in BOOLEAN |-> sco_set(b)]

(* svr4_termiox_ioctl(): RTSXOFF and CTSXON, or neither. *)
get_termiox(tt) == Struct({}, {}, IF CRTSCTS \in tt.c THEN {0, 1} ELSE {}, {}, <<>>)
set_termiox(old, it) ==
    [old EXCEPT !.c = IF it.c = {} THEN @ \ {CRTSCTS} ELSE @ \cup {CRTSCTS}]

-----------------------------------------------------------------------------
(* BSD's termios.  A speed is the set of the bits of its index: bits 0 to  *)
(* 3 and 12 of the cflag for output, the same 16 places higher for input.  *)
bsd_cc == <<4, 11, 16, 2, 14, 3, 12, 7, 0, 1, 10, 10, 8, 9, 15, 13, 6, 5>>
bsd_get == [k \in 0 .. 17 |-> bsd_cc[k + 1]]
bsd_set == [j \in 0 .. NCCS - 1 |-> CHOOSE k \in 0 .. 17 : k # 11 /\ bsd_get[k] = j]
Speed(c) == c \cap {0, 1, 2, 3, CBAUDEX}

linux_to_bsd_termios(tt) ==
    LET in == {b - 16 : b \in tt.c \cap CIBAUD}
    IN [i |-> (tt.i \cap 0 .. 8) \cup Moved(tt.i, {<<10, 9>>, <<12, 10>>, <<13, 9>>}),
        o |-> (tt.o \cap {0}) \cup Moved(tt.o, {<<2, 1>>}) \cup (IF {11, 12} \subseteq tt.o THEN {2} ELSE {}),
        c |-> (tt.c \cap 12 .. 30) \cup {b + 4 : b \in tt.c \cap 4 .. 11}
              \cup Moved(tt.c, {<<CRTSCTS, 16>>, <<CRTSCTS, 17>>}),
        l |-> (tt.l \cap ({3, 10, 11, 13} \cup 16 .. 29))
              \cup Moved(tt.l, {<<0, 7>>, <<1, 8>>, <<4, 1>>, <<5, 2>>, <<6, 3>>, <<9, 6>>, <<8, 22>>,
                                <<10, 6>>, <<11, 0>>, <<12, 23>>, <<14, 29>>, <<15, 10>>}),
        cc |-> Pick(bsd_get, tt.cc),
        out |-> Speed(tt.c), in |-> IF in = {} THEN Speed(tt.c) ELSE in]

(* Whether the flow control bit is set depends on the old cflag. *)
bsd_to_linux_termios(old, it) ==
    LET c == (old.c \ 0 .. 11) \cup {b - 4 : b \in it.c \cap 8 .. 15}
    IN [i |-> (it.i \ {10, 11}) \cup Moved(it.i, {<<10, 11>>, <<11, 10>>}),
        o |-> (old.o \ {0, 2, 11, 12}) \cup (it.o \cap {0, 3}) \cup Moved(it.o, {<<1, 2>>, <<2, 12>>, <<2, 11>>}),
        c |-> c \cup (IF c \cap {16, 17} # {} THEN {CRTSCTS} ELSE {}) \cup it.out \cup {b + 16 : b \in it.in},
        l |-> (old.l \cap ({2, 3, 6, 13} \cup 16 .. 31))
              \cup Moved(it.l, {<<0, 12>>, <<1, 4>>, <<2, 5>>, <<6, 9>>, <<5, 10>>, <<10, 15>>, <<7, 0>>,
                                <<8, 1>>, <<22, 8>>, <<23, 12>>, <<25, 14>>, <<31, 7>>}),
        cc |-> Over(old.cc, bsd_set, it.cc)]

(* V7's sgttyb: TIOCGETP; TIOCSETP and TIOCSETN make new flags of the few  *)
(* they know.                                                              *)
get_sgttyb(tt) ==
    Struct({}, {}, {},
      Moved(tt.c, {<<9, 6>>, <<8, 7>>}) \cup (IF OPOST \in tt.c THEN {} ELSE {21})
      \cup Moved(tt.o, {<<2, 4>>, <<8, 8>>, <<14, 14>>, <<11, 10>>, <<12, 10>>, <<9, 12>>, <<10, 13>>, <<13, 15>>})
      \cup (tt.l \cap {2, 3})
      \cup (IF Canonical(tt.l) THEN {} ELSE IF 0 \in tt.l THEN {1} ELSE {5}),
      Pick(Same({2, 3}), tt.cc))
set_sgttyb(old, it) ==
    LET On(b, S) == IF b \in it.l THEN S ELSE {}
        l == (({0, 1} \ On(1, {ICANON})) \cup On(3, {3, 4, 5, ECHOCTL, 11, 15})) \ On(5, {0, ICANON})
    IN Struct(IF 5 \in it.l THEN {} ELSE {8, 10}, On(4, {OPOST, 2}) \ On(21, {OPOST}), old.c, l,
              LET cc == Over(old.cc, Same({2, 3}), it.cc)
              IN IF Canonical(l) THEN cc ELSE (6 :> 1) @@ (5 :> 0) @@ cc)

(* TIOCGETC, TIOCSETC; TIOCGLTC, and TIOCSLTC, which stores the dsusp      *)
(* character over VEOL2 before it stores the flush character there.        *)
tchars == Same({0, 1, 8, 9, 4, 16})
ltchars == Same({10, 12, 16, 14, 15})
chars(tt, M) == [None EXCEPT !.cc = Pick(M, tt.cc)]
set_chars(old, it, M) == [old EXCEPT !.cc = Over(@, M, it.cc)]

-----------------------------------------------------------------------------
(* What a program gets, and what its call makes of the termios it read and *)
(* the program's structure, by the view.                                   *)
Got(v, tt, junk) ==
    CASE v = "termio"  -> linux_to_svr_termio(tt)
      [] v = "termios" -> linux_to_termios(tt, SvrGet, junk)
      [] v = "sco"     -> linux_to_termios(tt, ScoGet, junk)
      [] v = "termiox" -> get_termiox(tt)
      [] v = "bsd"     -> linux_to_bsd_termios(tt)
      [] v = "sgttyb"  -> get_sgttyb(tt)
      [] v = "tchars"  -> chars(tt, tchars)
      [] v = "ltchars" -> chars(tt, ltchars)
      [] v = "hupcl"   -> [None EXCEPT !.c = tt.c \cap {HUPCL}]
Put(v, old, it, now) ==
    CASE v = "termio"  -> svr_to_linux_termio(old, it, now)
      [] v = "termios" -> termios_to_linux(old, it, SvrSet)
      [] v = "sco"     -> termios_to_linux(old, it, ScoSet)
      [] v = "termiox" -> set_termiox(old, it)
      [] v = "bsd"     -> bsd_to_linux_termios(old, it)
      [] v = "sgttyb"  -> set_sgttyb(old, it)
      [] v = "tchars"  -> set_chars(old, it, tchars)
      [] v = "ltchars" -> set_chars(old, it, ltchars)
      [] v = "hupcl"   -> [old EXCEPT !.c = (@ \ {HUPCL}) \cup it.c]

Init ==
    /\ tty \in Terminals /\ sets = 0 /\ raced = FALSE
    /\ user = [p \in Procs |-> NoUser] /\ t = [p \in Procs |-> None]

(* svr4_term_ioctl(), sco_term_ioctl(), svr4_termiox_ioctl() and           *)
(* bsd_ioctl_termios(): the calls that get.                                *)
get(p, v, junk) ==
    /\ user[p] = NoUser /\ sets < MaxSets
    /\ user' = [user EXCEPT ![p] = [view |-> v, it |-> Got(v, tty, junk), of |-> tty]]
    /\ UNCHANGED <<tty, t, sets, raced>>

(* The program changes what it got: a mode, or its characters.  TIOCHPCL   *)
(* has no call that gets: the program knows or guesses the flag.           *)
edit(p) ==
    /\ t[p] = None /\ user[p].of # None
    /\ user' = [user EXCEPT ![p].of = None, ![p].it =
          IF user[p].view \in {"termio", "termios", "sco"}
          THEN [@ EXCEPT !.l = IF Canonical(@) THEN @ \ {ICANON} ELSE @ \cup {ICANON}]
          ELSE IF user[p].view = "sgttyb" THEN [@ EXCEPT !.l = {1, 3}]
          ELSE IF user[p].view = "termiox" THEN [@ EXCEPT !.c = {0, 1} \ @]
          ELSE IF user[p].view = "hupcl" THEN [@ EXCEPT !.c = {HUPCL} \ @]
          ELSE [@ EXCEPT !.cc = [k \in DOMAIN @ |-> 0]]]
    /\ UNCHANGED <<tty, t, sets, raced>>

(* The calls that set: TCGETS, and then one of TCSETS, TCSETSW, TCSETSF. *)
set_read(p) ==
    /\ t[p] = None /\ user[p].view # "none" /\ sets < MaxSets
    /\ t' = [t EXCEPT ![p] = tty] /\ sets' = sets + 1 /\ UNCHANGED <<tty, user, raced>>
set_write(p) ==
    /\ t[p] # None
    /\ tty' = Put(user[p].view, t[p], user[p].it, tty)
    /\ t' = [t EXCEPT ![p] = None] /\ user' = [user EXCEPT ![p] = NoUser]
    /\ UNCHANGED sets
    /\ raced' = (raced \/ \E q \in Procs \ {p} : t[q] # None)

Next ==
    \E p \in Procs :
      \/ \E v \in Sees[p], junk \in Junk : get(p, v, junk)
      \/ edit(p) \/ set_read(p) \/ set_write(p)

Spec == Init /\ [][Next]_vars

-----------------------------------------------------------------------------
TypeOK ==
    /\ DOMAIN tty.cc = 0 .. NCCS - 1 /\ tty.l \subseteq 0 .. 31 /\ tty.c \subseteq 0 .. 31
    /\ sets \in 0 .. MaxSets /\ raced \in BOOLEAN

(* What a view leaves alone, and what it keeps when the program sets what  *)
(* it got.  SVR4's structure does not show VEOL2, and has its character    *)
(* for VEOL in raw mode; the flags of BSD's and V7's are different ones.   *)
Flags(tt) == <<tt.i, tt.o, tt.c, tt.l>>
SvrShows(tt) ==
    tt.i \subseteq 0 .. 12 /\ tt.c \cap 12 .. 30 = {} /\ ECHOCTL \notin tt.l
Agree(a, b, S) == \A k \in S : a.cc[k] = b.cc[k]
Keeps(v, tt, new) ==
    CASE v \in {"termiox", "tchars", "ltchars", "hupcl"} -> new = tt
      [] v = "termio"  -> CBAUDEX \notin tt.c => new = tt
      [] v = "sco"     -> SvrShows(tt) => new = tt
      [] v = "termios" -> /\ SvrShows(tt) => Flags(new) = Flags(tt)
                          /\ Agree(tt, new, (0 .. 15) \ IF Canonical(tt.l) THEN {} ELSE {11})
      [] v = "bsd"     -> new.cc = tt.cc
      [] v = "sgttyb"  -> new.c = tt.c /\ Agree(tt, new, (0 .. 16) \ {5, 6})
Leaves(v, tt, new) ==
    CASE v = "termiox" -> new = [tt EXCEPT !.c = new.c] /\ new.c \cup {CRTSCTS} = tt.c \cup {CRTSCTS}
      [] v = "hupcl"   -> new = [tt EXCEPT !.c = new.c] /\ new.c \cup {HUPCL} = tt.c \cup {HUPCL}
      [] v = "tchars"  -> Flags(new) = Flags(tt) /\ Agree(tt, new, (0 .. 16) \ DOMAIN tchars)
      [] v = "ltchars" -> Flags(new) = Flags(tt) /\ Agree(tt, new, (0 .. 16) \ DOMAIN ltchars)
      [] v = "termio"  -> Agree(tt, new, 8 .. 16)
      [] v = "sco"     -> Agree(tt, new, 12 .. 15)
      [] OTHER         -> TRUE

(* A program that sets what it got keeps the terminal as it was, as far as *)
(* its structure shows it: the translations of each pair of calls undo     *)
(* each other, in canonical mode and out of it.                            *)
SetAfterGetKeeps ==
    \A p \in Procs :
      (user[p].of # None /\ user[p].of = tty)
         => Keeps(user[p].view, tty, Put(user[p].view, tty, user[p].it, tty))

(* A call sets the fields of its own structure and no others, though it    *)
(* writes the whole of Linux' termios: unless the terminal was set while a *)
(* call was under way, the rest is as it was.                              *)
LeavesTheRest ==
    \A p \in Procs :
      (t[p] # None /\ t'[p] = None /\ ~raced) => Leaves(user[p].view, tty, tty')
SetsOnlyItsOwn == [][LeavesTheRest]_vars
=============================================================================
