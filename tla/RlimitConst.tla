---------------------------- MODULE RlimitConst -----------------------------
(***************************************************************************)
(* The numbers of Rlimit, in blocks of 512 bytes, ulimit()'s unit.         *)
(***************************************************************************)
EXTENDS Integers

CONSTANTS Limits,      \* blocks that programs ask for
          Asked,       \* bound: the resources of setrlimit64(), of 0 .. 6
          Start        \* the limits a process starts with: pairs of cur and max

RLIMIT_FSIZE == 1
RLIMIT_NOFILE == 7
Resources == 0 .. 9
INFINITY == 8388607              \* RLIM_INFINITY >> 9
ULIM_MAX_BLOCKSIZE == 4194303
NR_OPEN == 2048                  \* 1024 * 1024 >> 9

(* A process starts with every soft limit within its hard limit.           *)
ASSUME RlimitAssumption ==
    /\ Limits \subseteq 0 .. INFINITY /\ Asked \subseteq Resources
    /\ Start \subseteq [cur : 0 .. INFINITY, max : 0 .. INFINITY]
    /\ \A s \in Start : s.cur <= s.max
=============================================================================
