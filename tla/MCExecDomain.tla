---------------------------- MODULE MCExecDomain ----------------------------
(* Instances of ExecDomain for TLC: the sco module registers the domains   *)
(* OpenServer and Xenix, the ibcs module registers one.                    *)
EXTENDS ExecDomain, TLC

CONSTANTS sco, ibcs, scoD, xenixD, ibcsD, linux, svr4, scosvr3, osr5, xenix

MCModOf == [d \in Domains |-> IF d = ibcsD THEN ibcs ELSE sco]
MCDomainsOf ==
    [m \in Mods |-> CASE m = ibcs -> <<ibcsD>>
                      [] xenixD \in Domains -> <<scoD, xenixD>>
                      [] OTHER -> <<scoD>>]
MCServes ==
    [d \in AllDomains |-> Personalities \cap
        CASE d = Default -> {linux}
          [] d = scoD    -> {scosvr3, osr5}
          [] d = xenixD  -> {xenix}
          [] d = ibcsD   -> {svr4}]
MCEmulPers == Personalities \ {linux}

FsSymmetry == Permutations(Fs)
=============================================================================
