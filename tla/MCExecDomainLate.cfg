SPECIFICATION Spec
CONSTANTS
    sco = sco
    ibcs = ibcs
    scoD = scoD
    xenixD = xenixD
    ibcsD = ibcsD
    linux = linux
    svr4 = svr4
    scosvr3 = scosvr3
    osr5 = osr5
    xenix = xenix
    Tasks = {t1, t2}
    FirstTask = t1
    Mods = {sco, ibcs}
    Domains = {scoD, ibcsD}
    Default = Default
    ModOf <- MCModOf
    DomainsOf <- MCDomainsOf
    Personalities = {linux, svr4, osr5}
    PerLinux = linux
    Serves <- MCServes
    EmulPers <- MCEmulPers
    LcallPers = {svr4}
    Fs = {f1, f2, f3}
    NoFs = NoFs
    NoDomain = NoDomain
    NoAlt = NoAlt
    MaxRefs = 2
SYMMETRY FsSymmetry
PROPERTIES
    LateProbingRetries
