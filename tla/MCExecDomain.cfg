SPECIFICATION Spec
CONSTANTS
    sco = sco
    ibcs = ibcs
    scoD = scoD
    xenixD = xenixD
    ibcsD = ibcsD
    linux = linux
    svr4 = svr4
    scosvr3 = scosvr3
    osr5 = osr5
    xenix = xenix
    Tasks = {t1, t2}
    FirstTask = t1
    Mods = {sco}
    Domains = {scoD, xenixD}
    Default = Default
    ModOf <- MCModOf
    DomainsOf <- MCDomainsOf
    Personalities = {linux, scosvr3, osr5, xenix}
    PerLinux = linux
    Serves <- MCServes
    EmulPers <- MCEmulPers
    LcallPers = {osr5, xenix}
    Fs = {f1, f2, f3}
    NoFs = NoFs
    NoDomain = NoDomain
    NoAlt = NoAlt
    MaxRefs = 3
SYMMETRY FsSymmetry
INVARIANTS
    TypeOK
    DomainsInUsePinned
    RegistrySound
    RefsAccounted
    DomainServesPersonality
PROPERTIES
    FsIsPrivate
    ImplementsService
CHECK_DEADLOCK FALSE
