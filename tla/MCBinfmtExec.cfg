CONSTANTS
    t1 = t1
    t2 = t2
    Tasks = {t1, t2}
    Coff = Coff
    Xout = Xout
    Elf = Elf
    Mods = {Coff}
    NoFmt = NoFmt
    Junk = Junk
    Images = {Coff, Xout, Elf}
    MaxLibs = 1
SPECIFICATION Spec
SYMMETRY Symmetric
INVARIANTS
    TypeOK
    FormatsAreHeld
    ExecReleasesAll

    
