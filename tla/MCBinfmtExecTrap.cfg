CONSTANTS
    t1 = t1
    t2 = t2
    Tasks = {t1}
    Coff = Coff
    Xout = Xout
    Elf = Elf
    Mods = {Coff, Xout}
    NoFmt = NoFmt
    Junk = Junk
    Images = {Coff, Elf}
    MaxLibs = 0
SPECIFICATION Spec
INVARIANTS
    FailedLoadTraps
