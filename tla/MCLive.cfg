SPECIFICATION MCSpec
CONSTANTS
    r1 = r1
    r2 = r2
    w1 = w1
    NoProc = NoProc
    Readers = {r1, r2}
    Writers = {w1}
    NonBlock = {r1}
    ReadSizes = {2}
    WriteSizes = {3}
    PIPE_BUFFERS = 2
    PAGE_SIZE = 1
    Polling = {}
    Signalled = {r1}
    ByteMod = 1
    Tasks = {t1}
    Coff = Coff
    Xout = Xout
    Elf = Elf
    Mods = {Coff, Xout}
    NoFmt = NoFmt
    Junk = Junk
    Images = {Coff, Xout, Elf, Junk}
    MaxLibs = 2
CHECK_DEADLOCK FALSE
PROPERTIES
    CloseReleases
    SleepersProgress
    ExecReturns
