SPECIFICATION MCSpec
CONSTANTS
  Parts = {"lcall7"}
  Readers = {r1, r2}
  Writers = {w1, w2}
  Families = {f1, f2}
  NULL = NULL
  Threads = {t1, t2}
  Socks = {s1, s2}
  Fds = {1, 2}
  Callers = {c1, c2}
  FDs = {0, 1, 2}
  Files = {1, 2}
  Abis = {"socksys", "wyse", "solaris"}
  Options <- MCOptions
  Values = {1}
  UserFlags <- MCUserFlags
  CONFIG_ABI_XTI = TRUE
  LCalls <- MCLCalls
  Results <- MCResults
  Dir <- MCDir
  Counts = {24, 60}
  Procs = {1, 2}
  Sees <- MCSees
  Terminals <- MCTerminals
  Junk = {0, 7}
  MaxSets = 2
  Uids = {5, 70000}
  Modes = {0, 6}
  Sizes = {100, 70000}
  Nsems = 3
  Arrays <- MCArrays
  Addresses <- MCAddresses
  Abi <- MCAbi
  Owner <- MCOwner
  FileFlags <- MCFileFlags
  Names <- MCNames
  Domains <- MCDomains
  Rooms = {1, 3}
  Systems = {"ibcs", "sco", "uw7", "solaris", "wyse"}
  Ids <- MCIds
  FileSizes <- MCFileSizes
  FileUids = {0, 70000}
SYMMETRY Symmetry
CHECK_DEADLOCK FALSE
INVARIANTS
  IndirectCallsFindTheirArguments
