SPECIFICATION MCSpec
CONSTANTS
    Parts = {"group", "fork", "traps", "pipe", "signal", "wait", "rlimit"}
    t1 = t1
    t2 = t2
    t3 = t3
    None = None
    Tasks <- MCTasks
    InitTask = t1
    CloneFlags <- MCFlags
    Objs <- MCObjs
    Areas <- MCAreas
    MapFiles = {1}
    MaxAreas = 3
    CommitLimit = 6
    Ports = {0, 1, 2}
    Values = {0, 1}
    Excs <- MCExcs
    Addrs = {"a", "b"}
    Fds = {1, 2, 3}
    Files = {1, 2, 3, 4}
    Inodes = {1, 2}
    Pers = {"xenix", "wyse", "uw7"}
    UserSignals = {2, 9, 16, 40}
    Handled = {9, 16, 40}
    Masks <- MCMasks
    MaxFrames = 1
    Children = {2}
    Exits = {0, 3}
    Hits = {10, 11, 18, 20, 21}
    Kills = {9, 16}
    Limits = {1, 3}
    Asked = {1}
    Start <- MCStart
SYMMETRY Symmetry
INVARIANTS
    TypesOK
    TablesAreOwned
    GroupActionsAreAlone
    FailedCallsLeaveNothing
    LazyStateIsTheTasksOwn
PROPERTIES
    
    
    LimitsHold
CHECK_DEADLOCK FALSE
