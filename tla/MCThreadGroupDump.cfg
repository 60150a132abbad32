CONSTANTS
    t1 = t1
    t2 = t2
    t3 = t3
    None = None
    Tasks <- TwoTasks
    InitTask = t1
    CloneFlags <- Threads
    Objs <- MCObjs
SPECIFICATION FairSpec
PROPERTY DumpEnds
CHECK_DEADLOCK FALSE
