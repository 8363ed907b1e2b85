SPECIFICATION FairSpec
CONSTANTS
    kRoot = kRoot
    kLeft = kLeft
    kRight = kRight
    kShared = kShared
    kUnused = kUnused
    dRun = dRun
    dMid = dMid
    dShared = dShared
    w1 = w1
    w2 = w2
    Workers <- MCWorkers
    Main = Main
    Instances <- MCInstances
    Root = kRoot
    Calls <- MCCalls
    Defs <- MCDefs
    DefOf <- MCDefOf
    RootOnMain = TRUE
    MayErr <- RootOrShared
    MayPanic <- AnyInstance
    BadBackend <- AnyWorker
    Stop = Stop
    NoTask = NoTask
    NoThread = NoThread
CHECK_DEADLOCK FALSE
INVARIANTS
    MainModuleLast
PROPERTIES
    Completes
