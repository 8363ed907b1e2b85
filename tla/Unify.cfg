SPECIFICATION Spec
CONSTANTS
    NoValue = NoValue
    List = "list"
    Programs <- AllPrograms
    MaxUnifies = 3
    MaxLog = 1
INVARIANTS
    Sound
    MostGeneral
    Complete
    Quiescent
    CallsInstantiate
PROPERTIES
    RollbackExact
    ShareKeepsMeaning
CHECK_DEADLOCK FALSE
