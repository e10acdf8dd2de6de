CONSTANTS
    scheduler = scheduler
    socket = socket
    Absent = Absent
    Empty = Empty
    Mixed = Mixed
    NoTask = NoTask
    Task = {scheduler, socket}
    Scheduler = scheduler
    MaxPrompts = 1
    MaxSeq = 3
    Demands <- AnyDemands
    Faults <- AllFaults
    MaxFaults = 2
    MaxRollbacks = 1
SPECIFICATION Spec
INVARIANTS TypeOK OldVersionSurvives
PROPERTIES SettlesWhatItSwapped CatchesUp
CHECK_DEADLOCK FALSE
