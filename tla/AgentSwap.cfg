CONSTANTS
    scheduler = scheduler
    socket = socket
    Absent = Absent
    Empty = Empty
    Mixed = Mixed
    NoTask = NoTask
    Task = {scheduler}
    Scheduler = scheduler
    MaxPrompts = 2
    MaxSeq = 3
    Demands <- AnyDemands
    Faults = {"place"}
    MaxFaults = 1
    MaxRollbacks = 0
SPECIFICATION Spec
INVARIANT OldVersionKept
CHECK_DEADLOCK FALSE
