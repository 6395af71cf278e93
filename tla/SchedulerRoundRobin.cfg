SPECIFICATION FairSpec
CONSTANTS
    Procs = {p1, p2, p3}
    Shell = p1
    Idle = idle
    RunQueue = runqueue
    None = none
    Workload = {"fork"}
    Readers = {}
    IdlePid = 0
    RingSize = 1
    TimerSlots = 1
    MaxNest = 1
PROPERTY EveryReadyProcessRuns
