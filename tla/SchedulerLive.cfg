SPECIFICATION FairSpec
CONSTANTS
    Procs = {p1, p2}
    Shell = p1
    Idle = idle
    RunQueue = runqueue
    None = none
    Workload = {"fork", "waitid", "read", "exit"}
    Readers = {p1}
    IdlePid = 0
    RingSize = 1
    TimerSlots = 1
    MaxNest = 1
PROPERTY EveryReadyProcessRuns
PROPERTY WaitidReturns
