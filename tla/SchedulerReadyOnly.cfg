SPECIFICATION Spec
CONSTANTS
    Procs = {p1}
    Shell = p1
    Idle = idle
    RunQueue = runqueue
    None = none
    Workload = {"nanosleep", "exit"}
    Readers = {}
    IdlePid = 0
    RingSize = 1
    TimerSlots = 1
    MaxNest = 2
CHECK_DEADLOCK FALSE
INVARIANT RunQueueReadyOnly
