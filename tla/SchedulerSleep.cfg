SPECIFICATION Spec
CONSTANTS
    Procs = {p1, p2}
    Shell = p1
    Idle = idle
    RunQueue = runqueue
    None = none
    Workload = {"fork", "waitid", "read", "nanosleep", "exit"}
    Readers = {p1, p2}
    IdlePid = 0
    RingSize = 1
    TimerSlots = 2
    MaxNest = 2
CHECK_DEADLOCK FALSE
INVARIANT TimerArmedForSleepers
 
