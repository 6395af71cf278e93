SPECIFICATION Spec
CONSTANTS
    Procs = {p1, p2, p3, p4}
    Shell = p1
    Idle = idle
    RunQueue = runqueue
    None = none
    Workload = {"fork", "waitid", "read", "exit"}
    Readers = {p1}
    IdlePid = 0
    RingSize = 2
    TimerSlots = 1
    MaxNest = 1
INVARIANTS
    TypeOK
    RunQueueInv
    QueueReachesReady
    KernelStackInv
    StaleWaitHarmless
    BlockedHasWaker
    IdleOnlyWhenNothingReady
