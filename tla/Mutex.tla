-------------------------------- MODULE Mutex --------------------------------
(***************************************************************************)
(* The mutex (mutex.c, spinlock.c, wait.c) as sys_test_mutex uses it: the  *)
(* holder sleeps inside, contenders put an entry on the wait list that     *)
(* lies on their own kernel stack and block.                               *)
(*                                                                         *)
(* One core.  The interrupt mask is not part of a thread's context: who is *)
(* switched in by the idle process runs with IRQs enabled, in the kernel   *)
(* too, so every access to shared state is a step of its own.              *)
(* list_add inserts at the front: run queue and wait list are stacks here  *)
(* (Scheduler and LinkedList have the links).  The idle process is not on  *)
(* the run queue and its call of scheduler() is one step.                  *)
(***************************************************************************)
EXTENDS Naturals, Sequences, FiniteSets, SequencesExt

CONSTANTS
    Users,      \* the processes that call sys_test_mutex
    IdleTask,
    Nobody,     \* MUTEX_UNLOCKED
    MaxFrames   \* bound: interrupt frames on one kernel stack

ASSUME MutexAssumption ==
    /\ Users # {} /\ IsFiniteSet(Users)
    /\ IdleTask \notin Users /\ Nobody \notin Users \cup {IdleTask}
    /\ MaxFrames \in Nat \ {0}

VARIABLES
    owner,      \* mutex->owner
    waitLock,   \* mutex->wait_lock
    waiters,    \* mutex->wait_list: the processes whose entry is linked
    pc,         \* the next step of a process
    frames,     \* interrupt frames on its stack
    pstate,     \* pcb->state
    runq,       \* the run queue
    napping,    \* the processes in sleep_timer_queue
    cpu,        \* get_current()
    irqsOff,    \* IRQs are masked
    broken,     \* a list has a link to a dead stack or a node linked twice
    raced,      \* history: an interrupt was taken inside of sys_test_mutex
    page,       \* cacheable_page is allocated
    junk,       \* history: its memory was not 0 where wait_lock lies
    woken       \* history: the waiter that was woken and did not try yet

threadVars == <<pc, frames>>
queueVars  == <<pstate, runq, cpu>>
lockVars   == <<owner, waitLock, waiters>>
setUpVars  == <<page, junk>>
mutexVars  == <<lockVars, threadVars, queueVars, napping, irqsOff, broken, raced, setUpVars, woken>>

Tasks == Users \cup {IdleTask}
-----------------------------------------------------------------------------
(* scheduler.c.  scheduler() with process states st and run queue q. *)
SwitchTo(n, st, q) == cpu' = n /\ pstate' = [st EXCEPT ![n] = "RUNNING"] /\ runq' = q

SchedulerCall(st, q) ==
    CASE q = <<>> /\ st[cpu] = "RUNNING" -> pstate' = st /\ runq' = q /\ cpu' = cpu
      [] q = <<>> /\ st[cpu] # "RUNNING" -> SwitchTo(IdleTask, st, q)
      [] q # <<>> /\ Head(q) = cpu       -> pstate' = st /\ runq' = q /\ cpu' = cpu
      [] OTHER -> IF st[cpu] = "RUNNING"
                  THEN SwitchTo(Head(q), [st EXCEPT ![cpu] = "READY"],
                                (IF cpu = IdleTask THEN <<>> ELSE <<cpu>>) \o Tail(q))
                  ELSE SwitchTo(Head(q), st, Tail(q))

(* list_remove: a node that is not linked points to itself. *)
Unlinked(p) == IF p \in ToSet(runq) THEN Remove(runq, p) ELSE runq

(* deschedule() *)
Deschedule == IF pstate[cpu] = "RUNNING"
         THEN SchedulerCall([pstate EXCEPT ![cpu] = "BLOCKED"], Unlinked(cpu))
         ELSE SchedulerCall(pstate, runq)

(* reschedule(p): a process that is linked already breaks the list. *)
WakeUp(p) ==
    /\ pstate' = [pstate EXCEPT ![p] = "READY"] /\ runq' = <<p>> \o runq
    /\ broken' = (p \in ToSet(runq)) /\ UNCHANGED cpu

(* The current process p takes the step at label and goes on at next. *)
At(p, label, next) ==
    /\ ~broken /\ cpu = p /\ frames[p] = 0 /\ pc[p] = label
    /\ pc' = [pc EXCEPT ![p] = next]
    /\ UNCHANGED <<frames, raced>>
-----------------------------------------------------------------------------
(* sys_test_mutex: an exception masks IRQs.  The first call allocates the  *)
(* page of the mutex, which is not cleared, and sets owner and the list    *)
(* head only.                                                              *)
Enter(p) ==
    /\ At(p, "user", "try") /\ irqsOff' = TRUE /\ page' = TRUE
    /\ IF page THEN UNCHANGED <<waitLock, junk>>
               ELSE waitLock' \in {0, 1} /\ junk' = (waitLock' # 0)
    /\ UNCHANGED <<owner, waiters, queueVars, napping, broken, woken>>

\* Mutant: a failed attempt puts MUTEX_UNLOCKED back.
TryPutsBack(p) ==
    /\ At(p, "try", IF owner = Nobody THEN "nap" ELSE "lock")
    /\ owner' = IF owner = Nobody THEN p ELSE Nobody
    /\ broken' = (owner = Nobody /\ p \in ToSet(waiters))
    /\ woken' = IF woken = p THEN Nobody ELSE woken
    /\ UNCHANGED <<waitLock, waiters, queueVars, napping, irqsOff, setUpVars>>

(* ACQUIRE: the swap stores p also when the mutex is held.  A return with   *)
(* the entry still linked leaves a link to a dead stack frame.              *)
Try(p) ==
    /\ At(p, "try", IF owner = Nobody THEN "nap" ELSE "lock")
    /\ owner' = p
    /\ broken' = (owner = Nobody /\ p \in ToSet(waiters))
    /\ woken' = IF woken = p THEN Nobody ELSE woken
    /\ UNCHANGED <<waitLock, waiters, queueVars, napping, irqsOff, setUpVars>>

(* spinlock_acquire: nothing happens while the lock is taken. *)
SpinlockAcquire(p, label, next) ==
    /\ At(p, label, next)
    /\ waitLock = 0 /\ waitLock' = 1
    /\ UNCHANGED <<owner, waiters, queueVars, napping, irqsOff, broken, woken, setUpVars>>

SpinlockRelease(p, label, next) ==
    /\ At(p, label, next)
    /\ waitLock' = 0
    /\ UNCHANGED <<owner, waiters, queueVars, napping, irqsOff, broken, woken, setUpVars>>

Lock(p) == SpinlockAcquire(p, "lock", "link")

\* Mutant: the entry is linked only if the list is empty, as pipe_read does.
LinkEntryFirst(p) ==
    /\ At(p, "link", "mark")
    /\ waiters' = IF waiters = <<>> THEN <<p>> ELSE waiters
    /\ UNCHANGED <<owner, waitLock, queueVars, napping, irqsOff, broken, woken, setUpVars>>

LinkEntry(p) ==
    /\ At(p, "link", "mark")
    /\ waiters' = IF p \in ToSet(waiters) THEN waiters ELSE <<p>> \o waiters
    /\ UNCHANGED <<owner, waitLock, queueVars, napping, irqsOff, broken, woken, setUpVars>>

Mark(p) ==
    /\ At(p, "mark", "unlock") /\ pstate' = [pstate EXCEPT ![p] = "BLOCKED"]
    /\ UNCHANGED <<lockVars, runq, cpu, napping, irqsOff, broken, woken, setUpVars>>

Unlock(p) == SpinlockRelease(p, "unlock", "block")

BlockInQueue(p) ==
    /\ At(p, "block", "try") /\ Deschedule
    /\ UNCHANGED <<lockVars, napping, irqsOff, broken, woken, setUpVars>>

(* timer_nanosleep and deschedule of the holder. *)
Nap(p) ==
    /\ At(p, "nap", "asleep") /\ napping' = napping \cup {p}
    /\ UNCHANGED <<lockVars, queueVars, irqsOff, broken, woken, setUpVars>>

Sleep(p) ==
    /\ At(p, "asleep", "store") /\ Deschedule
    /\ UNCHANGED <<lockVars, napping, irqsOff, broken, woken, setUpVars>>

(* mutex_release *)
Store(p) ==
    /\ At(p, "store", "rlock") /\ owner' = Nobody
    /\ UNCHANGED <<waitLock, waiters, queueVars, napping, irqsOff, broken, woken, setUpVars>>

ReleaseLock(p) == SpinlockAcquire(p, "rlock", "wake")

Wake(p) ==
    /\ At(p, "wake", IF waiters = <<>> THEN "runlock" ELSE "unlink")
    /\ IF waiters = <<>> THEN UNCHANGED <<queueVars, broken, woken>>
                         ELSE WakeUp(Head(waiters)) /\ woken' = Head(waiters)
    /\ UNCHANGED <<lockVars, napping, irqsOff, setUpVars>>

Unlink(p) ==
    /\ At(p, "unlink", "runlock") /\ waiters' = Tail(waiters)
    /\ UNCHANGED <<owner, waitLock, queueVars, napping, irqsOff, broken, woken, setUpVars>>

ReleaseUnlock(p) == SpinlockRelease(p, "runlock", "yield")

\* Mutant: mutex_release returns without calling scheduler().
YieldNot(p) ==
    /\ At(p, "yield", "return")
    /\ UNCHANGED <<lockVars, queueVars, napping, irqsOff, broken, woken, setUpVars>>

Yield(p) ==
    /\ At(p, "yield", "return") /\ SchedulerCall(pstate, runq)
    /\ UNCHANGED <<lockVars, napping, irqsOff, broken, woken, setUpVars>>

(* kernel_exit and eret to user mode *)
Return(p) ==
    /\ At(p, "return", "user") /\ irqsOff' = FALSE
    /\ UNCHANGED <<lockVars, queueVars, napping, broken, woken, setUpVars>>
-----------------------------------------------------------------------------
(* Interrupts, and the idle process, which enables them. *)
InterruptsKernel == cpu # IdleTask /\ (pc[cpu] # "user" \/ frames[cpu] > 0)

Quantum ==
    /\ ~broken /\ ~irqsOff /\ frames[cpu] < MaxFrames
    /\ frames' = [frames EXCEPT ![cpu] = @ + 1] /\ irqsOff' = TRUE
    /\ raced' = (raced \/ InterruptsKernel)
    /\ SchedulerCall(pstate, runq)
    /\ UNCHANGED <<lockVars, pc, napping, broken, setUpVars, woken>>

Alarm(p) ==
    /\ ~broken /\ ~irqsOff /\ p \in napping
    /\ napping' = napping \ {p} /\ WakeUp(p)
    /\ raced' = (raced \/ InterruptsKernel)
    /\ UNCHANGED <<lockVars, threadVars, irqsOff, setUpVars, woken>>

ReturnFromIrq ==
    /\ ~broken /\ frames[cpu] > 0
    /\ frames' = [frames EXCEPT ![cpu] = @ - 1] /\ irqsOff' = FALSE
    /\ UNCHANGED <<lockVars, pc, queueVars, napping, broken, raced, setUpVars, woken>>

IdleLoop ==
    /\ ~broken /\ cpu = IdleTask /\ frames[cpu] = 0
    /\ irqsOff' = FALSE /\ SchedulerCall(pstate, runq)
    /\ UNCHANGED <<lockVars, threadVars, napping, broken, raced, setUpVars, woken>>
-----------------------------------------------------------------------------
(* One process runs; the others were forked by it. *)
MutexInit ==
    /\ waitLock = 0 /\ page = FALSE /\ junk = FALSE
    /\ owner = Nobody /\ waiters = <<>> /\ napping = {} /\ woken = Nobody
    /\ cpu = CHOOSE p \in Users : TRUE
    /\ pc = [t \in Tasks |-> "user"]
    /\ frames = [t \in Tasks |-> IF t = cpu THEN 0 ELSE 1]
    /\ pstate = [t \in Tasks |-> IF t = cpu THEN "RUNNING" ELSE "READY"]
    /\ runq = SetToSeq(Users \ {cpu})
    /\ irqsOff = FALSE /\ broken = FALSE /\ raced = FALSE

Acquire(p) == Try(p) \/ Lock(p) \/ LinkEntry(p) \/ Mark(p) \/ Unlock(p) \/ BlockInQueue(p)
Release(p) == Store(p) \/ ReleaseLock(p) \/ Wake(p) \/ Unlink(p) \/ ReleaseUnlock(p) \/ Yield(p)

MutexNext ==
    \/ \E p \in Users : Enter(p) \/ Acquire(p) \/ Nap(p) \/ Sleep(p) \/ Release(p) \/ Return(p) \/ Alarm(p)
    \/ Quantum \/ ReturnFromIrq \/ IdleLoop

MutexSpec == MutexInit /\ [][MutexNext]_mutexVars
-----------------------------------------------------------------------------
Holds(p) == pc[p] \in {"nap", "asleep", "store"}

(* Two processes never hold the mutex together, wherever interrupts fall   *)
(* and although a failed attempt to acquire overwrites owner.              *)
MutexExclusion == \A p, q \in Users : Holds(p) /\ Holds(q) => p = q

(* As long as no interrupt is taken inside of the calls, a process that    *)
(* blocked for the mutex has its entry on the list, and somebody holds the *)
(* mutex, is about to wake a waiter, or runs towards the mutex and will    *)
(* release it.  Nobody spins on the wait lock (on one core it would spin   *)
(* for ever with IRQs masked), and no list gets a dead or a second link.   *)
WaiterIsRemembered ==
    ~(raced \/ junk) =>
        /\ \A p \in Users : pc[p] = "try" /\ pstate[p] = "BLOCKED" =>
              /\ p \in ToSet(waiters)
              /\ \E q \in Users : \/ Holds(q) \/ pc[q] \in {"rlock", "wake"}
                                  \/ pc[q] = "try" /\ pstate[q] # "BLOCKED"
        /\ pc[cpu] \in {"lock", "rlock"} /\ frames[cpu] = 0 => waitLock = 0
        /\ ~broken

(* "invoke the scheduler to allow the processes released by this mutex to  *)
(* acquire it before this process acquires it again" (mutex.c:72): after a *)
(* release the woken waiter is the next one that tries.                    *)
HandedOver ==
    [][\A p \in Users : ~raced /\ Try(p) => woken \in {Nobody, p}]_mutexVars
=============================================================================
