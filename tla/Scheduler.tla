------------------------------ MODULE Scheduler ------------------------------
(***************************************************************************)
(* The scheduler, the life of a process and the calls that block: fork,    *)
(* waitid, exit, nanosleep, a read of the keyboard, the timer and keyboard *)
(* interrupts and the idle process.  The kernel uses one core.             *)
(*                                                                         *)
(* Granularity.  An exception enters the kernel with IRQs masked, and      *)
(* nothing but the idle process unmasks them in the kernel, so a system    *)
(* call or an interrupt handler is one action up to the context switch it  *)
(* ends with; what the process does when it is switched in again is an     *)
(* action of its own.  The idle process calls scheduler() with IRQs        *)
(* enabled: that call is one action per access to shared state, and an     *)
(* interrupt may be taken between any two of them.  The instructions of    *)
(* pre_context_switch are one step also there.                             *)
(***************************************************************************)
EXTENDS Naturals, FiniteSets, LinkedList

CONSTANTS
    Procs,       \* the PCBs that fork can allocate, and the first process
    Shell,       \* the first process (add_shell_to_scheduler)
    Idle,        \* idle_proc
    RunQueue,    \* the list head runqueue
    None,        \* NULL / WAITING_NONE
    Workload,    \* the blocking system calls that the programs use
    Readers,     \* the processes that read the keyboard
    IdlePid,     \* idle_proc->pid, which scheduler_init leaves uninitialized
    RingSize,    \* kbd_pipe.ring_size
    TimerSlots,  \* sleep_timer_queue.size (MAX_PROCESSES)
    MaxNest      \* bound of the model: interrupt frames on one kernel stack

ASSUME SchedulerConstants ==
    /\ IsFiniteSet(Procs) /\ Shell \in Procs
    /\ Idle \notin Procs
    /\ RunQueue \notin Procs \cup {Idle}
    /\ None \notin Procs \cup {Idle, RunQueue}
    /\ IdlePid \in Nat
    /\ RingSize \in Nat \ {0}
    /\ TimerSlots \in Nat \ {0}
    /\ MaxNest \in Nat \ {0}

VARIABLES
    state,       \* pcb->state; "NONE" while the PCB is not allocated
    at,          \* where the thread goes on when it is switched in
    nest,        \* interrupt frames between that point and the stack top
    kstack,      \* the kernel stack is allocated
    waiting_on,  \* pcb->waiting_on
    parent,      \* pcb->parent; its inverse is the children list
    current,     \* get_current()
    masked,      \* PSTATE.I: IRQs are masked
    rq,          \* the run queue, through pcb->runqueue
    newproc,     \* the local variable of the idle process's scheduler() call
    wedged,      \* the kernel went on with a stack that is not there
    avail,       \* kbd_pipe.head - kbd_pipe.tail
    rdWait,      \* the reader whose entry is on kbd_pipe.rd_wait
    sleeping,    \* entries of sleep_timer_queue per process
    items,       \* sleep_timer_queue.items
    armed        \* the virtual timer is enabled (CNTV_CTL)

procVars == <<at, nest, waiting_on, parent>>
cpuVars  == <<state, rq, current, kstack, wedged>>
kbdVars  == <<avail, rdWait>>
timeVars == <<sleeping, items, armed>>
vars == <<procVars, cpuVars, masked, newproc, kbdVars, timeVars>>

Threads == Procs \cup {Idle}
Nodes   == Threads \cup {RunQueue}

IdleLabels == {"enable", "wfi", "test", "empty", "pick", "remove", "ready",
               "switch"}
ProcLabels == {"user", "waitid", "read", "nanosleep", "exited"}
-----------------------------------------------------------------------------
(***************************************************************************)
(* scheduler.c                                                             *)
(***************************************************************************)

\* pid != 0: the thread is moved on and off the run queue.
OnRunQueue(t) == t # Idle \/ IdlePid # 0

\* Mutant: the stack of every thread that stops running is freed.
CheckAndReapBlocked(st) ==
    kstack' = IF st[current] \in {"TERMINATED", "BLOCKED"}
              THEN [kstack EXCEPT ![current] = FALSE] ELSE kstack

\* Mutant: the stack is not freed.
CheckAndReapNothing(st) == kstack' = kstack

\* check_and_reap of the thread that context_switch left: the kernel stack of
\* a terminated process is freed.
CheckAndReap(st) ==
    kstack' = IF st[current] = "TERMINATED"
              THEN [kstack EXCEPT ![current] = FALSE] ELSE kstack

\* context_switch to the stack of n.  A stack that was freed, or a stale
\* position of the stack in use, is the end of the story.
ContextSwitch(n, st) ==
    /\ wedged' = (n = current \/ ~kstack[n])
    /\ CheckAndReap(st)

\* pre_context_switch: n becomes current and RUNNING.
PreContextSwitch(n, st, q) ==
    /\ current' = n
    /\ state' = [st EXCEPT ![n] = "RUNNING"]
    /\ rq' = q
    /\ ContextSwitch(n, st)

\* The early returns of scheduler(): the caller goes on.
NoSwitch(st, q) ==
    /\ state' = st
    /\ rq' = q
    /\ UNCHANGED <<current, kstack, wedged>>

\* The process states and the run queue when scheduler() switches to n.
YieldStates(st) ==
    IF st[current] = "RUNNING" THEN [st EXCEPT ![current] = "READY"] ELSE st

\* Mutant: scheduler() leaves the next process linked.
YieldQueueKeepsNext(n, st, q) ==
    IF st[current] = "RUNNING" /\ OnRunQueue(current)
    THEN ListAdd(q, current, RunQueue) ELSE q

YieldQueue(n, st, q) ==
    LET taken == IF OnRunQueue(n) THEN ListRemove(q, n) ELSE q
    IN  IF st[current] = "RUNNING" /\ OnRunQueue(current)
        THEN ListAdd(taken, current, RunQueue) ELSE taken

\* scheduler() called with process states st and run queue q.
Schedule(st, q) ==
    LET first == q.next[RunQueue] IN
    \/ /\ ListEmpty(q, RunQueue)
       /\ st[current] = "RUNNING"
       /\ NoSwitch(st, q)
    \/ /\ ListEmpty(q, RunQueue)
       /\ st[current] # "RUNNING"
       /\ PreContextSwitch(Idle, st, q)
    \/ /\ ~ListEmpty(q, RunQueue)
       /\ first = current
       /\ NoSwitch(st, q)
    \/ /\ ~ListEmpty(q, RunQueue)
       /\ first # current
       /\ PreContextSwitch(first, YieldStates(st), YieldQueue(first, st, q))

\* deschedule()
Deschedule ==
    IF state[current] = "RUNNING"
    THEN Schedule([state EXCEPT ![current] = "BLOCKED"],
                  ListRemove(rq, current))
    ELSE Schedule(state, rq)

\* reschedule(): no test whether p already is READY or linked.
RescheduleStates(st, p) == [st EXCEPT ![p] = "READY"]
RescheduleQueue(q, p)   == ListAdd(q, p, RunQueue)
-----------------------------------------------------------------------------
(***************************************************************************)
(* Entry to and return from the kernel (entry.S).                          *)
(***************************************************************************)

InUser(call) ==
    /\ ~wedged /\ current # Idle
    /\ at[current] = "user" /\ nest[current] = 0
    /\ call \in Workload

\* Kernel code of the current process, switched in again, goes on at label.
ResumesAt(label) ==
    /\ ~wedged /\ nest[current] = 0
    /\ at[current] = label

\* kernel_exit and eret to user mode: SPSR has IRQs enabled.
ReturnToUser ==
    /\ at' = [at EXCEPT ![current] = "user"]
    /\ masked' = FALSE
    /\ UNCHANGED cpuVars

\* handle_el0_irq / handle_el1_irq: a frame is pushed on the current stack.
IrqEntry ==
    /\ ~wedged /\ ~masked
    /\ nest[current] < MaxNest
    /\ nest' = [nest EXCEPT ![current] = @ + 1]
    /\ masked' = TRUE

\* kernel_exit and eret of an interrupt handler, or ret_from_fork: IRQs were
\* enabled where the frame returns to.
Eret ==
    /\ ~wedged
    /\ nest[current] > 0
    /\ nest' = [nest EXCEPT ![current] = @ - 1]
    /\ masked' = FALSE
    /\ UNCHANGED <<cpuVars, at, waiting_on, parent, newproc, kbdVars, timeVars>>
-----------------------------------------------------------------------------
(***************************************************************************)
(* System calls.                                                           *)
(***************************************************************************)

\* clone_active_proc: the PCB is copied with memcpy, waiting_on included; the
\* child starts at ret_from_fork.
CloneActiveProc(c) ==
    /\ at' = [at EXCEPT ![c] = "user"]
    /\ nest' = [nest EXCEPT ![c] = 1]
    /\ kstack' = [kstack EXCEPT ![c] = TRUE]
    /\ waiting_on' = [waiting_on EXCEPT ![c] = waiting_on[current]]
    /\ parent' = [parent EXCEPT ![c] = current]

\* sys_fork and add_to_schedule.
Fork(c) ==
    /\ InUser("fork")
    /\ state[c] = "NONE"
    /\ state' = RescheduleStates(state, c)
    /\ rq' = RescheduleQueue(rq, c)
    /\ CloneActiveProc(c)
    /\ UNCHANGED <<current, masked, newproc, wedged, kbdVars, timeVars>>

\* The loop of sys_waitid, with m the interrupt mask it runs under.
WaitLoop(child, m) ==
    \/ /\ state[child] = "TERMINATED"
       /\ ReturnToUser
    \/ /\ state[child] # "TERMINATED"
       /\ at' = [at EXCEPT ![current] = "waitid"]
       /\ masked' = m
       /\ Deschedule

\* sys_waitid of a child (without such a child it changes nothing).
Waitid(c) ==
    /\ InUser("waitid")
    /\ parent[c] = current
    /\ waiting_on' = [waiting_on EXCEPT ![current] = c]
    /\ WaitLoop(c, TRUE)
    /\ UNCHANGED <<nest, parent, newproc, kbdVars, timeVars>>

\* Mutant: an if instead of the while of sys_waitid.
ResumeWaitidNoLoop ==
    /\ ResumesAt("waitid")
    /\ ReturnToUser
    /\ UNCHANGED <<nest, waiting_on, parent, newproc, kbdVars, timeVars>>

ResumeWaitid ==
    /\ ResumesAt("waitid")
    /\ WaitLoop(waiting_on[current], masked)
    /\ UNCHANGED <<nest, waiting_on, parent, newproc, kbdVars, timeVars>>

\* Mutant: reap() does not wake the parent.
ReapNoWake == Schedule([state EXCEPT ![current] = "TERMINATED"], rq)

\* reap(): the parent becomes READY if it waits for this process.  (No call
\* sets waiting_on to WAITING_ALL.)
Reap ==
    LET par  == parent[current]
        dead == [state EXCEPT ![current] = "TERMINATED"]
    IN  IF waiting_on[par] = current
        THEN Schedule(RescheduleStates(dead, par), RescheduleQueue(rq, par))
        ELSE Schedule(dead, rq)

\* sys_exit and sys_exit_group.
Exit ==
    /\ InUser("exit")
    /\ Reap
    /\ at' = [at EXCEPT ![current] = "exited"]
    /\ masked' = TRUE
    /\ UNCHANGED <<nest, waiting_on, parent, newproc, kbdVars, timeVars>>

\* scheduler() returned to reap(): sys_exit returns to the caller.
ResumeExit ==
    /\ ResumesAt("exited")
    /\ ReturnToUser
    /\ UNCHANGED <<nest, waiting_on, parent, newproc, kbdVars, timeVars>>

\* pipe_read with a buffer of n bytes.  The entry is linked only when the
\* queue is empty, so the queue never holds more than one.
ReadLoop(n, m) ==
    \/ /\ avail > 0
       /\ avail' = IF n < avail THEN avail - n ELSE 0
       /\ ReturnToUser
       /\ UNCHANGED rdWait
    \/ /\ avail = 0
       /\ rdWait' = IF rdWait = None THEN current ELSE rdWait
       /\ at' = [at EXCEPT ![current] = "read"]
       /\ masked' = m
       /\ Deschedule
       /\ UNCHANGED avail

\* sys_read of the keyboard device.
Read(n) ==
    /\ InUser("read")
    /\ current \in Readers
    /\ ReadLoop(n, TRUE)
    /\ UNCHANGED <<nest, waiting_on, parent, newproc, timeVars>>

ResumeRead(n) ==
    /\ ResumesAt("read")
    /\ ReadLoop(n, masked)
    /\ UNCHANGED <<nest, waiting_on, parent, newproc, timeVars>>

\* timer_nanosleep and pq_add: a full queue drops the request.
TimerNanosleep ==
    /\ IF items < TimerSlots
       THEN /\ sleeping' = [sleeping EXCEPT ![current] = @ + 1]
            /\ items' = items + 1
       ELSE UNCHANGED <<sleeping, items>>
    /\ armed' = TRUE

\* sys_nanosleep
Nanosleep ==
    /\ InUser("nanosleep")
    /\ TimerNanosleep
    /\ at' = [at EXCEPT ![current] = "nanosleep"]
    /\ masked' = TRUE
    /\ Deschedule
    /\ UNCHANGED <<nest, waiting_on, parent, newproc, kbdVars>>

ResumeNanosleep ==
    /\ ResumesAt("nanosleep")
    /\ ReturnToUser
    /\ UNCHANGED <<nest, waiting_on, parent, newproc, kbdVars, timeVars>>
-----------------------------------------------------------------------------
(***************************************************************************)
(* Interrupts (irq.c).                                                     *)
(***************************************************************************)

\* Mutant: the handler of the physical timer does not call scheduler().
TickNoSwitch ==
    /\ IrqEntry
    /\ UNCHANGED <<cpuVars, at, waiting_on, parent, newproc, kbdVars, timeVars>>

\* IRQ 30, the physical timer: the quantum is over.
Tick ==
    /\ IrqEntry
    /\ Schedule(state, rq)
    /\ UNCHANGED <<at, waiting_on, parent, newproc, kbdVars, timeVars>>

\* Mutant: the timer is disabled one sleeper too late.
VirtualTimerStaysArmed(p) ==
    /\ ~wedged /\ ~masked /\ armed
    /\ sleeping[p] > 0
    /\ sleeping' = [sleeping EXCEPT ![p] = @ - 1]
    /\ items' = items - 1
    /\ armed' = (items > 0)
    /\ state' = RescheduleStates(state, p)
    /\ rq' = RescheduleQueue(rq, p)
    /\ UNCHANGED <<current, kstack, wedged, procVars, masked, newproc, kbdVars>>

\* IRQ 27, handle_virtual_timer: the earliest sleeper p becomes READY.  The
\* lengths of the sleeps are arbitrary, so it may be any of them.  The
\* handler returns without calling scheduler().
VirtualTimer(p) ==
    /\ ~wedged /\ ~masked /\ armed
    /\ sleeping[p] > 0
    /\ sleeping' = [sleeping EXCEPT ![p] = @ - 1]
    /\ items' = items - 1
    /\ armed' = (items > 1)
    /\ state' = RescheduleStates(state, p)
    /\ rq' = RescheduleQueue(rq, p)
    /\ UNCHANGED <<current, kstack, wedged, procVars, masked, newproc, kbdVars>>

\* Mutant: no test whether the ring is full.
HandleKeyboardEventOverruns ==
    /\ avail' = avail + 1
    /\ UNCHANGED rdWait
    /\ Schedule(state, rq)

\* Mutant: a key wakes its reader without calling scheduler().
HandleKeyboardEventNoSwitch ==
    /\ avail < RingSize
    /\ avail' = avail + 1
    /\ rdWait' = None
    /\ IF rdWait = None
       THEN UNCHANGED cpuVars
       ELSE NoSwitch(RescheduleStates(state, rdWait), RescheduleQueue(rq, rdWait))

\* handle_keyboard_event and wake_listeners, and the call of scheduler() that
\* follows.  A key that finds the ring full is dropped.
HandleKeyboardEvent ==
    IF avail >= RingSize
    THEN Schedule(state, rq) /\ UNCHANGED kbdVars
    ELSE /\ avail' = avail + 1
         /\ rdWait' = None
         /\ IF rdWait = None
            THEN Schedule(state, rq)
            ELSE Schedule(RescheduleStates(state, rdWait),
                          RescheduleQueue(rq, rdWait))

\* IRQ 125, the mini UART.
Key ==
    /\ IrqEntry
    /\ HandleKeyboardEvent
    /\ UNCHANGED <<at, waiting_on, parent, newproc, timeVars>>
-----------------------------------------------------------------------------
(***************************************************************************)
(* The idle process (idle() and its own call of scheduler()).              *)
(***************************************************************************)

IdleAt(label, next) ==
    /\ current = Idle
    /\ ResumesAt(label)
    /\ at' = [at EXCEPT ![Idle] = next]
    /\ UNCHANGED <<nest, waiting_on, parent, kbdVars, timeVars>>

IdleEnable ==
    /\ IdleAt("enable", "wfi")
    /\ masked' = FALSE
    /\ UNCHANGED <<cpuVars, newproc>>

\* WFI may complete without an interrupt.
IdleWfi ==
    /\ IdleAt("wfi", "test")
    /\ UNCHANGED <<cpuVars, masked, newproc>>

IdleTest ==
    /\ IdleAt("test", IF ListEmpty(rq, RunQueue) THEN "empty" ELSE "pick")
    /\ UNCHANGED <<cpuVars, masked, newproc>>

IdleEmpty ==
    /\ IdleAt("empty", "enable")
    /\ IF state[Idle] = "RUNNING" THEN UNCHANGED cpuVars
                                  ELSE PreContextSwitch(Idle, state, rq)
    /\ UNCHANGED <<masked, newproc>>

\* newproc = runqueue.next.  If the queue was emptied since the test, this is
\* the list head taken for a PCB.
IdlePick ==
    LET first == rq.next[RunQueue] IN
    /\ IdleAt("pick", IF first = Idle THEN "enable" ELSE "remove")
    /\ newproc' = first
    /\ wedged' = (first = RunQueue)
    /\ UNCHANGED <<state, rq, current, kstack, masked>>

IdleRemove ==
    /\ IdleAt("remove", "ready")
    /\ rq' = ListRemove(rq, newproc)
    /\ UNCHANGED <<state, current, kstack, wedged, masked, newproc>>

IdleReady ==
    /\ IdleAt("ready", "switch")
    /\ state' = YieldStates(state)
    /\ rq' = IF state[Idle] = "RUNNING" /\ OnRunQueue(Idle)
             THEN ListAdd(rq, Idle, RunQueue) ELSE rq
    /\ UNCHANGED <<current, kstack, wedged, masked, newproc>>

IdleSwitch ==
    /\ IdleAt("switch", "enable")
    /\ PreContextSwitch(newproc, state, rq)
    /\ UNCHANGED <<masked, newproc>>
-----------------------------------------------------------------------------
\* scheduler_init, add_shell_to_scheduler and start_scheduler: the shell is
\* RUNNING in user mode and off the run queue; the idle process has the frame
\* of ret_from_fork on its stack.  Its waiting_on, not initialized either, is
\* taken to match no pid.
Init ==
    /\ state = [t \in Threads |-> CASE t = Shell -> "RUNNING"
                                    [] t = Idle -> "READY"
                                    [] OTHER -> "NONE"]
    /\ at = [t \in Threads |-> IF t = Idle THEN "enable" ELSE "user"]
    /\ nest = [t \in Threads |-> IF t = Idle THEN 1 ELSE 0]
    /\ kstack = [t \in Threads |-> t \in {Shell, Idle}]
    /\ waiting_on = [t \in Threads |-> None]
    /\ parent = [t \in Threads |-> IF t = Shell THEN Idle ELSE None]
    /\ current = Shell
    /\ masked = FALSE
    /\ rq = InitLists(Nodes)
    /\ newproc = None
    /\ wedged = FALSE
    /\ avail = 0
    /\ rdWait = None
    /\ sleeping = [p \in Procs |-> 0]
    /\ items = 0
    /\ armed = FALSE

Interrupt == Tick \/ Key \/ \E p \in Procs : VirtualTimer(p)

Syscall ==
    \/ \E c \in Procs : Fork(c) \/ Waitid(c)
    \/ \E n \in 0..RingSize : Read(n)
    \/ Nanosleep
    \/ Exit

Resume ==
    \/ Eret \/ ResumeWaitid \/ ResumeNanosleep \/ ResumeExit
    \/ \E n \in 0..RingSize : ResumeRead(n)

IdleStep ==
    \/ IdleEnable \/ IdleWfi \/ IdleTest \/ IdleEmpty
    \/ IdlePick \/ IdleRemove \/ IdleReady \/ IdleSwitch

Next == Interrupt \/ Syscall \/ Resume \/ IdleStep

Spec == Init /\ [][Next]_vars

\* The kernel goes on while it can, and the quantum of a process that stays
\* in user mode ends: every path through scheduler() primes the physical
\* timer.  Nothing is assumed of the programs or of the keyboard.
Fairness == WF_vars(Resume) /\ WF_vars(IdleStep) /\ WF_vars(Tick)

FairSpec == Spec /\ Fairness
-----------------------------------------------------------------------------
States == {"NONE", "READY", "RUNNING", "BLOCKED", "TERMINATED"}

TypeOK ==
    /\ state \in [Threads -> States]
    /\ at \in [Threads -> IdleLabels \cup ProcLabels]
    /\ nest \in [Threads -> 0..MaxNest]
    /\ kstack \in [Threads -> BOOLEAN]
    /\ waiting_on \in [Threads -> Procs \cup {None}]
    /\ parent \in [Threads -> Threads \cup {None}]
    /\ current \in Threads
    /\ masked \in BOOLEAN
    /\ rq \in Lists(Nodes)
    /\ newproc \in Nodes \cup {None}
    /\ wedged \in BOOLEAN
    /\ avail \in 0..RingSize
    /\ rdWait \in Procs \cup {None}
    /\ sleeping \in [Procs -> Nat]
    /\ items \in 0..TimerSlots
    /\ armed \in BOOLEAN

\* The run queue is READY-only and misses nobody (the comment of
\* scheduler()): a process is linked exactly while it is READY, exactly the
\* current thread is RUNNING, and the links form rings.
RunQueueInv ==
    /\ RingOK(rq, Nodes)
    /\ \A p \in Procs : Linked(rq, p) <=> state[p] = "READY"
    /\ \A t \in Threads : state[t] = "RUNNING" <=> t = current

\* The nodes scheduler() can reach from the list head.
Walk == ListReach(rq, Nodes, RunQueue)

\* No READY process is on a ring that scheduler() does not reach: following
\* runqueue.next visits the READY processes and the list head, no other node.
QueueReachesReady ==
    Walk = {p \in Procs : state[p] = "READY"} \cup {RunQueue}

\* check_and_reap frees the kernel stack of a process when, and only when,
\* the process has terminated, and the kernel never runs on a freed stack.
KernelStackInv ==
    /\ ~wedged
    /\ \A p \in Procs : kstack[p] <=> state[p] \notin {"NONE", "TERMINATED"}

\* waiting_on is never reset and fork copies it.  The stale value is
\* harmless: outside waitid it names a process that has terminated and whose
\* kernel stack is gone, so no later exit takes it for a waiting parent.
StaleWaitHarmless ==
    \A p \in Procs :
        LET c == waiting_on[p] IN
        c # None /\ at[p] # "waitid" => state[c] = "TERMINATED" /\ ~kstack[c]

\* Nobody is blocked for good: a BLOCKED process waits in waitid for a child
\* that has not terminated and will wake it, or in pipe_read of an empty
\* ring with its entry on the wait queue.
BlockedHasWaker ==
    \A p \in Procs : state[p] = "BLOCKED" =>
        \/ /\ at[p] = "waitid"
           /\ parent[waiting_on[p]] = p
           /\ state[waiting_on[p]] # "TERMINATED"
        \/ at[p] = "read" /\ rdWait = p /\ avail = 0

\* "disable interrupts while we're handling the system call" (entry.S:171):
\* the kernel code of a process runs with IRQs masked.  context_switch does
\* not save the mask, so a process that idle switches to runs with idle's.
KernelMasked ==
    current # Idle /\ (at[current] # "user" \/ nest[current] > 0) => masked

\* The idle process has the core only when no process is READY.
IdleOnlyWhenNothingReady ==
    current = Idle => \A p \in Procs : state[p] # "READY"

\* waitid returns, also after any number of early wakeups, only once the
\* child has terminated, and a read returns only what was typed.
BlockingCallsComplete ==
    [][\A p \in Procs : at[p] # at'[p] /\ at'[p] = "user" /\ state[p] # "NONE" =>
          /\ at[p] = "waitid" => state[waiting_on[p]] = "TERMINATED"
          /\ at[p] = "read" => avail > 0 /\ avail' <= avail]_vars

\* The virtual timer is never left armed over an empty sleep queue:
\* handle_virtual_timer would pop the null entry and reschedule it; and it
\* is armed while a sleeper is queued.
TimerArmedForSleepers ==
    /\ armed <=> items > 0
    /\ items > 0 <=> \E p \in Procs : sleeping[p] > 0

\* "the runqueue is READY-only" (the comment of scheduler()).
RunQueueReadyOnly ==
    \A p \in Procs : p \in Walk => state[p] = "READY"

\* "a round-robin run-queue scheduler" (README): a READY process gets its
\* turn.
EveryReadyProcessRuns ==
    \A p \in Procs : state[p] = "READY" ~> state[p] = "RUNNING"

\* A parent whose child has terminated returns from waitid.
WaitidReturns ==
    \A p \in Procs :
        (at[p] = "waitid" /\ state[waiting_on[p]] = "TERMINATED")
            ~> at[p] = "user"
=============================================================================
