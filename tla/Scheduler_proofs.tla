-------------------------- MODULE Scheduler_proofs --------------------------
(***************************************************************************)
(* Proofs about the scheduler, for any set of processes.                   *)
(*                                                                         *)
(* The safety theorem is about workloads without nanosleep (and an idle    *)
(* process whose pid is 0): TLC shows that its conclusions fail with it.   *)
(***************************************************************************)
EXTENDS Scheduler, LinkedList_proofs

-----------------------------------------------------------------------------
(***************************************************************************)
(* Type correctness, for every workload.                                   *)
(***************************************************************************)

\* The PCB of t has been set up.
Allocated(t) == t \in Procs => parent[t] # None

\* No node but itself points at a PCB that was not set up.
QueueAllocated(q) ==
    \A n \in Nodes : q.next[n] = n \/ Allocated(q.next[n])

\* What keeps the variables in their types: the kernel only gets hold of
\* PCBs that were set up, the idle process switches to one it has picked,
\* and the timer is armed only over a queue with an entry.
AllocInv ==
    /\ Allocated(current)
    /\ rdWait # None => Allocated(rdWait)
    /\ \A p \in Procs : sleeping[p] > 0 => Allocated(p)
    /\ \A p \in Procs : parent[p] # None => Allocated(parent[p])
    /\ QueueAllocated(rq)
    /\ at[Idle] \in {"remove", "ready", "switch"} /\ ~wedged
          => newproc \in Threads /\ Allocated(newproc)
    /\ parent[Idle] = None
    /\ at[Idle] \in IdleLabels
    /\ armed => items > 0

TInv == TypeOK /\ AllocInv

LEMMA AddAllocated ==
    ASSUME NEW STATE q, q \in Lists(Nodes), NEW STATE t, t \in Threads, TypeOK,
           SchedulerConstants, QueueAllocated(q), Allocated(t)
    PROVE  /\ ListAdd(q, t, RunQueue) \in Lists(Nodes)
           /\ QueueAllocated(ListAdd(q, t, RunQueue))
<1>1. q.next \in [Nodes -> Nodes] /\ q.prev \in [Nodes -> Nodes]
  BY DEF Lists
<1>2. t \in Nodes /\ RunQueue \in Nodes /\ RunQueue \notin Procs
  BY DEF Nodes, Threads, SchedulerConstants
<1>3. ListAdd(q, t, RunQueue) \in Lists(Nodes)
  BY <1>1, <1>2 DEF ListAdd, Lists
<1>4. \A n \in Nodes : ListAdd(q, t, RunQueue).next[n] =
          IF n = RunQueue THEN t ELSE IF n = t THEN q.next[RunQueue] ELSE q.next[n]
  BY <1>1, <1>2 DEF ListAdd
<1>5. Allocated(q.next[RunQueue])
  BY <1>2 DEF QueueAllocated, Allocated
<1>. QED BY <1>3, <1>4, <1>5 DEF QueueAllocated

LEMMA RemoveAllocated ==
    ASSUME NEW STATE q, q \in Lists(Nodes), NEW STATE t, t \in Threads, TypeOK,
           SchedulerConstants, QueueAllocated(q), Allocated(t)
    PROVE  /\ ListRemove(q, t) \in Lists(Nodes)
           /\ QueueAllocated(ListRemove(q, t))
<1>1. q.next \in [Nodes -> Nodes] /\ q.prev \in [Nodes -> Nodes]
  BY DEF Lists
<1>2. t \in Nodes
  BY DEF Nodes
<1>3. ListRemove(q, t) \in Lists(Nodes)
  BY <1>1, <1>2 DEF ListRemove, Lists
<1>4. \A n \in Nodes : ListRemove(q, t).next[n] =
          IF n = t THEN t ELSE IF n = q.prev[t] THEN q.next[t] ELSE q.next[n]
  BY <1>1, <1>2 DEF ListRemove
<1>5. Allocated(q.next[t])
  BY <1>2 DEF QueueAllocated
<1>. QED BY <1>3, <1>4, <1>5 DEF QueueAllocated

\* scheduler() keeps the types, and only moves among PCBs that are set up.
LEMMA ScheduleType ==
    ASSUME NEW STATE st, NEW STATE q,
           st \in [Threads -> States], q \in Lists(Nodes),
           TypeOK, SchedulerConstants, QueueAllocated(q), Allocated(current),
           Schedule(st, q)
    PROVE  /\ state' \in [Threads -> States]
           /\ rq' \in Lists(Nodes)
           /\ current' \in Threads
           /\ kstack' \in [Threads -> BOOLEAN]
           /\ wedged' \in BOOLEAN
           /\ QueueAllocated(rq')
           /\ Allocated(current')
<1> DEFINE first == q.next[RunQueue]
<1>0. /\ current \in Threads /\ kstack \in [Threads -> BOOLEAN]
      /\ wedged \in BOOLEAN /\ Idle \in Threads /\ Allocated(Idle)
  BY DEF TypeOK, Threads, Allocated, SchedulerConstants
<1>1. \A x \in Threads, s \in [Threads -> States] :
          [s EXCEPT ![x] = "RUNNING"] \in [Threads -> States]
  BY DEF States
<1>2. ASSUME NEW STATE n, n \in Threads, NEW STATE s, s \in [Threads -> States],
             NEW STATE r, r \in Lists(Nodes), QueueAllocated(r), Allocated(n),
             PreContextSwitch(n, s, r)
      PROVE  /\ state' \in [Threads -> States]
             /\ rq' \in Lists(Nodes)
             /\ current' \in Threads
             /\ kstack' \in [Threads -> BOOLEAN]
             /\ wedged' \in BOOLEAN
             /\ QueueAllocated(rq')
             /\ Allocated(current')
  BY <1>0, <1>1, <1>2 DEF PreContextSwitch, ContextSwitch, CheckAndReap
<1>3. ASSUME NoSwitch(st, q)
      PROVE  /\ state' \in [Threads -> States]
             /\ rq' \in Lists(Nodes)
             /\ current' \in Threads
             /\ kstack' \in [Threads -> BOOLEAN]
             /\ wedged' \in BOOLEAN
             /\ QueueAllocated(rq')
             /\ Allocated(current')
  BY <1>0, <1>3 DEF NoSwitch
<1>4. CASE PreContextSwitch(Idle, st, q)
  BY <1>0, <1>2, <1>4
<1>5. CASE /\ ~ListEmpty(q, RunQueue)
           /\ PreContextSwitch(first, YieldStates(st), YieldQueue(first, st, q))
  <2>1. first \in Threads /\ Allocated(first)
    BY <1>5 DEF ListEmpty, Lists, Nodes, QueueAllocated
  <2>2. YieldStates(st) \in [Threads -> States]
    BY <1>0 DEF YieldStates, States
  <2>3. ListRemove(q, first) \in Lists(Nodes) /\ QueueAllocated(ListRemove(q, first))
    BY <2>1, RemoveAllocated
  <2>4. /\ YieldQueue(first, st, q) \in Lists(Nodes)
        /\ QueueAllocated(YieldQueue(first, st, q))
    <3> DEFINE taken == IF OnRunQueue(first) THEN ListRemove(q, first) ELSE q
    <3>1. taken \in Lists(Nodes) /\ QueueAllocated(taken)
      BY <2>3
    <3>2. /\ ListAdd(taken, current, RunQueue) \in Lists(Nodes)
          /\ QueueAllocated(ListAdd(taken, current, RunQueue))
      <4> HIDE DEF taken
      <4>. QED BY <1>0, <3>1, AddAllocated
    <3>. QED BY <3>1, <3>2 DEF YieldQueue
  <2>. QED BY <1>2, <1>5, <2>1, <2>2, <2>4
<1>. QED BY <1>3, <1>4, <1>5 DEF Schedule

\* deschedule() does so too.
LEMMA DescheduleType ==
    ASSUME TypeOK, SchedulerConstants, QueueAllocated(rq), Allocated(current),
           Deschedule
    PROVE  /\ state' \in [Threads -> States]
           /\ rq' \in Lists(Nodes)
           /\ current' \in Threads
           /\ kstack' \in [Threads -> BOOLEAN]
           /\ wedged' \in BOOLEAN
           /\ QueueAllocated(rq')
           /\ Allocated(current')
<1>1. state \in [Threads -> States] /\ rq \in Lists(Nodes) /\ current \in Threads
  BY DEF TypeOK
<1>2. [state EXCEPT ![current] = "BLOCKED"] \in [Threads -> States]
  BY <1>1 DEF States
<1>3. ListRemove(rq, current) \in Lists(Nodes) /\ QueueAllocated(ListRemove(rq, current))
  BY <1>1, RemoveAllocated
<1>. QED BY <1>1, <1>2, <1>3, ScheduleType DEF Deschedule

\* AllocInv after a step that allocates no PCB, from what the step leaves in
\* the variables it is about.
LEMMA AllocKept ==
    ASSUME TInv, parent' = parent,
           Allocated(current'), QueueAllocated(rq'),
           rdWait' \in {rdWait, current, None},
           \A p \in Procs : sleeping'[p] > 0 => sleeping[p] > 0 \/ p = current,
           \/ at'[Idle] \notin {"remove", "ready", "switch"}
           \/ at'[Idle] = at[Idle] /\ newproc' = newproc /\ (wedged => wedged')
           \/ newproc' \in Threads /\ Allocated(newproc')
           \/ wedged',
           at'[Idle] \in IdleLabels,
           armed' => items' > 0
    PROVE  AllocInv'
BY DEF TInv, AllocInv, Allocated, QueueAllocated

LEMMA TInvStep == SchedulerConstants /\ TInv /\ [Next]_vars => TInv'
<1> SUFFICES ASSUME SchedulerConstants, TInv, [Next]_vars PROVE TInv'
  OBVIOUS
<1> USE DEF TInv
<1>0. /\ Idle \in Threads /\ Idle \notin Procs /\ None \notin Threads
      /\ \A p \in Procs : p \in Threads /\ p # Idle
  BY DEF SchedulerConstants, Threads
<1>0a. /\ IdleLabels \subseteq (IdleLabels \cup ProcLabels)
       /\ \A l \in {"user", "waitid", "read", "nanosleep", "exited"} : l \in ProcLabels
  BY DEF IdleLabels, ProcLabels
<1>1. CASE Eret
  <2>1. nest' \in [Threads -> 0..MaxNest]
    BY <1>1 DEF TypeOK, Eret, SchedulerConstants
  <2>1a. masked' \in BOOLEAN /\ wedged' = wedged
    BY <1>1, Zenon DEF Eret, cpuVars
  <2>2. TypeOK'
    BY <1>1, <2>1, <2>1a DEF TypeOK, Eret, cpuVars, kbdVars, timeVars
  <2>3. AllocInv'
    BY <1>1, AllocKept DEF TypeOK, AllocInv, Eret, cpuVars, kbdVars, timeVars
  <2>. QED BY <2>2, <2>3
<1>2. ASSUME NEW c \in Procs, Fork(c) PROVE TInv'
  <2>1. current \in Threads /\ current # Idle /\ current # None /\ c \in Threads
    BY <1>0, <1>2 DEF Fork, CloneActiveProc, InUser, TypeOK
  <2>2. rq' \in Lists(Nodes)
    BY <2>1, <1>2 DEF Fork, CloneActiveProc, RescheduleQueue, ListAdd, Lists, TypeOK, Nodes
  <2>3. state' \in [Threads -> States]
    BY <2>1, <1>2 DEF Fork, CloneActiveProc, RescheduleStates, TypeOK, States
  <2>3a. nest' \in [Threads -> 0..MaxNest]
    <3>1. 1 \in 0..MaxNest
      BY DEF SchedulerConstants
    <3>. QED BY <1>2, <3>1 DEF Fork, CloneActiveProc, TypeOK
  <2>3b. kstack' \in [Threads -> BOOLEAN]
    BY <1>2 DEF Fork, CloneActiveProc, TypeOK
  <2>4. TypeOK'
    BY <1>0a, <1>2, <2>1, <2>2, <2>3, <2>3a, <2>3b
    DEF Fork, CloneActiveProc, TypeOK, kbdVars, timeVars
  <2>5. parent'[c] # None /\ \A t \in Threads \ {c} : parent'[t] = parent[t]
    BY <1>2, <2>1 DEF Fork, CloneActiveProc, TypeOK
  <2>6. \A t \in Threads : Allocated(t) => Allocated(t)'
    BY <2>1, <2>5 DEF Allocated
  <2>7. QueueAllocated(rq)'
    <3>1. \A n \in Nodes : rq'.next[n] = IF n = RunQueue THEN c ELSE
              IF n = c THEN rq.next[RunQueue] ELSE rq.next[n]
      BY <2>1, <1>2 DEF Fork, CloneActiveProc, RescheduleQueue, ListAdd, Lists, TypeOK, Nodes
    <3>2. \A t \in Nodes : Allocated(t) => (t \in Procs => parent'[t] # None)
      BY <2>1, <2>5, <1>0 DEF Allocated
    <3>3. \A n \in Nodes : /\ rq.next[n] \in Nodes
                           /\ rq.next[n] = n \/ Allocated(rq.next[n])
      BY DEF TypeOK, Lists, AllocInv, QueueAllocated
    <3>4. RunQueue \in Nodes /\ Allocated(RunQueue)
      BY DEF Nodes, Allocated, SchedulerConstants
    <3>5. SUFFICES ASSUME NEW n \in Nodes
                   PROVE  rq'.next[n] = n
                              \/ (rq'.next[n] \in Procs => parent'[rq'.next[n]] # None)
      BY DEF QueueAllocated, Allocated
    <3>6. CASE n = RunQueue
      BY <2>5, <3>1, <3>6
    <3>7. CASE n = c /\ n # RunQueue
      BY <3>1, <3>2, <3>3, <3>4, <3>7
    <3>8. CASE n # c /\ n # RunQueue
      BY <3>1, <3>2, <3>3, <3>8
    <3>. QED BY <3>6, <3>7, <3>8
  <2>8. AllocInv'
    <3>1. Allocated(current)'
      BY <1>2, <2>1, <2>6 DEF AllocInv, Fork, CloneActiveProc
    <3>2. (rdWait # None => Allocated(rdWait))'
      BY <1>2, <1>0, <2>6 DEF AllocInv, Fork, CloneActiveProc, kbdVars, TypeOK
    <3>3. (\A p \in Procs : sleeping[p] > 0 => Allocated(p))'
      BY <1>2, <1>0, <2>6 DEF AllocInv, Fork, CloneActiveProc, timeVars
    <3>4. (\A p \in Procs : parent[p] # None => Allocated(parent[p]))'
      <4>1. SUFFICES ASSUME NEW p \in Procs, parent'[p] # None
                     PROVE  Allocated(parent[p])'
        OBVIOUS
      <4>2. CASE p = c
        <5>1. parent'[c] = current
          BY <1>2, <2>1 DEF Fork, CloneActiveProc, TypeOK
        <5>. QED BY <1>2, <4>2, <5>1, <3>1 DEF Fork, CloneActiveProc
      <4>3. CASE p # c
        <5>1. parent'[p] = parent[p] /\ parent[p] \in Threads
          BY <1>0, <2>5, <4>1, <4>3 DEF TypeOK
        <5>. QED BY <5>1, <2>6, <4>1 DEF AllocInv, Allocated
      <4>. QED BY <4>2, <4>3
    <3>5. (at[Idle] \in {"remove", "ready", "switch"} /\ ~wedged
              => newproc \in Threads /\ Allocated(newproc))'
      <4>1. at'[Idle] = at[Idle]
        BY <1>0, <1>2 DEF Fork, CloneActiveProc, TypeOK
      <4>. QED BY <4>1, <1>2, <2>6 DEF AllocInv, Fork, CloneActiveProc
    <3>6. (parent[Idle] = None)' /\ (at[Idle] \in IdleLabels)' /\ (armed => items > 0)'
      BY <1>0, <1>2, <2>5 DEF AllocInv, Fork, CloneActiveProc, timeVars, TypeOK
    <3>. QED BY <2>7, <3>1, <3>2, <3>3, <3>4, <3>5, <3>6 DEF AllocInv
  <2>. QED BY <2>4, <2>8
<1>3. ASSUME NEW c \in Procs, Waitid(c) PROVE TInv'
  <2>1. /\ state' \in [Threads -> States] /\ rq' \in Lists(Nodes)
        /\ current' \in Threads /\ kstack' \in [Threads -> BOOLEAN]
        /\ wedged' \in BOOLEAN /\ QueueAllocated(rq') /\ Allocated(current')
    BY DescheduleType, ScheduleType, <1>3 DEF AllocInv, TypeOK, Waitid, WaitLoop, ReturnToUser, cpuVars
  <2>2. at' \in [Threads -> IdleLabels \cup ProcLabels] /\ at'[Idle] = at[Idle]
    BY <1>0, <1>0a, <1>3 DEF TypeOK, AllocInv, IdleLabels, Waitid, WaitLoop, ReturnToUser, InUser
  <2>3. masked' \in BOOLEAN
    BY <1>3, Zenon DEF TypeOK, Waitid, WaitLoop, ReturnToUser
  <2>4. ~wedged
    BY <1>3 DEF Waitid, InUser
  <2>5. waiting_on' \in [Threads -> Procs \cup {None}]
    BY <1>3 DEF TypeOK, Waitid
  <2>6. TypeOK'
    BY <1>3, <2>1, <2>2, <2>3, <2>4, <2>5 DEF TypeOK, Waitid, kbdVars, timeVars
  <2>7. AllocInv'
    BY <1>3, <2>1, <2>2, <2>3, <2>4, <2>5, AllocKept DEF AllocInv, Waitid, kbdVars, timeVars
  <2>. QED BY <2>6, <2>7
<1>4. CASE ResumeWaitid
  <2>1. /\ state' \in [Threads -> States] /\ rq' \in Lists(Nodes)
        /\ current' \in Threads /\ kstack' \in [Threads -> BOOLEAN]
        /\ wedged' \in BOOLEAN /\ QueueAllocated(rq') /\ Allocated(current')
    BY DescheduleType, ScheduleType, <1>4 DEF AllocInv, TypeOK, ResumeWaitid, WaitLoop, ReturnToUser, cpuVars
  <2>2. at' \in [Threads -> IdleLabels \cup ProcLabels] /\ at'[Idle] = at[Idle]
    BY <1>0, <1>0a, <1>4 DEF TypeOK, AllocInv, IdleLabels, ResumeWaitid, ResumesAt, WaitLoop, ReturnToUser
  <2>3. masked' \in BOOLEAN
    BY <1>4, Zenon DEF TypeOK, ResumeWaitid, WaitLoop, ReturnToUser
  <2>4. ~wedged
    BY <1>4 DEF ResumeWaitid, ResumesAt
  <2>5. TypeOK'
    BY <1>4, <2>1, <2>2, <2>3, <2>4 DEF TypeOK, ResumeWaitid, kbdVars, timeVars
  <2>6. AllocInv'
    BY <1>4, <2>1, <2>2, <2>3, <2>4, AllocKept DEF AllocInv, ResumeWaitid, kbdVars, timeVars
  <2>. QED BY <2>5, <2>6
<1>5. CASE Exit
  <2>1. /\ state' \in [Threads -> States] /\ rq' \in Lists(Nodes)
        /\ current' \in Threads /\ kstack' \in [Threads -> BOOLEAN]
        /\ wedged' \in BOOLEAN /\ QueueAllocated(rq') /\ Allocated(current')
    <3> DEFINE par  == parent[current]
               dead == [state EXCEPT ![current] = "TERMINATED"]
    <3>1. current \in Procs /\ par \in Threads /\ Allocated(par)
      BY <1>0, <1>5 DEF Exit, Reap, InUser, TypeOK, AllocInv, Allocated, Threads
    <3>2. dead \in [Threads -> States] /\ RescheduleStates(dead, par) \in [Threads -> States]
      BY DEF TypeOK, States, RescheduleStates
    <3>3. /\ RescheduleQueue(rq, par) \in Lists(Nodes)
          /\ QueueAllocated(RescheduleQueue(rq, par))
      BY <3>1, AddAllocated DEF TypeOK, AllocInv, RescheduleQueue
    <3>4. \/ Schedule(RescheduleStates(dead, par), RescheduleQueue(rq, par))
          \/ Schedule(dead, rq)
      BY <1>5 DEF Exit, Reap
    <3>. HIDE DEF par, dead
    <3>. QED BY <3>2, <3>3, <3>4, ScheduleType DEF TypeOK, AllocInv
  <2>2. at' \in [Threads -> IdleLabels \cup ProcLabels] /\ at'[Idle] = at[Idle]
    BY <1>0, <1>0a, <1>5 DEF TypeOK, AllocInv, IdleLabels, Exit, Reap, InUser
  <2>3. masked' \in BOOLEAN
    BY <1>5, Zenon DEF Exit, Reap
  <2>4. ~wedged
    BY <1>5 DEF Exit, Reap, InUser
  <2>5. TypeOK'
    BY <1>5, <2>1, <2>2, <2>3, <2>4 DEF TypeOK, Exit, Reap, kbdVars, timeVars
  <2>6. AllocInv'
    BY <1>5, <2>1, <2>2, <2>4, AllocKept DEF AllocInv, Exit, Reap, kbdVars, timeVars
  <2>. QED BY <2>5, <2>6
<1>6. CASE ResumeExit
  <2>1. /\ state' \in [Threads -> States] /\ rq' \in Lists(Nodes)
        /\ current' \in Threads /\ kstack' \in [Threads -> BOOLEAN]
        /\ wedged' \in BOOLEAN /\ QueueAllocated(rq') /\ Allocated(current')
    BY DescheduleType, ScheduleType, <1>6 DEF AllocInv, TypeOK, ResumeExit, ReturnToUser, cpuVars
  <2>2. at' \in [Threads -> IdleLabels \cup ProcLabels] /\ at'[Idle] = at[Idle]
    BY <1>0, <1>0a, <1>6 DEF TypeOK, AllocInv, IdleLabels, ResumeExit, ResumesAt, ReturnToUser
  <2>3. masked' \in BOOLEAN
    BY <1>6, Zenon DEF TypeOK, ResumeExit, ReturnToUser
  <2>4. ~wedged
    BY <1>6 DEF ResumeExit, ResumesAt
  <2>5. TypeOK'
    BY <1>6, <2>1, <2>2, <2>3, <2>4 DEF TypeOK, ResumeExit, kbdVars, timeVars
  <2>6. AllocInv'
    BY <1>6, <2>1, <2>2, <2>3, <2>4, AllocKept DEF AllocInv, ResumeExit, kbdVars, timeVars
  <2>. QED BY <2>5, <2>6
<1>7. ASSUME NEW n \in 0..RingSize, Read(n) PROVE TInv'
  <2>1. /\ state' \in [Threads -> States] /\ rq' \in Lists(Nodes)
        /\ current' \in Threads /\ kstack' \in [Threads -> BOOLEAN]
        /\ wedged' \in BOOLEAN /\ QueueAllocated(rq') /\ Allocated(current')
    BY DescheduleType, ScheduleType, <1>7 DEF AllocInv, TypeOK, Read, ReadLoop, ReturnToUser, cpuVars
  <2>2. at' \in [Threads -> IdleLabels \cup ProcLabels] /\ at'[Idle] = at[Idle]
    BY <1>0, <1>0a, <1>7 DEF TypeOK, AllocInv, IdleLabels, Read, ReadLoop, ReturnToUser, InUser
  <2>3. masked' \in BOOLEAN
    BY <1>7, Zenon DEF TypeOK, Read, ReadLoop, ReturnToUser
  <2>4. ~wedged
    BY <1>7 DEF Read, InUser
  <2>5. avail' \in 0..RingSize /\ rdWait' \in {rdWait, current}
    BY <1>7 DEF TypeOK, SchedulerConstants, Read, ReadLoop
  <2>6. rdWait' \in Procs \cup {None}
    BY <1>7, <2>5, <1>0 DEF TypeOK, AllocInv, IdleLabels, Threads, Read, InUser
  <2>7. TypeOK'
    BY <1>7, <2>1, <2>2, <2>3, <2>4, <2>5, <2>6 DEF TypeOK, Read, kbdVars, timeVars
  <2>8. AllocInv'
    BY <1>7, <2>1, <2>2, <2>3, <2>4, <2>5, <2>6, AllocKept DEF AllocInv, Read, kbdVars, timeVars
  <2>. QED BY <2>7, <2>8
<1>8. ASSUME NEW n \in 0..RingSize, ResumeRead(n) PROVE TInv'
  <2>1. /\ state' \in [Threads -> States] /\ rq' \in Lists(Nodes)
        /\ current' \in Threads /\ kstack' \in [Threads -> BOOLEAN]
        /\ wedged' \in BOOLEAN /\ QueueAllocated(rq') /\ Allocated(current')
    BY DescheduleType, ScheduleType, <1>8 DEF AllocInv, TypeOK, ResumeRead, ReadLoop, ReturnToUser, cpuVars
  <2>2. at' \in [Threads -> IdleLabels \cup ProcLabels] /\ at'[Idle] = at[Idle]
    BY <1>0, <1>0a, <1>8 DEF TypeOK, AllocInv, IdleLabels, ResumeRead, ReadLoop, ReturnToUser, ResumesAt
  <2>3. masked' \in BOOLEAN
    BY <1>8, Zenon DEF TypeOK, ResumeRead, ReadLoop, ReturnToUser
  <2>4. ~wedged
    BY <1>8 DEF ResumeRead, ResumesAt
  <2>5. avail' \in 0..RingSize /\ rdWait' \in {rdWait, current}
    BY <1>8 DEF TypeOK, SchedulerConstants, ResumeRead, ReadLoop
  <2>6. rdWait' \in Procs \cup {None}
    BY <1>8, <2>5, <1>0 DEF TypeOK, AllocInv, IdleLabels, Threads, ResumeRead, ResumesAt
  <2>7. TypeOK'
    BY <1>8, <2>1, <2>2, <2>3, <2>4, <2>5, <2>6 DEF TypeOK, ResumeRead, kbdVars, timeVars
  <2>8. AllocInv'
    BY <1>8, <2>1, <2>2, <2>3, <2>4, <2>5, <2>6, AllocKept DEF AllocInv, ResumeRead, kbdVars, timeVars
  <2>. QED BY <2>7, <2>8
<1>9. CASE Nanosleep
  <2>1. /\ state' \in [Threads -> States] /\ rq' \in Lists(Nodes)
        /\ current' \in Threads /\ kstack' \in [Threads -> BOOLEAN]
        /\ wedged' \in BOOLEAN /\ QueueAllocated(rq') /\ Allocated(current')
    BY DescheduleType, ScheduleType, <1>9 DEF AllocInv, TypeOK, Nanosleep, TimerNanosleep, ReturnToUser, cpuVars
  <2>2. at' \in [Threads -> IdleLabels \cup ProcLabels] /\ at'[Idle] = at[Idle]
    BY <1>0, <1>0a, <1>9 DEF TypeOK, AllocInv, IdleLabels, Nanosleep, TimerNanosleep, InUser
  <2>3. masked' \in BOOLEAN
    BY <1>9, Zenon DEF TypeOK, Nanosleep, TimerNanosleep
  <2>4. ~wedged
    BY <1>9 DEF Nanosleep, TimerNanosleep, InUser
  <2>5. sleeping' \in [Procs -> Nat] /\ \A p \in Procs : sleeping'[p] > 0 => sleeping[p] > 0 \/ p = current
    BY <1>9 DEF TypeOK, Nanosleep, TimerNanosleep
  <2>6. items' \in 0..TimerSlots /\ items' > 0
    BY <1>9 DEF TypeOK, Nanosleep, TimerNanosleep, SchedulerConstants
  <2>7. armed' \in BOOLEAN
    BY <1>9, Zenon DEF Nanosleep, TimerNanosleep
  <2>8. TypeOK'
    BY <1>9, <2>1, <2>2, <2>3, <2>4, <2>5, <2>6, <2>7 DEF TypeOK, Nanosleep, TimerNanosleep, kbdVars, timeVars
  <2>9. AllocInv'
    BY <1>9, <2>1, <2>2, <2>3, <2>4, <2>5, <2>6, <2>7, AllocKept DEF AllocInv, Nanosleep, TimerNanosleep, kbdVars, timeVars
  <2>. QED BY <2>8, <2>9
<1>10. CASE ResumeNanosleep
  <2>1. /\ state' \in [Threads -> States] /\ rq' \in Lists(Nodes)
        /\ current' \in Threads /\ kstack' \in [Threads -> BOOLEAN]
        /\ wedged' \in BOOLEAN /\ QueueAllocated(rq') /\ Allocated(current')
    BY DescheduleType, ScheduleType, <1>10 DEF AllocInv, TypeOK, ResumeNanosleep, ReturnToUser, cpuVars
  <2>2. at' \in [Threads -> IdleLabels \cup ProcLabels] /\ at'[Idle] = at[Idle]
    BY <1>0, <1>0a, <1>10 DEF TypeOK, AllocInv, IdleLabels, ResumeNanosleep, ResumesAt, ReturnToUser
  <2>3. masked' \in BOOLEAN
    BY <1>10, Zenon DEF TypeOK, ResumeNanosleep, ReturnToUser
  <2>4. ~wedged
    BY <1>10 DEF ResumeNanosleep, ResumesAt
  <2>5. TypeOK'
    BY <1>10, <2>1, <2>2, <2>3, <2>4 DEF TypeOK, ResumeNanosleep, kbdVars, timeVars
  <2>6. AllocInv'
    BY <1>10, <2>1, <2>2, <2>3, <2>4, AllocKept DEF AllocInv, ResumeNanosleep, kbdVars, timeVars
  <2>. QED BY <2>5, <2>6
<1>11. CASE Tick
  <2>1. /\ state' \in [Threads -> States] /\ rq' \in Lists(Nodes)
        /\ current' \in Threads /\ kstack' \in [Threads -> BOOLEAN]
        /\ wedged' \in BOOLEAN /\ QueueAllocated(rq') /\ Allocated(current')
    BY DescheduleType, ScheduleType, <1>11 DEF AllocInv, TypeOK, Tick, ReturnToUser, cpuVars
  <2>2. nest' \in [Threads -> 0..MaxNest]
    BY <1>11 DEF TypeOK, IrqEntry, SchedulerConstants, Tick
  <2>3. masked' \in BOOLEAN
    BY <1>11, Zenon DEF TypeOK, Tick, IrqEntry
  <2>4. ~wedged
    BY <1>11 DEF Tick, IrqEntry
  <2>5. TypeOK'
    BY <1>11, <2>1, <2>2, <2>3, <2>4 DEF TypeOK, Tick, kbdVars, timeVars
  <2>6. AllocInv'
    BY <1>11, <2>1, <2>2, <2>3, <2>4, AllocKept DEF AllocInv, Tick, kbdVars, timeVars
  <2>. QED BY <2>5, <2>6
<1>12. ASSUME NEW p \in Procs, VirtualTimer(p) PROVE TInv'
  <2>1. p \in Threads /\ Allocated(p) /\ ~wedged
    BY <1>0, <1>12 DEF VirtualTimer, AllocInv
  <2>2. rq' \in Lists(Nodes) /\ QueueAllocated(rq')
    BY <1>12, <2>1, AddAllocated DEF VirtualTimer, RescheduleQueue, TypeOK, AllocInv
  <2>3. state' \in [Threads -> States]
    BY <1>12 DEF VirtualTimer, RescheduleStates, TypeOK, States
  <2>4. /\ sleeping' \in [Procs -> Nat]
        /\ \A r \in Procs : sleeping'[r] > 0 => sleeping[r] > 0
    BY <1>12 DEF VirtualTimer, TypeOK
  <2>5. items' \in 0..TimerSlots /\ (armed' => items' > 0)
    BY <1>12 DEF VirtualTimer, TypeOK, AllocInv, SchedulerConstants
  <2>6. armed' \in BOOLEAN
    <3>1. (items > 1) \in BOOLEAN
      OBVIOUS
    <3>2. armed' = (items > 1)
      BY <1>12 DEF VirtualTimer
    <3>. QED BY <3>1, <3>2, Zenon
  <2>7. TypeOK'
    BY <1>12, <2>2, <2>3, <2>4, <2>5, <2>6 DEF TypeOK, VirtualTimer, procVars, kbdVars
  <2>8. AllocInv'
    BY <1>12, <2>1, <2>2, <2>4, <2>5, AllocKept DEF AllocInv, VirtualTimer, procVars, kbdVars
  <2>. QED BY <2>7, <2>8
<1>13. CASE Key
  <2>1. /\ state' \in [Threads -> States] /\ rq' \in Lists(Nodes)
        /\ current' \in Threads /\ kstack' \in [Threads -> BOOLEAN]
        /\ wedged' \in BOOLEAN /\ QueueAllocated(rq') /\ Allocated(current')
    <3>1. CASE Schedule(state, rq)
      BY <3>1, ScheduleType DEF TypeOK, AllocInv
    <3>2. CASE /\ rdWait # None
               /\ Schedule(RescheduleStates(state, rdWait), RescheduleQueue(rq, rdWait))
      <4>1. rdWait \in Threads /\ Allocated(rdWait)
        BY <1>0, <3>2 DEF TypeOK, AllocInv
      <4>2. RescheduleStates(state, rdWait) \in [Threads -> States]
        BY DEF TypeOK, States, RescheduleStates
      <4>3. /\ RescheduleQueue(rq, rdWait) \in Lists(Nodes)
            /\ QueueAllocated(RescheduleQueue(rq, rdWait))
        BY <4>1, AddAllocated DEF TypeOK, AllocInv, RescheduleQueue
      <4>. QED BY <3>2, <4>2, <4>3, ScheduleType DEF AllocInv
    <3>. QED BY <1>13, <3>1, <3>2 DEF Key, HandleKeyboardEvent
  <2>2. nest' \in [Threads -> 0..MaxNest]
    BY <1>13 DEF TypeOK, IrqEntry, SchedulerConstants, Key, HandleKeyboardEvent
  <2>3. masked' \in BOOLEAN
    BY <1>13, Zenon DEF Key, HandleKeyboardEvent, IrqEntry
  <2>4. ~wedged
    BY <1>13 DEF Key, HandleKeyboardEvent, IrqEntry
  <2>5. avail' \in 0..RingSize /\ rdWait' \in {rdWait, None}
    BY <1>13 DEF Key, HandleKeyboardEvent, TypeOK, SchedulerConstants, kbdVars
  <2>6. TypeOK'
    BY <1>13, <2>1, <2>2, <2>3, <2>4, <2>5 DEF TypeOK, Key, HandleKeyboardEvent, timeVars
  <2>7. AllocInv'
    BY <1>13, <2>1, <2>4, <2>5, AllocKept DEF AllocInv, Key, HandleKeyboardEvent, timeVars
  <2>. QED BY <2>6, <2>7
<1>14. CASE IdleStep
  <2>1. SUFFICES ASSUME NEW l \in IdleLabels, NEW k \in IdleLabels, IdleAt(l, k),
                        \/ UNCHANGED <<cpuVars, newproc>> /\ k \notin {"remove", "ready", "switch"}
                        \/ IdleEmpty \/ IdlePick \/ IdleRemove \/ IdleReady \/ IdleSwitch,
                        masked' \in {FALSE, masked}
                 PROVE  TInv'
    <3>1. CASE IdleEnable BY <1>14, <2>1, <3>1 DEF IdleEnable, IdleLabels
    <3>2. CASE IdleWfi BY <1>14, <2>1, <3>2 DEF IdleWfi, IdleLabels
    <3>3. CASE IdleTest BY <1>14, <2>1, <3>3 DEF IdleTest, IdleLabels
    <3>4. CASE IdleEmpty BY <1>14, <2>1, <3>4 DEF IdleEmpty, IdleLabels
    <3>5. CASE IdlePick BY <1>14, <2>1, <3>5 DEF IdlePick, IdleLabels
    <3>6. CASE IdleRemove BY <1>14, <2>1, <3>6 DEF IdleRemove, IdleLabels
    <3>7. CASE IdleReady BY <1>14, <2>1, <3>7 DEF IdleReady, IdleLabels
    <3>8. CASE IdleSwitch BY <1>14, <2>1, <3>8 DEF IdleSwitch, IdleLabels
    <3>. QED BY <1>14, <3>1, <3>2, <3>3, <3>4, <3>5, <3>6, <3>7, <3>8 DEF IdleStep
  <2>2. /\ at' \in [Threads -> IdleLabels \cup ProcLabels] /\ at'[Idle] = k
        /\ at[Idle] = l /\ current = Idle /\ ~wedged
    BY <1>0, <1>0a, <2>1 DEF IdleAt, ResumesAt, TypeOK
  <2>3. masked' \in BOOLEAN
    BY <2>1, Zenon DEF TypeOK
  <2>4. CASE UNCHANGED <<cpuVars, newproc>> /\ k \notin {"remove", "ready", "switch"}
    <3>1. TypeOK'
      BY <2>1, <2>2, <2>3, <2>4 DEF TypeOK, IdleAt, cpuVars, kbdVars, timeVars
    <3>2. AllocInv'
      BY <2>1, <2>2, <2>4, AllocKept DEF AllocInv, IdleAt, cpuVars, kbdVars, timeVars
    <3>. QED BY <3>1, <3>2
  <2>5. ASSUME NEW STATE n, n \in Threads, Allocated(n), PreContextSwitch(n, state, rq),
               k = "enable", newproc' = newproc
        PROVE  TInv'
    <3>1. /\ state' \in [Threads -> States] /\ rq' = rq /\ current' = n
          /\ kstack' \in [Threads -> BOOLEAN]
      BY <2>5 DEF PreContextSwitch, ContextSwitch, CheckAndReap, TypeOK, States
    <3>2. wedged' \in BOOLEAN
      BY <2>5, Zenon DEF PreContextSwitch, ContextSwitch, CheckAndReap
    <3>3. TypeOK'
      BY <2>1, <2>2, <2>3, <2>5, <3>1, <3>2 DEF TypeOK, IdleAt, kbdVars, timeVars
    <3>4. AllocInv'
      BY <2>1, <2>2, <2>5, <3>1, AllocKept DEF AllocInv, IdleAt, kbdVars, timeVars
    <3>. QED BY <3>3, <3>4
  <2>6. CASE IdleEmpty
    <3>1. k = "enable"
      BY <2>2, <2>6, <1>0 DEF IdleEmpty, IdleAt, TypeOK
    <3>2. CASE UNCHANGED cpuVars
      BY <2>4, <2>6, <3>1, <3>2 DEF IdleEmpty
    <3>3. CASE PreContextSwitch(Idle, state, rq)
      BY <1>0, <2>5, <2>6, <3>1, <3>3 DEF IdleEmpty, Allocated
    <3>. QED BY <2>6, <3>2, <3>3 DEF IdleEmpty
  <2>7. CASE IdlePick
    <3>1. /\ newproc' = rq.next[RunQueue] /\ newproc' \in Nodes
          /\ UNCHANGED <<state, rq, current, kstack>>
      BY <2>7 DEF IdlePick, TypeOK, Lists, Nodes
    <3>2. wedged' \in BOOLEAN /\ (wedged' <=> newproc' = RunQueue)
      BY <2>7, Zenon DEF IdlePick
    <3>3. ~wedged' => newproc' \in Threads /\ Allocated(newproc')
      BY <3>1, <3>2 DEF AllocInv, QueueAllocated, Nodes
    <3>4. TypeOK'
      BY <2>1, <2>2, <2>3, <3>1, <3>2 DEF TypeOK, IdleAt, kbdVars, timeVars
    <3>5. AllocInv'
      BY <2>1, <2>2, <3>1, <3>3, AllocKept DEF AllocInv, IdleAt, kbdVars, timeVars
    <3>. QED BY <3>4, <3>5
  <2>8. ASSUME UNCHANGED <<current, kstack, wedged, newproc>>,
               state' \in [Threads -> States], rq' \in Lists(Nodes),
               QueueAllocated(rq'), l \in {"remove", "ready", "switch"}
        PROVE  TInv'
    <3>1. newproc \in Threads /\ Allocated(newproc)
      BY <2>2, <2>8 DEF AllocInv
    <3>2. TypeOK'
      BY <2>1, <2>2, <2>3, <2>8 DEF TypeOK, IdleAt, kbdVars, timeVars
    <3>3. AllocInv'
      BY <2>1, <2>2, <2>8, <3>1, AllocKept DEF AllocInv, IdleAt, kbdVars, timeVars
    <3>. QED BY <3>2, <3>3
  <2>9. CASE IdleRemove
    <3>1. l = "remove"
      BY <2>2, <2>9 DEF IdleRemove, IdleAt, ResumesAt
    <3>2. newproc \in Threads /\ Allocated(newproc)
      BY <2>2, <3>1 DEF AllocInv
    <3>3. rq' \in Lists(Nodes) /\ QueueAllocated(rq')
      BY <2>9, <3>2, RemoveAllocated DEF IdleRemove, TypeOK, AllocInv
    <3>. QED BY <2>8, <2>9, <3>1, <3>3 DEF IdleRemove, TypeOK
  <2>10. CASE IdleReady
    <3>1. l = "ready"
      BY <2>2, <2>10 DEF IdleReady, IdleAt, ResumesAt
    <3>2. rq' \in Lists(Nodes) /\ QueueAllocated(rq')
      BY <1>0, <2>10, AddAllocated DEF IdleReady, TypeOK, AllocInv, Allocated
    <3>3. state' \in [Threads -> States]
      BY <2>10 DEF IdleReady, YieldStates, TypeOK, States
    <3>. QED BY <2>8, <2>10, <3>1, <3>2, <3>3 DEF IdleReady
  <2>11. CASE IdleSwitch
    <3>1. l = "switch" /\ k = "enable"
      BY <1>0, <2>2, <2>11 DEF IdleSwitch, IdleAt, ResumesAt, TypeOK
    <3>2. newproc \in Threads /\ Allocated(newproc)
      BY <2>2, <3>1 DEF AllocInv
    <3>. QED BY <2>5, <2>11, <3>1, <3>2 DEF IdleSwitch
  <2>. QED BY <2>1, <2>4, <2>6, <2>7, <2>9, <2>10, <2>11
<1>15. CASE UNCHANGED vars
  BY <1>15 DEF vars, procVars, cpuVars, kbdVars, timeVars, TypeOK, AllocInv, Allocated,
     QueueAllocated
<1>. QED BY <1>1, <1>2, <1>3, <1>4, <1>5, <1>6, <1>7, <1>8, <1>9, <1>10, <1>11,
            <1>12, <1>13, <1>14, <1>15
         DEF Next, Interrupt, Syscall, Resume

LEMMA InitTInv == Init => TInv
<1>1. SUFFICES ASSUME Init PROVE TInv
  OBVIOUS
<1>2. rq \in Lists(Nodes) /\ \A n \in Nodes : rq.next[n] = n
  BY <1>1 DEF Init, InitLists, Lists
<1>3. TypeOK
  <2>1. /\ state \in [Threads -> States] /\ nest \in [Threads -> 0..MaxNest]
        /\ at \in [Threads -> IdleLabels \cup ProcLabels]
    BY <1>1, SchedulerConstants DEF Init, States, IdleLabels, ProcLabels
  <2>2. kstack \in [Threads -> BOOLEAN]
    BY <1>1 DEF Init
  <2>3. /\ waiting_on \in [Threads -> Procs \cup {None}] /\ current \in Threads
        /\ parent \in [Threads -> Threads \cup {None}]
    BY <1>1, SchedulerConstants DEF Init, Threads
  <2>4. masked \in BOOLEAN /\ wedged \in BOOLEAN /\ armed \in BOOLEAN
    BY <1>1, Zenon DEF Init
  <2>5. /\ newproc \in Nodes \cup {None} /\ rdWait \in Procs \cup {None}
        /\ avail \in 0..RingSize /\ items \in 0..TimerSlots /\ sleeping \in [Procs -> Nat]
    BY <1>1, SchedulerConstants DEF Init
  <2>. QED BY <1>2, <2>1, <2>2, <2>3, <2>4, <2>5 DEF TypeOK
<1>4. AllocInv
  BY <1>1, <1>2, SchedulerConstants DEF Init, AllocInv, Allocated, QueueAllocated, Threads,
     IdleLabels
<1>. QED BY <1>3, <1>4 DEF TInv

\* The variables keep their types, for any workload and any pid of the idle
\* process: also after the races of the idle process, scheduler() only
\* switches to PCBs that were set up, the ring of the keyboard and the sleep
\* queue stay within their bounds.
THEOREM TypeCorrect == Spec => []TypeOK
<1>1. Init => TInv
  BY InitTInv
<1>2. TInv /\ [Next]_vars => TInv'
  BY TInvStep, SchedulerConstants
<1>3. TInv => TypeOK
  BY DEF TInv
<1>. QED BY <1>1, <1>2, <1>3, PTL DEF Spec
-----------------------------------------------------------------------------
(***************************************************************************)
(* Blocking calls and the sleep timer, for every workload.                 *)
(***************************************************************************)

\* waitid returns only once the child has terminated, and a read returns only
\* what was typed: the loops of sys_waitid and pipe_read test again after
\* every wakeup, whoever else runs in between and whatever woke them.
THEOREM BlockingCallsAreComplete == Spec => BlockingCallsComplete
<1> DEFINE Complete ==
        \A p \in Procs : at[p] # at'[p] /\ at'[p] = "user" /\ state[p] # "NONE" =>
            /\ at[p] = "waitid" => state[waiting_on[p]] = "TERMINATED"
            /\ at[p] = "read" => avail > 0 /\ avail' <= avail
<1>1. TypeOK /\ [Next]_vars => [Complete]_vars
  <2>1. SUFFICES ASSUME TypeOK, Next,
                        NEW p \in Procs, at[p] # at'[p], at'[p] = "user", state[p] # "NONE"
                 PROVE  /\ at[p] = "waitid" => state[waiting_on[p]] = "TERMINATED"
                        /\ at[p] = "read" => avail > 0 /\ avail' <= avail
    OBVIOUS
  <2>2. p \in Threads /\ p # Idle /\ current \in Threads /\ at \in [Threads -> IdleLabels \cup ProcLabels]
    BY <2>1, SchedulerConstants DEF TypeOK, Threads
  <2>3. \A c, l : at' = [at EXCEPT ![c] = l] => p = c /\ l = "user"
    BY <2>1, <2>2
  <2>4. at' # at
    BY <2>1
  <2>5. CASE Interrupt
    BY <2>4, <2>5 DEF Interrupt, Tick, Key, VirtualTimer, procVars
  <2>6. ASSUME NEW c \in Procs, Fork(c) PROVE FALSE
    BY <2>1, <2>3, <2>6 DEF Fork, CloneActiveProc
  <2>7. ASSUME NEW c \in Procs, Waitid(c) PROVE FALSE
    BY <2>1, <2>3, <2>7 DEF Waitid, WaitLoop, ReturnToUser, InUser
  <2>8. ASSUME NEW n \in 0..RingSize, Read(n) PROVE FALSE
    BY <2>1, <2>3, <2>8 DEF Read, ReadLoop, ReturnToUser, InUser
  <2>9. CASE Nanosleep \/ Exit
    BY <2>3, <2>9 DEF Nanosleep, Exit
  <2>10. CASE Eret \/ ResumeNanosleep \/ ResumeExit
    BY <2>3, <2>4, <2>10 DEF Eret, ResumeNanosleep, ResumeExit, ResumesAt, ReturnToUser
  <2>11. CASE ResumeWaitid
    BY <2>3, <2>11 DEF ResumeWaitid, ResumesAt, WaitLoop, ReturnToUser
  <2>12. ASSUME NEW n \in 0..RingSize, ResumeRead(n)
         PROVE  at[p] = "read" /\ avail > 0 /\ avail' <= avail
    <3>1. avail \in Nat /\ n \in Nat
      BY <2>1, SchedulerConstants DEF TypeOK
    <3>. QED BY <2>3, <2>12, <3>1 DEF ResumeRead, ResumesAt, ReadLoop, ReturnToUser
  <2>13. CASE IdleStep
    BY <2>2, <2>3, <2>13 DEF IdleStep, IdleEnable, IdleWfi, IdleTest, IdleEmpty, IdlePick,
       IdleRemove, IdleReady, IdleSwitch, IdleAt
  <2>. QED BY <2>1, <2>5, <2>6, <2>7, <2>8, <2>9, <2>10, <2>11, <2>12, <2>13
           DEF Next, Syscall, Resume
<1>. QED BY <1>1, TypeCorrect, PTL DEF Spec, BlockingCallsComplete

\* The entries of the sleep queue, the k-th one of process p as <<p, k>>.
Entries(s) == {e \in Procs \X Nat : e[2] < s[e[1]]}

\* items counts the entries, and the timer is armed while there is one.
SleepInv ==
    /\ IsFiniteSet(Entries(sleeping))
    /\ Cardinality(Entries(sleeping)) = items
    /\ armed <=> items > 0

LEMMA SleepStep == SchedulerConstants /\ TInv /\ SleepInv /\ [Next]_vars => SleepInv'
<1> SUFFICES ASSUME SchedulerConstants, TInv, SleepInv, [Next]_vars PROVE SleepInv'
  OBVIOUS
<1>0. /\ sleeping \in [Procs -> Nat] /\ items \in Nat /\ TimerSlots \in Nat \ {0}
      /\ items <= TimerSlots
  BY DEF TInv, TypeOK, SchedulerConstants
<1>1. CASE UNCHANGED timeVars
  BY <1>1 DEF SleepInv, timeVars
<1>2. CASE Nanosleep
  <2>1. current \in Procs
    BY <1>2 DEF Nanosleep, InUser, TInv, TypeOK, Threads
  <2>2. CASE items < TimerSlots
    <3> DEFINE e == <<current, sleeping[current]>>
    <3>1. /\ sleeping' = [sleeping EXCEPT ![current] = @ + 1]
          /\ items' = items + 1 /\ armed'
      BY <1>2, <2>2 DEF Nanosleep, TimerNanosleep
    <3>2. Entries(sleeping') = Entries(sleeping) \cup {e} /\ e \notin Entries(sleeping)
      BY <1>0, <2>1, <3>1 DEF Entries
    <3>3. /\ IsFiniteSet(Entries(sleeping) \cup {e})
          /\ Cardinality(Entries(sleeping) \cup {e}) = Cardinality(Entries(sleeping)) + 1
      <4> HIDE DEF e
      <4>. QED BY <3>2, FS_AddElement DEF SleepInv
    <3>4. armed' <=> items' > 0
      <4>1. items' > 0
        BY <1>0, <3>1
      <4>. QED BY <3>1, <4>1, Zenon
    <3>5. Cardinality(Entries(sleeping')) = items'
      BY <3>1, <3>2, <3>3 DEF SleepInv
    <3>. QED BY <3>2, <3>3, <3>4, <3>5, Zenon DEF SleepInv
  <2>3. CASE ~(items < TimerSlots)
    BY <1>0, <1>2, <2>3 DEF Nanosleep, TimerNanosleep, SleepInv
  <2>. QED BY <2>2, <2>3
<1>3. ASSUME NEW p \in Procs, VirtualTimer(p) PROVE SleepInv'
  <2> DEFINE e == <<p, sleeping[p] - 1>>
  <2>1. /\ sleeping' = [sleeping EXCEPT ![p] = @ - 1] /\ sleeping[p] > 0
        /\ items' = items - 1 /\ armed' = (items > 1)
    BY <1>3 DEF VirtualTimer
  <2>2. Entries(sleeping') = Entries(sleeping) \ {e} /\ e \in Entries(sleeping)
    <3>1. /\ sleeping[p] \in Nat /\ sleeping[p] - 1 \in Nat /\ sleeping'[p] = sleeping[p] - 1
          /\ \A r \in Procs \ {p} : sleeping'[r] = sleeping[r]
      BY <1>0, <2>1
    <3>2. \A r \in Procs : sleeping[r] \in Nat
      BY <1>0
    <3>3. \A r \in Procs, k \in Nat : k < sleeping'[r] <=> k < sleeping[r] /\ <<r, k>> # e
      BY <3>1, <3>2
    <3>. QED BY <3>1, <3>3 DEF Entries
  <2>3. /\ IsFiniteSet(Entries(sleeping) \ {e})
        /\ Cardinality(Entries(sleeping) \ {e}) = Cardinality(Entries(sleeping)) - 1
    <3> HIDE DEF e
    <3>. QED BY <2>2, FS_RemoveElement DEF SleepInv
  <2>4. armed' <=> items' > 0
    <3>1. items > 1 <=> items - 1 > 0
      BY <1>0
    <3>. QED BY <2>1, <3>1, Zenon
  <2>. QED BY <2>1, <2>2, <2>3, <2>4 DEF SleepInv
<1>4. CASE Tick \/ Key
  BY <1>1, <1>4 DEF Tick, Key, timeVars
<1>5. CASE \E c \in Procs : Fork(c) \/ Waitid(c)
  BY <1>1, <1>5 DEF Fork, Waitid, timeVars
<1>6. CASE \E n \in 0..RingSize : Read(n) \/ ResumeRead(n)
  BY <1>1, <1>6 DEF Read, ResumeRead, timeVars
<1>7. CASE Exit \/ Eret \/ ResumeWaitid \/ ResumeNanosleep \/ ResumeExit
  BY <1>1, <1>7 DEF Exit, Eret, ResumeWaitid, ResumeNanosleep, ResumeExit, timeVars
<1>8. CASE IdleStep
  BY <1>1, <1>8 DEF IdleStep, IdleEnable, IdleWfi, IdleTest, IdleEmpty, IdlePick,
     IdleRemove, IdleReady, IdleSwitch, IdleAt, timeVars
<1>9. CASE UNCHANGED vars
  BY <1>1, <1>9 DEF vars, timeVars
<1>. QED BY <1>2, <1>3, <1>4, <1>5, <1>6, <1>7, <1>8, <1>9
         DEF Next, Interrupt, Syscall, Resume

\* The virtual timer is armed exactly while the sleep queue has an entry, also
\* when requests were dropped by a full queue: handle_virtual_timer always
\* finds an entry to pop, and no sleeper is left without an alarm.
THEOREM TimerIsArmed == Spec => []TimerArmedForSleepers
<1>1. Init => SleepInv
  <2>1. SUFFICES ASSUME Init PROVE SleepInv
    OBVIOUS
  <2>2. Entries(sleeping) = {} /\ items = 0 /\ ~armed
    BY <2>1 DEF Init, Entries
  <2>. QED BY <2>2, FS_EmptySet DEF SleepInv
<1>2. TInv /\ SleepInv => TimerArmedForSleepers
  <2>1. SUFFICES ASSUME TInv, SleepInv PROVE TimerArmedForSleepers
    OBVIOUS
  <2>2. sleeping \in [Procs -> Nat] /\ items \in Nat
    BY <2>1, SchedulerConstants DEF TInv, TypeOK
  <2>3. items = 0 <=> Entries(sleeping) = {}
    BY <2>1, FS_EmptySet DEF SleepInv
  <2>4. Entries(sleeping) # {} <=> \E p \in Procs : sleeping[p] > 0
    <3>1. ASSUME NEW p \in Procs, sleeping[p] > 0 PROVE <<p, 0>> \in Entries(sleeping)
      BY <3>1 DEF Entries
    <3>2. ASSUME NEW e \in Entries(sleeping) PROVE e[1] \in Procs /\ sleeping[e[1]] > 0
      BY <2>2, <3>2 DEF Entries
    <3>. QED BY <3>1, <3>2
  <2>. QED BY <2>1, <2>2, <2>3, <2>4 DEF SleepInv, TimerArmedForSleepers
<1>3. Init => TInv
  BY InitTInv
<1>4. TInv /\ SleepInv /\ [Next]_vars => TInv' /\ SleepInv'
  BY TInvStep, SleepStep, SchedulerConstants
<1>. QED BY <1>1, <1>2, <1>3, <1>4, PTL DEF Spec
-----------------------------------------------------------------------------
(***************************************************************************)
(* Safety of the run queue and of the process lifecycle when no program    *)
(* sleeps.                                                                 *)
(***************************************************************************)

\* Process states st and run queue q agree: the links are those of one ring,
\* the linked processes are the READY ones and only current may be RUNNING.
QueueInv(st, q) ==
    /\ st \in [Threads -> States]
    /\ q \in Lists(Nodes)
    /\ RingOK(q, Nodes)
    /\ Anchored(q, Nodes, {RunQueue})
    /\ ~Linked(q, Idle)
    /\ \A p \in Procs : Linked(q, p) <=> st[p] = "READY"
    /\ st[Idle] \in {"READY", "RUNNING"}

\* Only the current thread is RUNNING, and the idle process has the core only
\* when the run queue is empty.
CurrentInv ==
    /\ \A t \in Threads : state[t] = "RUNNING" <=> t = current
    /\ current = Idle => ListEmpty(rq, RunQueue)

\* Who has a kernel stack.
StackInv ==
    /\ ~wedged
    /\ kstack[Idle]
    /\ \A p \in Procs : kstack[p] <=> state[p] \notin {"NONE", "TERMINATED"}

\* Where a thread goes on, and under which interrupt mask.
LabelInv ==
    /\ at[Idle] \in {"enable", "wfi", "test", "empty"}
    /\ \A p \in Procs :
          /\ at[p] \in {"user", "waitid", "read", "exited"}
          /\ at[p] = "exited" <=> state[p] = "TERMINATED"
          /\ state[p] = "BLOCKED" => at[p] \in {"waitid", "read"}
          /\ nest[p] > 0 => nest[p] = 1 /\ at[p] = "user"
          /\ sleeping[p] = 0
    /\ KernelMasked

\* A process blocked in waitid is the parent of the live process it waits
\* for; every other value of waiting_on is that of a terminated process.
WaitInv ==
    /\ waiting_on[Idle] = None
    /\ \A p \in Procs : parent[p] = None <=> state[p] = "NONE"
    /\ \A p \in Procs : at[p] = "waitid" => waiting_on[p] # None
    /\ \A p \in Procs : waiting_on[p] # None =>
          IF at[p] = "waitid" /\ state[p] = "BLOCKED"
          THEN /\ parent[waiting_on[p]] = p
               /\ state[waiting_on[p]] \notin {"NONE", "TERMINATED"}
          ELSE state[waiting_on[p]] = "TERMINATED"

\* The entry on the keyboard's wait queue is that of a blocked reader of an
\* empty ring; with one reader, that entry is there while it is blocked.
ReadInv ==
    /\ rdWait # None => /\ at[rdWait] = "read"
                        /\ state[rdWait] = "BLOCKED"
                        /\ avail = 0
    /\ \A p \in Procs : at[p] = "read" => p \in Readers
    /\ (\A p, r \in Readers : p = r) =>
          \A p \in Procs : at[p] = "read" /\ state[p] = "BLOCKED" => rdWait = p

IInv ==
    /\ TypeOK
    /\ QueueInv(state, rq)
    /\ CurrentInv
    /\ StackInv
    /\ LabelInv
    /\ WaitInv
    /\ ReadInv

\* reschedule() of a process that is not linked.
LEMMA RescheduleSafe ==
    ASSUME SchedulerConstants, NEW STATE st, NEW STATE q, QueueInv(st, q),
           NEW STATE p, p \in Procs, st[p] # "READY"
    PROVE  QueueInv(RescheduleStates(st, p), RescheduleQueue(q, p))
<1>1. p \in Nodes /\ RunQueue \in Nodes /\ p # RunQueue /\ Idle # RunQueue /\ p # Idle
      /\ Idle \in Nodes /\ p \in Threads
  BY DEF Nodes, Threads, SchedulerConstants
<1>2. ~Linked(q, p) /\ q \in Lists(Nodes) /\ RingOK(q, Nodes) /\ Anchored(q, Nodes, {RunQueue})
  BY DEF QueueInv
<1> DEFINE r == ListAdd(q, p, RunQueue)
<1>3. /\ r \in Lists(Nodes) /\ RingOK(r, Nodes)
      /\ \A m \in Nodes \ {RunQueue} : Linked(r, m) <=> (m = p \/ Linked(q, m))
  BY <1>1, <1>2, ListAddRing
<1>4. Anchored(r, Nodes, {RunQueue})
  BY <1>1, <1>2, ListAddAnchored
<1>5. \A m \in Procs : m \in Nodes \ {RunQueue}
  BY DEF Nodes, Threads, SchedulerConstants
<1> HIDE DEF r
<1>6. QueueInv(RescheduleStates(st, p), r)
  BY <1>1, <1>3, <1>4, <1>5 DEF QueueInv, RescheduleStates, States
<1>. QED BY <1>6 DEF RescheduleQueue, r

\* scheduler(), called for a current thread that is RUNNING or has just
\* blocked or terminated.
LEMMA ScheduleSafe ==
    ASSUME SchedulerConstants, IdlePid = 0, NEW STATE st, NEW STATE q, QueueInv(st, q),
           TypeOK, TypeOK',
           \A t \in Threads : st[t] = "RUNNING" => t = current,
           current = Idle => st[Idle] = "RUNNING",
           st[current] \in {"RUNNING", "BLOCKED", "TERMINATED"},
           ~wedged, kstack[Idle],
           \A p \in Procs : kstack[p] <=>
               (st[p] \notin {"NONE", "TERMINATED"} \/ p = current),
           Schedule(st, q)
    PROVE  /\ QueueInv(state, rq)'
           /\ CurrentInv'
           /\ StackInv'
           /\ \A p \in Procs, x \in {"NONE", "BLOCKED", "TERMINATED"} :
                  state'[p] = x <=> st[p] = x
<1> DEFINE first == q.next[RunQueue]
<1>0. /\ Idle \in Threads /\ Idle \notin Procs /\ current \in Threads
      /\ RunQueue \in Nodes /\ RunQueue \notin Threads
      /\ \A p \in Procs : p \in Threads /\ p \in Nodes /\ p # Idle
      /\ Threads \subseteq Nodes /\ Threads = Procs \cup {Idle}
      /\ st \in [Threads -> States] /\ kstack \in [Threads -> BOOLEAN]
      /\ q \in Lists(Nodes)
      /\ Nodes = Threads \cup {RunQueue}
  BY DEF SchedulerConstants, Threads, Nodes, TypeOK, QueueInv
<1>1. CASE ListEmpty(q, RunQueue) /\ st[current] = "RUNNING" /\ NoSwitch(st, q)
  BY <1>0, <1>1 DEF NoSwitch, QueueInv, CurrentInv, StackInv
<1>2. CASE ListEmpty(q, RunQueue) /\ st[current] # "RUNNING" /\ PreContextSwitch(Idle, st, q)
  <2>1. current # Idle /\ current \in Procs
    BY <1>0, <1>2
  <2>2. /\ state' = [st EXCEPT ![Idle] = "RUNNING"] /\ rq' = q /\ current' = Idle
        /\ state'[Idle] = "RUNNING" /\ \A p \in Procs : state'[p] = st[p]
    BY <1>0, <1>2 DEF PreContextSwitch, ContextSwitch, CheckAndReap
  <2>3. QueueInv(state, rq)'
    BY <1>0, <2>2 DEF QueueInv, TypeOK
  <2>4. CurrentInv'
    BY <1>0, <1>2, <2>1, <2>2 DEF CurrentInv
  <2>5. StackInv'
    BY <1>0, <1>2, <2>1, <2>2 DEF StackInv, PreContextSwitch, ContextSwitch, CheckAndReap
  <2>. QED BY <2>2, <2>3, <2>4, <2>5
<1>3. CASE ~ListEmpty(q, RunQueue)
  <2>1. first \in Procs /\ st[first] = "READY" /\ first # current /\ Linked(q, first)
    <3>1. first \in Nodes \ {RunQueue} /\ Linked(q, first)
      BY <1>0, <1>3, FirstLinked DEF QueueInv
    <3>2. first \in Procs
      BY <1>0, <3>1 DEF QueueInv
    <3>. QED BY <3>1, <3>2 DEF QueueInv
  <2>2. PreContextSwitch(first, YieldStates(st), YieldQueue(first, st, q))
    BY <1>3, <2>1 DEF Schedule
  <2> DEFINE taken == ListRemove(q, first)
  <2> HIDE DEF first
  <2>3. /\ taken \in Lists(Nodes) /\ RingOK(taken, Nodes) /\ ~Linked(taken, first)
        /\ Anchored(taken, Nodes, {RunQueue})
        /\ \A m \in Nodes \ {first, RunQueue} : Linked(taken, m) <=> Linked(q, m)
    BY <1>0, <2>1, ListRemoveRing, ListRemoveAnchored DEF QueueInv
  <2> HIDE DEF taken
  <2>4. YieldQueue(first, st, q) =
            IF st[current] = "RUNNING" /\ current # Idle
            THEN ListAdd(taken, current, RunQueue) ELSE taken
    BY <1>0, <2>1 DEF YieldQueue, OnRunQueue, taken
  <2>5. /\ current' = first
        /\ state' = [YieldStates(st) EXCEPT ![first] = "RUNNING"]
        /\ rq' = YieldQueue(first, st, q)
    BY <2>2 DEF PreContextSwitch, ContextSwitch, CheckAndReap
  <2>6. \A t \in Threads : state'[t] =
            IF t = first THEN "RUNNING"
            ELSE IF t = current /\ st[t] = "RUNNING" THEN "READY" ELSE st[t]
    BY <1>0, <2>1, <2>5 DEF YieldStates
  <2>7. QueueInv(state, rq)'
    <3>1. CASE st[current] = "RUNNING" /\ current # Idle
      <4>1. current \in Procs /\ ~Linked(taken, current)
        BY <1>0, <2>1, <2>3, <3>1 DEF QueueInv
      <4> DEFINE r == ListAdd(taken, current, RunQueue)
      <4>2. /\ r \in Lists(Nodes) /\ RingOK(r, Nodes) /\ Anchored(r, Nodes, {RunQueue})
            /\ \A m \in Nodes \ {RunQueue} : Linked(r, m) <=> (m = current \/ Linked(taken, m))
        BY <1>0, <2>3, <4>1, ListAddRing, ListAddAnchored
      <4>3. rq' = r
        BY <2>4, <2>5, <3>1
      <4> HIDE DEF r
      <4>. QED BY <1>0, <2>1, <2>3, <2>6, <3>1, <4>1, <4>2, <4>3 DEF QueueInv, TypeOK
    <3>2. CASE ~(st[current] = "RUNNING" /\ current # Idle)
      <4>1. rq' = taken
        BY <2>4, <2>5, <3>2
      <4>. QED BY <1>0, <2>1, <2>3, <2>6, <3>2, <4>1 DEF QueueInv, TypeOK
    <3>. QED BY <3>1, <3>2
  <2>8. CurrentInv'
    BY <1>0, <2>1, <2>5, <2>6 DEF CurrentInv
  <2>9. StackInv'
    BY <1>0, <2>1, <2>2, <2>6 DEF StackInv, PreContextSwitch, ContextSwitch, CheckAndReap, YieldStates
  <2>. QED BY <1>0, <2>1, <2>6, <2>7, <2>8, <2>9
<1>. QED BY <1>1, <1>2, <1>3 DEF Schedule

\* deschedule() of a RUNNING process.
LEMMA DescheduleSafe ==
    ASSUME SchedulerConstants, IdlePid = 0, IInv, TypeOK', current # Idle, Deschedule
    PROVE  /\ QueueInv(state, rq)'
           /\ CurrentInv'
           /\ StackInv'
           /\ state'[current] = "BLOCKED"
           /\ \A p \in Procs \ {current}, x \in {"NONE", "BLOCKED", "TERMINATED"} :
                  state'[p] = x <=> state[p] = x
<1> DEFINE st == [state EXCEPT ![current] = "BLOCKED"]
           q  == ListRemove(rq, current)
<1>0. current \in Procs /\ current \in Threads /\ current \in Nodes /\ TypeOK
      /\ Idle \in Threads /\ Idle # current /\ \A p \in Procs : p \in Threads
  BY DEF IInv, TypeOK, Threads, Nodes, SchedulerConstants
<1>1. state[current] = "RUNNING" /\ ~Linked(rq, current)
  BY <1>0 DEF IInv, CurrentInv, QueueInv
<1>2. q = rq
  BY <1>0, <1>1, ListRemoveRing DEF IInv, QueueInv
<1>3. /\ st \in [Threads -> States] /\ st[current] = "BLOCKED"
      /\ \A t \in Threads \ {current} : st[t] = state[t]
  BY <1>0 DEF TypeOK, States
<1>4. Schedule(st, q)
  BY <1>1 DEF Deschedule
<1> HIDE DEF st, q
<1>5. QueueInv(st, q)
  BY <1>0, <1>1, <1>2, <1>3 DEF IInv, QueueInv
<1>6. /\ \A t \in Threads : st[t] = "RUNNING" => t = current
      /\ \A p \in Procs : kstack[p] <=>
               (st[p] \notin {"NONE", "TERMINATED"} \/ p = current)
      /\ ~wedged /\ kstack[Idle]
  BY <1>0, <1>1, <1>3 DEF IInv, CurrentInv, StackInv
<1>. QED BY <1>0, <1>3, <1>4, <1>5, <1>6, ScheduleSafe

\* A blocking call: what remains of IInv after deschedule(), when the caller
\* goes on at label l with IRQs masked.
LEMMA BlockSafe ==
    ASSUME SchedulerConstants, IdlePid = 0, IInv, TypeOK', current # Idle,
           NEW l \in {"waitid", "read"}, nest[current] = 0,
           at' = [at EXCEPT ![current] = l], masked', Deschedule,
           UNCHANGED <<nest, sleeping>>
    PROVE  QueueInv(state, rq)' /\ CurrentInv' /\ StackInv' /\ LabelInv'
<1>1. /\ current \in Procs /\ state[current] = "RUNNING" /\ Idle \notin Procs
      /\ current \in Threads /\ Idle \in Threads /\ \A p \in Procs : p \in Threads
  BY DEF SchedulerConstants, Threads, IInv, TypeOK, CurrentInv
<1>2. /\ QueueInv(state, rq)' /\ CurrentInv' /\ StackInv'
      /\ state'[current] = "BLOCKED"
      /\ \A p \in Procs \ {current}, x \in {"NONE", "BLOCKED", "TERMINATED"} :
             state'[p] = x <=> state[p] = x
  BY DescheduleSafe
<1>3. at'[current] = l /\ \A t \in Threads \ {current} : at'[t] = at[t]
  BY <1>1 DEF IInv, TypeOK
<1>4. KernelMasked'
  BY DEF KernelMasked
<1>5. LabelInv'
  BY <1>1, <1>2, <1>3, <1>4 DEF IInv, LabelInv
<1>. QED BY <1>2, <1>5

\* A return to user mode leaves the run queue and the process states alone.
LEMMA ReturnSafe ==
    ASSUME SchedulerConstants, IInv, current # Idle, nest[current] = 0,
           ReturnToUser, TypeOK', UNCHANGED <<nest, sleeping>>
    PROVE  /\ QueueInv(state, rq)' /\ CurrentInv' /\ StackInv' /\ LabelInv'
           /\ state' = state /\ current' = current /\ at'[current] = "user"
           /\ \A t \in Threads \ {current} : at'[t] = at[t]
<1>1. /\ current \in Procs /\ state[current] = "RUNNING" /\ Idle \notin Procs
      /\ current \in Threads /\ Idle \in Threads /\ \A p \in Procs : p \in Threads
  BY DEF SchedulerConstants, Threads, IInv, TypeOK, CurrentInv
<1>2. UNCHANGED <<state, rq, current, kstack, wedged>>
  BY DEF ReturnToUser, cpuVars
<1>3. at'[current] = "user" /\ \A t \in Threads \ {current} : at'[t] = at[t]
  BY <1>1 DEF ReturnToUser, IInv, TypeOK
<1>4. QueueInv(state, rq)' /\ CurrentInv' /\ StackInv'
  BY <1>2 DEF IInv, QueueInv, CurrentInv, StackInv
<1>5. KernelMasked'
  BY <1>2, <1>3 DEF KernelMasked
<1>6. LabelInv'
  BY <1>1, <1>2, <1>3, <1>5 DEF IInv, LabelInv
<1>. QED BY <1>2, <1>3, <1>4, <1>6

\* pipe_read, entered or resumed.
LEMMA ReadSafe ==
    ASSUME SchedulerConstants, IdlePid = 0, IInv, TypeOK', current # Idle,
           current \in Readers, nest[current] = 0, NEW n \in 0..RingSize,
           NEW STATE m, m, ReadLoop(n, m), at[current] # "waitid",
           UNCHANGED <<nest, waiting_on, parent, sleeping>>
    PROVE  IInv'
<1>0. /\ current \in Procs /\ state[current] = "RUNNING" /\ Idle \notin Procs
      /\ current \in Threads /\ Idle \in Threads /\ \A p \in Procs : p \in Threads
      /\ \A p \in Procs : waiting_on[p] \in Procs \cup {None}
      /\ rdWait \in Procs \cup {None} /\ None \notin Procs /\ rdWait # current
      /\ avail \in 0..RingSize
  BY DEF SchedulerConstants, Threads, IInv, TypeOK, CurrentInv, ReadInv
<1>1. CASE avail > 0 /\ ReturnToUser /\ UNCHANGED rdWait
  <2>1. /\ QueueInv(state, rq)' /\ CurrentInv' /\ StackInv' /\ LabelInv'
        /\ state' = state /\ current' = current /\ at'[current] = "user"
        /\ \A t \in Threads \ {current} : at'[t] = at[t]
    BY <1>1, ReturnSafe
  <2>2. rdWait = None /\ rdWait' = None
    BY <1>0, <1>1 DEF IInv, ReadInv
  <2>3. WaitInv'
    BY <1>0, <2>1 DEF IInv, WaitInv
  <2>4. ReadInv'
    BY <1>0, <2>1, <2>2 DEF IInv, ReadInv
  <2>. QED BY <2>1, <2>3, <2>4 DEF IInv
<1>2. CASE /\ avail = 0 /\ Deschedule /\ UNCHANGED avail
           /\ rdWait' = (IF rdWait = None THEN current ELSE rdWait)
           /\ at' = [at EXCEPT ![current] = "read"]
           /\ masked'
  <2>1. QueueInv(state, rq)' /\ CurrentInv' /\ StackInv' /\ LabelInv'
    BY <1>2, BlockSafe
  <2>2. /\ state'[current] = "BLOCKED"
        /\ \A p \in Procs \ {current}, x \in {"NONE", "BLOCKED", "TERMINATED"} :
               state'[p] = x <=> state[p] = x
    BY <1>2, DescheduleSafe
  <2>3. at'[current] = "read" /\ \A t \in Threads \ {current} : at'[t] = at[t]
    BY <1>0, <1>2 DEF IInv, TypeOK
  <2>4. WaitInv'
    BY <1>0, <2>2, <2>3 DEF IInv, WaitInv
  <2>5. ReadInv'
    BY <1>0, <1>2, <2>2, <2>3 DEF IInv, ReadInv
  <2>. QED BY <2>1, <2>4, <2>5 DEF IInv
<1>. QED BY <1>1, <1>2 DEF ReadLoop

\* scheduler() called by an interrupt handler, after reschedule() of blocked
\* readers or not (st and q).
LEMMA IrqSafe ==
    ASSUME SchedulerConstants, IdlePid = 0, IInv, TypeOK', IrqEntry,
           NEW STATE st, NEW STATE q, QueueInv(st, q), Schedule(st, q),
           \A t \in Threads : st[t] # state[t] =>
               state[t] = "BLOCKED" /\ st[t] = "READY" /\ at[t] = "read",
           UNCHANGED <<at, waiting_on, parent, sleeping>>
    PROVE  /\ QueueInv(state, rq)' /\ CurrentInv' /\ StackInv' /\ LabelInv' /\ WaitInv'
           /\ \A p \in Procs : state'[p] = "BLOCKED" <=> st[p] = "BLOCKED"
<1>0. /\ state[current] = "RUNNING" /\ Idle \notin Procs /\ current \in Threads
      /\ (current # Idle => current \in Procs)
      /\ Idle \in Threads /\ \A p \in Procs : p \in Threads
      /\ \A p \in Procs : waiting_on[p] \in Procs \cup {None}
      /\ TypeOK /\ st[current] = "RUNNING"
  BY DEF SchedulerConstants, Threads, IInv, TypeOK, CurrentInv
<1>1. /\ QueueInv(state, rq)' /\ CurrentInv' /\ StackInv'
      /\ \A p \in Procs, x \in {"NONE", "BLOCKED", "TERMINATED"} :
             state'[p] = x <=> st[p] = x
  <2>1. \A t \in Threads : st[t] = "RUNNING" => t = current
    BY <1>0 DEF IInv, CurrentInv
  <2>2. \A p \in Procs : kstack[p] <=>
               (st[p] \notin {"NONE", "TERMINATED"} \/ p = current)
    BY <1>0 DEF IInv, StackInv
  <2>3. ~wedged /\ kstack[Idle]
    BY DEF IInv, StackInv
  <2>. QED BY <1>0, <2>1, <2>2, <2>3, ScheduleSafe
<1>2. \A p \in Procs : /\ state'[p] = "TERMINATED" <=> state[p] = "TERMINATED"
                       /\ state'[p] = "NONE" <=> state[p] = "NONE"
                       /\ state'[p] = "BLOCKED" => state[p] = "BLOCKED"
                       /\ at[p] # "read" => (state'[p] = "BLOCKED" <=> state[p] = "BLOCKED")
  BY <1>0, <1>1
<1>3. KernelMasked'
  BY DEF KernelMasked, IrqEntry
<1>4. \A p \in Procs : nest'[p] > 0 => nest'[p] = 1 /\ at[p] = "user"
  BY <1>0 DEF IInv, LabelInv, KernelMasked, TypeOK, IrqEntry
<1>5. LabelInv'
  BY <1>2, <1>3, <1>4 DEF IInv, LabelInv
<1>6. WaitInv'
  BY <1>0, <1>2 DEF IInv, WaitInv
<1>. QED BY <1>1, <1>5, <1>6

LEMMA IInvStep ==
    ASSUME SchedulerConstants, IdlePid = 0, "nanosleep" \notin Workload,
           IInv, TypeOK', [Next]_vars
    PROVE  IInv'
<1>0. /\ Idle \in Threads /\ Idle \notin Procs /\ None \notin Procs
      /\ \A p \in Procs : p \in Threads /\ p # Idle /\ p # None
      /\ current \in Threads /\ (current # Idle => current \in Procs)
      /\ state[current] = "RUNNING" /\ TypeOK
      /\ (rdWait # None => rdWait \in Procs /\ rdWait # current)
  BY DEF SchedulerConstants, Threads, IInv, TypeOK, CurrentInv, ReadInv
<1>0a. \A p \in Procs : p \in DOMAIN at /\ p \in DOMAIN nest /\ p \in DOMAIN waiting_on
  BY <1>0 DEF TypeOK
<1>1. CASE Eret
  <2>1. /\ nest' = [nest EXCEPT ![current] = nest[current] - 1] /\ nest[current] > 0
        /\ UNCHANGED <<state, rq, current, kstack, wedged, at, waiting_on, parent,
                       avail, rdWait, sleeping>>
    BY <1>1 DEF Eret, cpuVars, kbdVars, timeVars
  <2>2. QueueInv(state, rq)' /\ CurrentInv' /\ StackInv' /\ WaitInv' /\ ReadInv'
    BY <2>1 DEF IInv, QueueInv, CurrentInv, StackInv, WaitInv, ReadInv
  <2>3. \A p \in Procs : nest'[p] > 0 => nest'[p] = 1 /\ at[p] = "user"
    BY <1>0, <2>1 DEF IInv, LabelInv, TypeOK
  <2>4. KernelMasked'
    BY <1>0, <2>1 DEF IInv, LabelInv, KernelMasked, TypeOK
  <2>5. LabelInv'
    BY <2>1, <2>3, <2>4 DEF IInv, LabelInv
  <2>. QED BY <2>2, <2>5 DEF IInv
<1>2. ASSUME NEW c \in Procs, Fork(c) PROVE IInv'
  <2>1. /\ current \in Procs /\ at[current] = "user" /\ nest[current] = 0
        /\ state[c] = "NONE" /\ c # current
        /\ UNCHANGED <<current, masked, wedged, avail, rdWait, sleeping>>
    BY <1>0, <1>2 DEF Fork, CloneActiveProc, InUser, kbdVars, timeVars
  <2>2. /\ state' = RescheduleStates(state, c) /\ rq' = RescheduleQueue(rq, c)
        /\ state'[c] = "READY" /\ \A t \in Threads \ {c} : state'[t] = state[t]
    BY <1>0, <1>2 DEF Fork, CloneActiveProc, RescheduleStates, TypeOK
  <2>3. /\ at'[c] = "user" /\ nest'[c] = 1 /\ kstack'[c] /\ parent'[c] = current
        /\ waiting_on'[c] = waiting_on[current]
        /\ \A t \in Threads \ {c} : /\ at'[t] = at[t] /\ nest'[t] = nest[t]
                                    /\ kstack'[t] = kstack[t] /\ parent'[t] = parent[t]
                                    /\ waiting_on'[t] = waiting_on[t]
    BY <1>0, <1>2 DEF Fork, CloneActiveProc, TypeOK
  <2>4. QueueInv(state, rq)'
    BY <2>1, <2>2, RescheduleSafe DEF IInv
  <2>5. CurrentInv'
    BY <1>0, <2>1, <2>2 DEF IInv, CurrentInv
  <2>6. StackInv'
    BY <1>0, <2>1, <2>2, <2>3 DEF IInv, StackInv
  <2>7. LabelInv'
    <3>1. KernelMasked'
      BY <1>0, <2>1, <2>3 DEF KernelMasked
    <3>. QED BY <1>0, <2>1, <2>2, <2>3, <3>1 DEF IInv, LabelInv
  <2>8. WaitInv'
    <3>1. waiting_on[current] # None => state[waiting_on[current]] = "TERMINATED"
      BY <2>1 DEF IInv, WaitInv
    <3>2. \A p \in Procs : waiting_on[p] \in Procs \cup {None}
      BY <1>0 DEF TypeOK
    <3>. QED BY <1>0, <2>1, <2>2, <2>3, <3>1, <3>2 DEF IInv, WaitInv
  <2>9. ReadInv'
    BY <1>0, <2>1, <2>2, <2>3 DEF IInv, ReadInv
  <2>. QED BY <2>4, <2>5, <2>6, <2>7, <2>8, <2>9 DEF IInv
<1>3. ASSUME NEW c \in Procs, Waitid(c) PROVE IInv'
  <2>1. /\ current # Idle /\ current \in Procs /\ nest[current] = 0 /\ parent[c] = current
        /\ UNCHANGED <<nest, parent, avail, rdWait, sleeping>>
        /\ waiting_on'[current] = c
        /\ \A t \in Threads \ {current} : waiting_on'[t] = waiting_on[t]
        /\ state[c] # "NONE"
    BY <1>0, <1>3 DEF Waitid, InUser, kbdVars, timeVars, TypeOK, IInv, WaitInv
  <2>2. \A p \in Procs : waiting_on[p] \in Procs \cup {None}
    BY <1>0 DEF TypeOK
  <2>3. CASE state[c] = "TERMINATED" /\ ReturnToUser
    <3>1. /\ QueueInv(state, rq)' /\ CurrentInv' /\ StackInv' /\ LabelInv'
          /\ state' = state /\ current' = current /\ at'[current] = "user"
          /\ \A t \in Threads \ {current} : at'[t] = at[t]
      BY <2>1, <2>3, ReturnSafe
    <3>2. WaitInv'
      BY <1>0, <2>1, <2>2, <2>3, <3>1 DEF IInv, WaitInv
    <3>3. ReadInv'
      BY <1>0, <2>1, <3>1 DEF IInv, ReadInv
    <3>. QED BY <3>1, <3>2, <3>3 DEF IInv
  <2>4. CASE /\ state[c] # "TERMINATED" /\ Deschedule /\ masked'
             /\ at' = [at EXCEPT ![current] = "waitid"]
    <3>1. QueueInv(state, rq)' /\ CurrentInv' /\ StackInv' /\ LabelInv'
      BY <2>1, <2>4, BlockSafe
    <3>2. /\ state'[current] = "BLOCKED"
          /\ \A p \in Procs \ {current}, x \in {"NONE", "BLOCKED", "TERMINATED"} :
                 state'[p] = x <=> state[p] = x
      BY <2>1, <2>4, DescheduleSafe
    <3>3. at'[current] = "waitid" /\ \A t \in Threads \ {current} : at'[t] = at[t]
      BY <1>0, <2>4 DEF TypeOK
    <3>4. WaitInv'
      BY <1>0, <2>1, <2>2, <2>4, <3>2, <3>3 DEF IInv, WaitInv
    <3>5. ReadInv'
      BY <1>0, <2>1, <3>2, <3>3 DEF IInv, ReadInv
    <3>. QED BY <3>1, <3>4, <3>5 DEF IInv
  <2>. QED BY <1>3, <2>3, <2>4 DEF Waitid, WaitLoop
<1>4. CASE ResumeWaitid
  <2>1. /\ at[current] = "waitid" /\ nest[current] = 0 /\ current # Idle
        /\ UNCHANGED <<nest, waiting_on, parent, avail, rdWait, sleeping>>
    BY <1>4 DEF ResumeWaitid, ResumesAt, kbdVars, timeVars, IInv, LabelInv
  <2>2. state[waiting_on[current]] = "TERMINATED"
    BY <1>0, <2>1 DEF IInv, WaitInv
  <2>3. ReturnToUser
    BY <1>4, <2>2 DEF ResumeWaitid, WaitLoop
  <2>4. /\ QueueInv(state, rq)' /\ CurrentInv' /\ StackInv' /\ LabelInv'
        /\ state' = state /\ current' = current /\ at'[current] = "user"
        /\ \A t \in Threads \ {current} : at'[t] = at[t]
    BY <2>1, <2>3, ReturnSafe
  <2>5. WaitInv'
    BY <1>0, <2>1, <2>2, <2>4 DEF IInv, WaitInv
  <2>6. ReadInv'
    BY <1>0, <2>1, <2>4 DEF IInv, ReadInv
  <2>. QED BY <2>4, <2>5, <2>6 DEF IInv
<1>5. CASE Exit
  <2> DEFINE par  == parent[current]
             dead == [state EXCEPT ![current] = "TERMINATED"]
  <2>1. /\ current # Idle /\ current \in Procs /\ nest[current] = 0 /\ at[current] = "user"
        /\ UNCHANGED <<nest, waiting_on, parent, avail, rdWait, sleeping>>
        /\ at'[current] = "exited" /\ \A t \in Threads \ {current} : at'[t] = at[t]
        /\ masked'
    BY <1>0, <1>5 DEF Exit, Reap, InUser, kbdVars, timeVars, TypeOK
  <2>2. /\ dead[current] = "TERMINATED" /\ \A t \in Threads \ {current} : dead[t] = state[t]
        /\ dead \in [Threads -> States]
    BY <1>0 DEF TypeOK, States
  <2>3. \A p \in Procs : waiting_on[p] \in Procs \cup {None}
    BY <1>0 DEF TypeOK
  <2>4. KernelMasked'
    BY <2>1 DEF KernelMasked
  <2>5. ~wedged /\ kstack[Idle]
    BY DEF IInv, StackInv
  <2>6. QueueInv(dead, rq)
    <3>1. \A p \in Procs : dead[p] = "READY" <=> state[p] = "READY"
      BY <1>0, <2>2
    <3>. QED BY <1>0, <2>1, <2>2, <3>1 DEF IInv, QueueInv
  <2>7. CASE waiting_on[par] = current
    <3> DEFINE st == RescheduleStates(dead, par)
               q  == RescheduleQueue(rq, par)
    <3>1. par \in Procs /\ par # current /\ at[par] = "waitid" /\ state[par] = "BLOCKED"
      <4>1. par \in Threads
        <5>1. par \in Threads \cup {None}
          BY <1>0 DEF TypeOK
        <5>. QED BY <1>0, <2>1, <2>7, <5>1 DEF IInv, WaitInv
      <4>2. par # Idle
        BY <1>0, <2>1, <2>7 DEF IInv, WaitInv
      <4>3. par \in Procs
        BY <4>1, <4>2 DEF Threads
      <4>. QED BY <1>0, <2>1, <2>7, <4>3 DEF IInv, WaitInv
    <3>2. QueueInv(st, q)
      BY <1>0, <2>2, <2>6, <3>1, RescheduleSafe
    <3>3. /\ st[par] = "READY" /\ st[current] = "TERMINATED"
          /\ \A t \in Threads \ {current, par} : st[t] = state[t]
      BY <1>0, <2>2, <3>1 DEF RescheduleStates
    <3>4. Schedule(st, q)
      BY <1>5, <2>7 DEF Exit, Reap
    <3> HIDE DEF st, q, dead, par
    <3>5. \A t \in Threads : st[t] = "RUNNING" => t = current
      BY <1>0, <3>3 DEF IInv, CurrentInv
    <3>6. \A p \in Procs : kstack[p] <=>
               (st[p] \notin {"NONE", "TERMINATED"} \/ p = current)
      BY <1>0, <3>1, <3>3 DEF IInv, StackInv
    <3>7. /\ QueueInv(state, rq)' /\ CurrentInv' /\ StackInv'
          /\ \A p \in Procs, x \in {"NONE", "BLOCKED", "TERMINATED"} :
                 state'[p] = x <=> st[p] = x
      BY <1>0, <2>1, <2>5, <3>2, <3>3, <3>4, <3>5, <3>6, ScheduleSafe
    <3>8. /\ state'[current] = "TERMINATED"
          /\ state'[par] \notin {"NONE", "BLOCKED", "TERMINATED"}
          /\ \A p \in Procs \ {current, par}, x \in {"NONE", "BLOCKED", "TERMINATED"} :
                 state'[p] = x <=> state[p] = x
      BY <1>0, <2>1, <3>1, <3>3, <3>7
    <3>9. LabelInv'
      BY <1>0, <2>1, <2>4, <3>1, <3>8 DEF IInv, LabelInv
    <3>10. WaitInv'
      BY <1>0, <2>1, <2>3, <2>7, <3>1, <3>8 DEF IInv, WaitInv, par
    <3>11. ReadInv'
      BY <1>0, <2>1, <3>1, <3>8 DEF IInv, ReadInv
    <3>. QED BY <3>7, <3>9, <3>10, <3>11 DEF IInv
  <2>8. CASE waiting_on[par] # current
    <3>1. Schedule(dead, rq)
      BY <1>5, <2>8 DEF Exit, Reap
    <3> HIDE DEF dead, par
    <3>2. \A t \in Threads : dead[t] = "RUNNING" => t = current
      BY <1>0, <2>2 DEF IInv, CurrentInv
    <3>3. \A p \in Procs : kstack[p] <=>
               (dead[p] \notin {"NONE", "TERMINATED"} \/ p = current)
      BY <1>0, <2>2 DEF IInv, StackInv
    <3>4. /\ QueueInv(state, rq)' /\ CurrentInv' /\ StackInv'
          /\ \A p \in Procs, x \in {"NONE", "BLOCKED", "TERMINATED"} :
                 state'[p] = x <=> dead[p] = x
      BY <1>0, <2>1, <2>2, <2>5, <2>6, <3>1, <3>2, <3>3, ScheduleSafe
    <3>5. /\ state'[current] = "TERMINATED"
          /\ \A p \in Procs \ {current}, x \in {"NONE", "BLOCKED", "TERMINATED"} :
                 state'[p] = x <=> state[p] = x
      BY <1>0, <2>1, <2>2, <3>4
    <3>6. LabelInv'
      BY <1>0, <2>1, <2>4, <3>5 DEF IInv, LabelInv
    <3>7. WaitInv'
      BY <1>0, <2>1, <2>3, <2>8, <3>5 DEF IInv, WaitInv, par
    <3>8. ReadInv'
      BY <1>0, <2>1, <3>5 DEF IInv, ReadInv
    <3>. QED BY <3>4, <3>6, <3>7, <3>8 DEF IInv
  <2>. QED BY <2>7, <2>8
<1>6. CASE ResumeExit
  BY <1>0, <1>6 DEF ResumeExit, ResumesAt, IInv, LabelInv
<1>7. ASSUME NEW n \in 0..RingSize, Read(n) PROVE IInv'
  BY <1>7, ReadSafe DEF Read, InUser, timeVars
<1>8. ASSUME NEW n \in 0..RingSize, ResumeRead(n) PROVE IInv'
  <2>1. /\ at[current] = "read" /\ nest[current] = 0 /\ current # Idle
        /\ current \in Readers /\ masked
    BY <1>0, <1>8 DEF ResumeRead, ResumesAt, IInv, LabelInv, KernelMasked, ReadInv
  <2>. QED BY <1>8, <2>1, ReadSafe DEF ResumeRead, timeVars
<1>9. CASE Nanosleep
  BY <1>9 DEF Nanosleep, TimerNanosleep, InUser
<1>10. CASE ResumeNanosleep
  BY <1>0, <1>10 DEF ResumeNanosleep, ResumesAt, IInv, LabelInv
<1>11. CASE Tick
  <2>1. /\ QueueInv(state, rq)' /\ CurrentInv' /\ StackInv' /\ LabelInv' /\ WaitInv'
        /\ \A p \in Procs : state'[p] = "BLOCKED" <=> state[p] = "BLOCKED"
    BY <1>11, IrqSafe DEF Tick, IInv, timeVars
  <2>2. ReadInv'
    BY <1>0, <1>11, <2>1 DEF IInv, ReadInv, Tick, kbdVars
  <2>. QED BY <2>1, <2>2 DEF IInv
<1>12. ASSUME NEW p \in Procs, VirtualTimer(p) PROVE IInv'
  BY <1>12 DEF VirtualTimer, IInv, LabelInv
<1>13. CASE Key
  <2>0. IrqEntry /\ UNCHANGED <<at, waiting_on, parent, sleeping>>
    BY <1>13 DEF Key, HandleKeyboardEvent, timeVars
  <2>1. CASE /\ Schedule(state, rq)
             /\ \/ avail' = avail /\ rdWait' = rdWait
                \/ rdWait = None /\ rdWait' = None
    <3>1. /\ QueueInv(state, rq)' /\ CurrentInv' /\ StackInv' /\ LabelInv' /\ WaitInv'
          /\ \A p \in Procs : state'[p] = "BLOCKED" <=> state[p] = "BLOCKED"
      BY <2>0, <2>1, IrqSafe DEF IInv
    <3>2. ReadInv'
      BY <1>0, <2>0, <2>1, <3>1 DEF IInv, ReadInv, kbdVars
    <3>. QED BY <3>1, <3>2 DEF IInv
  <2>2. CASE /\ rdWait # None /\ rdWait' = None
             /\ Schedule(RescheduleStates(state, rdWait), RescheduleQueue(rq, rdWait))
    <3> DEFINE st == RescheduleStates(state, rdWait)
               q  == RescheduleQueue(rq, rdWait)
    <3>1. /\ rdWait \in Procs /\ at[rdWait] = "read" /\ state[rdWait] = "BLOCKED"
      BY <1>0, <2>2 DEF IInv, ReadInv
    <3>2. /\ st[rdWait] = "READY" /\ \A t \in Threads \ {rdWait} : st[t] = state[t]
      BY <1>0, <3>1 DEF RescheduleStates, TypeOK
    <3>3. QueueInv(st, q)
      BY <3>1, RescheduleSafe DEF IInv
    <3>4. Schedule(st, q)
      BY <2>2
    <3> HIDE DEF st, q
    <3>5. /\ QueueInv(state, rq)' /\ CurrentInv' /\ StackInv' /\ LabelInv' /\ WaitInv'
          /\ \A p \in Procs : state'[p] = "BLOCKED" <=> st[p] = "BLOCKED"
      BY <2>0, <3>1, <3>2, <3>3, <3>4, IrqSafe
    <3>6. ReadInv'
      BY <1>0, <2>0, <2>2, <3>1, <3>2, <3>5 DEF IInv, ReadInv
    <3>. QED BY <3>5, <3>6 DEF IInv
  <2>3. CASE avail >= RingSize
    <3>1. Schedule(state, rq) /\ avail' = avail /\ rdWait' = rdWait
      BY <1>13, <2>3 DEF Key, HandleKeyboardEvent, kbdVars
    <3>. QED BY <2>1, <3>1
  <2>4. CASE ~(avail >= RingSize) /\ rdWait = None
    BY <1>13, <2>1, <2>4, Zenon DEF Key, HandleKeyboardEvent
  <2>5. CASE ~(avail >= RingSize) /\ rdWait # None
    BY <1>13, <2>2, <2>5, Zenon DEF Key, HandleKeyboardEvent
  <2>. QED BY <2>3, <2>4, <2>5, Zenon
<1>14. CASE IdleStep
  <2>1. at[Idle] \in {"enable", "wfi", "test", "empty"}
    BY DEF IInv, LabelInv
  <2>2. current = Idle => ListEmpty(rq, RunQueue) /\ state[Idle] = "RUNNING"
    BY <1>0 DEF IInv, CurrentInv
  <2>3. /\ current = Idle /\ UNCHANGED cpuVars
        /\ UNCHANGED <<nest, waiting_on, parent, kbdVars, timeVars>>
        /\ \E k \in {"enable", "wfi", "test", "empty"} : at' = [at EXCEPT ![Idle] = k]
    <3>1. CASE IdleEnable BY <3>1 DEF IdleEnable, IdleAt
    <3>2. CASE IdleWfi BY <3>2 DEF IdleWfi, IdleAt
    <3>3. CASE IdleTest BY <2>2, <3>3 DEF IdleTest, IdleAt
    <3>4. CASE IdleEmpty BY <2>2, <3>4 DEF IdleEmpty, IdleAt
    <3>5. CASE IdlePick BY <2>1, <3>5 DEF IdlePick, IdleAt, ResumesAt
    <3>6. CASE IdleRemove BY <2>1, <3>6 DEF IdleRemove, IdleAt, ResumesAt
    <3>7. CASE IdleReady BY <2>1, <3>7 DEF IdleReady, IdleAt, ResumesAt
    <3>8. CASE IdleSwitch BY <2>1, <3>8 DEF IdleSwitch, IdleAt, ResumesAt
    <3>. QED BY <1>14, <3>1, <3>2, <3>3, <3>4, <3>5, <3>6, <3>7, <3>8 DEF IdleStep
  <2>4. /\ at'[Idle] \in {"enable", "wfi", "test", "empty"}
        /\ \A p \in Procs : at'[p] = at[p]
    BY <1>0, <2>3 DEF TypeOK
  <2>5. UNCHANGED <<state, rq, current, kstack, wedged, avail, rdWait, sleeping>>
    BY <2>3 DEF cpuVars, kbdVars, timeVars
  <2>6. QueueInv(state, rq)' /\ CurrentInv' /\ StackInv'
    BY <2>5 DEF IInv, QueueInv, CurrentInv, StackInv
  <2>7. LabelInv'
    BY <2>3, <2>4, <2>5 DEF IInv, LabelInv, KernelMasked
  <2>8. WaitInv' /\ ReadInv'
    BY <1>0, <2>3, <2>4, <2>5 DEF IInv, WaitInv, ReadInv
  <2>. QED BY <2>6, <2>7, <2>8 DEF IInv
<1>15. CASE UNCHANGED vars
  BY <1>15 DEF vars, procVars, cpuVars, kbdVars, timeVars, IInv, QueueInv, CurrentInv, StackInv,
     LabelInv, KernelMasked, WaitInv, ReadInv
<1>. QED BY <1>1, <1>2, <1>3, <1>4, <1>5, <1>6, <1>7, <1>8, <1>9, <1>10, <1>11,
            <1>12, <1>13, <1>14, <1>15
         DEF Next, Interrupt, Syscall, Resume

LEMMA InitIInv == SchedulerConstants /\ IdlePid = 0 /\ Init => IInv
<1>1. SUFFICES ASSUME SchedulerConstants, IdlePid = 0, Init PROVE IInv
  OBVIOUS
<1>2. rq \in Lists(Nodes) /\ \A n \in Nodes : rq.next[n] = n /\ rq.prev[n] = n
  BY <1>1 DEF Init, InitLists, Lists
<1>3. TypeOK
  BY <1>1, InitTInv DEF TInv
<1>4. QueueInv(state, rq)
  <2>1. RingOK(rq, Nodes) /\ Anchored(rq, Nodes, {RunQueue})
    BY <1>2 DEF RingOK, Anchored, Linked
  <2>2. ~Linked(rq, Idle) /\ \A p \in Procs : ~Linked(rq, p)
    BY <1>2 DEF Linked, Nodes, Threads
  <2>3. state[Idle] = "READY" /\ \A p \in Procs : state[p] # "READY"
    BY <1>1 DEF Init, Threads, SchedulerConstants
  <2>. QED BY <1>2, <1>3, <2>1, <2>2, <2>3 DEF QueueInv, TypeOK
<1>5. CurrentInv /\ StackInv
  BY <1>1 DEF Init, CurrentInv, StackInv, Threads, SchedulerConstants
<1>6. LabelInv
  BY <1>1 DEF Init, LabelInv, KernelMasked, Threads, SchedulerConstants
<1>7. WaitInv /\ ReadInv
  BY <1>1 DEF Init, WaitInv, ReadInv, Threads, SchedulerConstants
<1>. QED BY <1>3, <1>4, <1>5, <1>6, <1>7 DEF IInv

\* The inductive invariant holds while no program calls nanosleep and the
\* idle process has the pid that scheduler() tests for.
LEMMA IInvHolds ==
    ASSUME "nanosleep" \notin Workload, IdlePid = 0
    PROVE  Spec => []IInv
<1>1. Init => IInv
  BY InitIInv, SchedulerConstants
<1>2. IInv /\ TypeOK' /\ [Next]_vars => IInv'
  BY IInvStep, SchedulerConstants
<1>. QED BY <1>1, <1>2, TypeCorrect, PTL DEF Spec

\* The run queue is READY-only and misses nobody: whatever forks, exits,
\* waits, reads and interrupts happen, scheduler(), reschedule() and
\* deschedule() keep the links and the process states in agreement.
THEOREM RunQueueCorrect ==
    ASSUME "nanosleep" \notin Workload, IdlePid = 0
    PROVE  Spec => []RunQueueInv
<1>1. IInv => RunQueueInv
  BY DEF IInv, QueueInv, CurrentInv, RunQueueInv
<1>. QED BY <1>1, IInvHolds, PTL

\* No READY process is lost: following runqueue.next from the list head visits
\* exactly the READY processes, so scheduler() finds each of them.
THEOREM QueueIsReachable ==
    ASSUME "nanosleep" \notin Workload, IdlePid = 0
    PROVE  Spec => []QueueReachesReady
<1>1. IInv => QueueReachesReady
  <2>1. SUFFICES ASSUME IInv PROVE QueueReachesReady
    OBVIOUS
  <2>2. IsFiniteSet(Nodes)
    <3>1. IsFiniteSet(Procs)
      BY SchedulerConstants
    <3>2. IsFiniteSet(Procs \cup {Idle})
      BY <3>1, FS_AddElement
    <3>3. IsFiniteSet((Procs \cup {Idle}) \cup {RunQueue})
      BY <3>2, FS_AddElement
    <3>. QED BY <3>3 DEF Nodes, Threads
  <2>3. Walk = {n \in Nodes : Linked(rq, n)} \cup {RunQueue}
    BY <2>1, <2>2, ReachIsLinked DEF IInv, QueueInv, Walk, Nodes
  <2>. QED BY <2>1, <2>3 DEF IInv, QueueInv, QueueReachesReady, Nodes, Threads
<1>. QED BY <1>1, IInvHolds, PTL

\* check_and_reap frees a kernel stack exactly when its process has
\* terminated, and the kernel never runs on a stack that is gone.
THEOREM KernelStackCorrect ==
    ASSUME "nanosleep" \notin Workload, IdlePid = 0
    PROVE  Spec => []KernelStackInv
<1>1. IInv => KernelStackInv
  BY DEF IInv, StackInv, KernelStackInv
<1>. QED BY <1>1, IInvHolds, PTL

\* The waiting_on that waitid leaves behind, and that fork copies, names a
\* terminated process: reap() never takes it for a waiting parent.
THEOREM StaleWaitIsHarmless ==
    ASSUME "nanosleep" \notin Workload, IdlePid = 0
    PROVE  Spec => []StaleWaitHarmless
<1>1. IInv => StaleWaitHarmless
  <2>1. SUFFICES ASSUME IInv, NEW p \in Procs, waiting_on[p] # None, at[p] # "waitid"
                 PROVE  state[waiting_on[p]] = "TERMINATED" /\ ~kstack[waiting_on[p]]
    BY DEF StaleWaitHarmless
  <2>2. waiting_on[p] \in Procs
    BY <2>1 DEF IInv, TypeOK, Threads
  <2>. QED BY <2>1, <2>2 DEF IInv, WaitInv, StackInv
<1>. QED BY <1>1, IInvHolds, PTL

\* scheduler() gives the core to the idle process only when no process is
\* READY, and every wakeup takes it away again.
THEOREM IdleIsLast ==
    ASSUME "nanosleep" \notin Workload, IdlePid = 0
    PROVE  Spec => []IdleOnlyWhenNothingReady
<1>1. IInv => IdleOnlyWhenNothingReady
  <2>1. SUFFICES ASSUME IInv, current = Idle, NEW p \in Procs
                 PROVE  state[p] # "READY"
    BY DEF IdleOnlyWhenNothingReady
  <2>2. ~Linked(rq, p)
    BY <2>1, EmptyRing, SchedulerConstants DEF IInv, CurrentInv, QueueInv, Nodes, Threads
  <2>. QED BY <2>1, <2>2 DEF IInv, QueueInv
<1>. QED BY <1>1, IInvHolds, PTL

\* With at most one reader of the keyboard, every blocked process has
\* somebody who will wake it.
THEOREM NobodyBlockedForGood ==
    ASSUME "nanosleep" \notin Workload, IdlePid = 0, \A p, r \in Readers : p = r
    PROVE  Spec => []BlockedHasWaker
<1>1. IInv => BlockedHasWaker
  <2>1. SUFFICES ASSUME IInv, NEW p \in Procs, state[p] = "BLOCKED"
                 PROVE  \/ /\ at[p] = "waitid"
                           /\ parent[waiting_on[p]] = p
                           /\ state[waiting_on[p]] # "TERMINATED"
                        \/ at[p] = "read" /\ rdWait = p /\ avail = 0
    BY DEF BlockedHasWaker
  <2>2. CASE at[p] = "waitid"
    BY <2>1, <2>2 DEF IInv, WaitInv
  <2>3. CASE at[p] = "read"
    <3>1. rdWait = p /\ rdWait # None
      BY <2>1, <2>3, SchedulerConstants DEF IInv, ReadInv
    <3>. QED BY <2>1, <2>3, <3>1 DEF IInv, ReadInv
  <2>. QED BY <2>1, <2>2, <2>3 DEF IInv, LabelInv
<1>. QED BY <1>1, IInvHolds, PTL
=============================================================================
