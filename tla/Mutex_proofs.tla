----------------------------- MODULE Mutex_proofs -----------------------------
(***************************************************************************)
(* The mutex excludes, for any number of processes and wherever interrupts *)
(* fall.  The inductive invariant adds that owner is not MUTEX_UNLOCKED    *)
(* while somebody holds the mutex, although it need not name the holder: a *)
(* failed attempt overwrites it.  As long as no interrupt falls into the   *)
(* calls, no waiter is forgotten and a release hands over: CalmInv says    *)
(* where every process then is, in the run queue and on the wait list.     *)
(* Then the heap of the sleeping processes, into which sys_test_mutex adds *)
(* while it holds the mutex.                                               *)
(***************************************************************************)
EXTENDS Mutex, SleepQueue, WellFoundedInduction, FiniteSetTheorems, SequenceTheorems, TLAPS

Labels == {"user", "try", "lock", "link", "mark", "unlock", "block", "nap", "asleep", "store",
           "rlock", "wake", "unlink", "runlock", "yield", "return"}

PcType == pc \in [Tasks -> Labels]

HeldIsMarked == \A p \in Users : Holds(p) => owner # Nobody

ExclusionInv == PcType /\ HeldIsMarked /\ MutexExclusion

(* No process holds the mutex when sys_test_mutex was never called. *)
LEMMA InitExcludes == MutexInit => ExclusionInv
  <1> SUFFICES ASSUME MutexInit PROVE ExclusionInv
    OBVIOUS
  <1>1. pc = [t \in Tasks |-> "user"]
    BY DEF MutexInit
  <1>2. PcType
    BY <1>1 DEF PcType, Labels
  <1>3. \A p \in Users : ~Holds(p)
    BY <1>1 DEF Holds, Tasks
  <1> QED
    BY <1>2, <1>3 DEF ExclusionInv, HeldIsMarked, MutexExclusion

(* A step that only moves p between labels outside of the critical section *)
(* or within it, and leaves owner alone, keeps the invariant.              *)
LEMMA MoveKeeps ==
    ASSUME NEW p \in Users, NEW from \in Labels, NEW to \in Labels,
           ExclusionInv, At(p, from, to), owner' = owner,
           to \in {"nap", "asleep", "store"} => from \in {"nap", "asleep", "store"}
    PROVE  ExclusionInv'
  <1>1. pc[p] = from /\ pc' = [pc EXCEPT ![p] = to]
    BY DEF At
  <1>2. PcType'
    BY <1>1 DEF ExclusionInv, PcType, Tasks
  <1>3. \A q \in Users : Holds(q)' => Holds(q)
    BY <1>1 DEF ExclusionInv, PcType, Tasks, Holds
  <1> QED
    BY <1>2, <1>3 DEF ExclusionInv, HeldIsMarked, MutexExclusion

(* ACQUIRE succeeds only if nobody holds the mutex. *)
LEMMA TryKeeps ==
    ASSUME NEW p \in Users, ExclusionInv, Try(p)
    PROVE  ExclusionInv'
  <1>1. /\ pc[p] = "try"
        /\ pc' = [pc EXCEPT ![p] = IF owner = Nobody THEN "nap" ELSE "lock"]
        /\ owner' = p
    BY DEF Try, At
  <1>2. owner' # Nobody
    BY <1>1, MutexAssumption
  <1>3. PcType'
    BY <1>1 DEF ExclusionInv, PcType, Tasks, Labels
  <1>4. \A q \in Users : q # p => (Holds(q)' <=> Holds(q))
    BY <1>1 DEF ExclusionInv, PcType, Tasks, Holds
  <1>5. CASE owner = Nobody
    <2>1. \A q \in Users : ~Holds(q)
      BY <1>5 DEF ExclusionInv, HeldIsMarked
    <2> QED
      BY <1>2, <1>3, <1>4, <2>1 DEF ExclusionInv, HeldIsMarked, MutexExclusion
  <1>6. CASE owner # Nobody
    <2>1. ~Holds(p)'
      BY <1>1, <1>6 DEF ExclusionInv, PcType, Tasks, Holds
    <2> QED
      BY <1>2, <1>3, <1>4, <2>1 DEF ExclusionInv, HeldIsMarked, MutexExclusion
  <1> QED BY <1>5, <1>6

(* The holder leaves before the mutex is marked free. *)
LEMMA StoreKeeps ==
    ASSUME NEW p \in Users, ExclusionInv, Store(p)
    PROVE  ExclusionInv'
  <1>1. pc[p] = "store" /\ pc' = [pc EXCEPT ![p] = "rlock"]
    BY DEF Store, At
  <1>2. PcType'
    BY <1>1 DEF ExclusionInv, PcType, Tasks, Labels
  <1>3. Holds(p)
    BY <1>1 DEF Holds
  <1>4. \A q \in Users : q # p => ~Holds(q)
    BY <1>3 DEF ExclusionInv, MutexExclusion
  <1>5. \A q \in Users : ~Holds(q)'
    BY <1>1, <1>4 DEF ExclusionInv, PcType, Tasks, Holds
  <1> QED
    BY <1>2, <1>5 DEF ExclusionInv, HeldIsMarked, MutexExclusion

(* Interrupts and the idle process touch neither labels nor owner. *)
LEMMA SameKeeps ==
    ASSUME ExclusionInv, pc' = pc, owner' = owner
    PROVE  ExclusionInv'
  BY DEF ExclusionInv, PcType, HeldIsMarked, MutexExclusion, Holds

LEMMA StepExcludes == ExclusionInv /\ [MutexNext]_mutexVars => ExclusionInv'
  <1> SUFFICES ASSUME ExclusionInv, [MutexNext]_mutexVars PROVE ExclusionInv'
    OBVIOUS
  <1>1. ASSUME NEW p \in Users, Enter(p) PROVE ExclusionInv'
    BY <1>1, MoveKeeps DEF Labels, Enter
  <1>2. ASSUME NEW p \in Users, Acquire(p) PROVE ExclusionInv'
    <2>1. CASE Try(p)
      BY <2>1, TryKeeps
    <2>2. CASE Lock(p)
      BY <2>2, MoveKeeps DEF Labels, Lock, SpinlockAcquire
    <2>3. CASE LinkEntry(p)
      BY <2>3, MoveKeeps DEF Labels, LinkEntry
    <2>4. CASE Mark(p)
      BY <2>4, MoveKeeps DEF Labels, Mark, lockVars
    <2>5. CASE Unlock(p)
      BY <2>5, MoveKeeps DEF Labels, Unlock, SpinlockRelease
    <2>6. CASE BlockInQueue(p)
      BY <2>6, MoveKeeps DEF Labels, BlockInQueue, lockVars
    <2> QED
      BY <1>2, <2>1, <2>2, <2>3, <2>4, <2>5, <2>6 DEF Acquire
  <1>3. ASSUME NEW p \in Users, Nap(p) \/ Sleep(p) PROVE ExclusionInv'
    <2>1. CASE Nap(p)
      BY <2>1, MoveKeeps DEF Labels, Nap, lockVars
    <2>2. CASE Sleep(p)
      BY <2>2, MoveKeeps DEF Labels, Sleep, lockVars
    <2> QED
      BY <1>3, <2>1, <2>2
  <1>4. ASSUME NEW p \in Users, Release(p) PROVE ExclusionInv'
    <2>1. CASE Store(p)
      BY <2>1, StoreKeeps
    <2>2. CASE ReleaseLock(p)
      BY <2>2, MoveKeeps DEF Labels, ReleaseLock, SpinlockAcquire
    <2>3. CASE Wake(p)
      <3>1. CASE waiters = <<>>
        <4>1. At(p, "wake", "runlock") /\ owner' = owner
          BY <2>3, <3>1 DEF Wake, lockVars
        <4> QED BY <4>1, MoveKeeps DEF Labels
      <3>2. CASE waiters # <<>>
        <4>1. At(p, "wake", "unlink") /\ owner' = owner
          BY <2>3, <3>2 DEF Wake, lockVars
        <4> QED BY <4>1, MoveKeeps DEF Labels
      <3> QED BY <3>1, <3>2
    <2>4. CASE Unlink(p)
      BY <2>4, MoveKeeps DEF Labels, Unlink
    <2>5. CASE ReleaseUnlock(p)
      BY <2>5, MoveKeeps DEF Labels, ReleaseUnlock, SpinlockRelease
    <2>6. CASE Yield(p)
      BY <2>6, MoveKeeps DEF Labels, Yield, lockVars
    <2> QED
      BY <1>4, <2>1, <2>2, <2>3, <2>4, <2>5, <2>6 DEF Release
  <1>5. ASSUME NEW p \in Users, Return(p) PROVE ExclusionInv'
    BY <1>5, MoveKeeps DEF Labels, Return, lockVars
  <1>6. ASSUME NEW p \in Users, Alarm(p) PROVE ExclusionInv'
    BY <1>6, SameKeeps DEF Alarm, lockVars, threadVars
  <1>7. CASE Quantum
    BY <1>7, SameKeeps DEF Quantum, lockVars
  <1>8. CASE ReturnFromIrq
    BY <1>8, SameKeeps DEF ReturnFromIrq, lockVars
  <1>9. CASE IdleLoop
    BY <1>9, SameKeeps DEF IdleLoop, lockVars, threadVars
  <1>10. CASE UNCHANGED mutexVars
    BY <1>10, SameKeeps DEF mutexVars, lockVars, threadVars
  <1> QED
    BY <1>1, <1>2, <1>3, <1>4, <1>5, <1>6, <1>7, <1>8, <1>9, <1>10 DEF MutexNext

(* Two processes never hold the mutex together: with any number of         *)
(* processes, waiters and nested interrupts, whether or not the wait lock  *)
(* was initialised.                                                        *)
THEOREM MutexExcludes == MutexSpec => []MutexExclusion
  <1>1. MutexInit => ExclusionInv
    BY InitExcludes
  <1>2. ExclusionInv /\ [MutexNext]_mutexVars => ExclusionInv'
    BY StepExcludes
  <1>3. ExclusionInv => MutexExclusion
    BY DEF ExclusionInv
  <1> QED
    BY <1>1, <1>2, <1>3, PTL DEF MutexSpec
-----------------------------------------------------------------------------
(***************************************************************************)
(* No waiter is forgotten.  Without an interrupt inside of the calls, a    *)
(* process that does not run stands at one of four places, and run queue,  *)
(* wait list and sleep queue each hold exactly the processes whose place   *)
(* and state say so.                                                       *)
(***************************************************************************)
NoDup(s) == \A i, j \in DOMAIN s : s[i] = s[j] => i = j

States == {"READY", "RUNNING", "BLOCKED"}

Blocked(p) == pstate[p] = "BLOCKED"
Waiting(p) == pc[p] \in {"mark", "unlock", "block"} \/ (pc[p] = "try" /\ Blocked(p))
Sleeping(p) == pc[p] = "asleep" \/ (pc[p] = "store" /\ Blocked(p))

\* Who neither runs nor is ready is blocked; the current process is not on
\* the run queue.
QueueInv ==
    /\ runq \in Seq(Users) /\ NoDup(runq)
    /\ pstate \in [Tasks -> States] /\ cpu \in Tasks /\ cpu \notin ToSet(runq)
    /\ \A p \in Users \ {cpu} :
          pstate[p] = IF p \in ToSet(runq) THEN "READY" ELSE "BLOCKED"
    /\ cpu \in Users =>
          pstate[cpu] = IF pc[cpu] \in {"unlock", "block"} THEN "BLOCKED" ELSE "RUNNING"

\* Where the processes stand that do not run.
PlaceInv ==
    /\ PcType /\ pc[IdleTask] = "user" /\ frames \in [Tasks -> Nat]
    /\ \A p \in Users : frames[p] \in {0, 1} /\ (frames[p] = 1 => pc[p] = "user")
    /\ \A p \in Users \ {cpu} :
          /\ pc[p] \in {"user", "try", "store", "return"}
          /\ pc[p] = "user" => frames[p] = 1
          /\ pc[p] \in {"user", "return"} => ~Blocked(p)
    /\ \A p \in Users : p \in napping <=> Sleeping(p)
    /\ ~broken

\* The wait list holds the waiters and, until it is unlinked, the one that was
\* woken.  That one is the next to run.
WaitInv ==
    /\ waiters \in Seq(Users) /\ NoDup(waiters)
    /\ pc[cpu] # "unlink" => \A p \in Users : p \in ToSet(waiters) <=> Waiting(p)
    /\ pc[cpu] = "unlink" => /\ waiters # <<>> /\ woken = Head(waiters)
                             /\ \A p \in Users : p \in ToSet(Tail(waiters)) <=> Waiting(p)
    /\ woken # Nobody =>
          /\ woken \in Users /\ pc[woken] = "try"
          /\ \/ cpu = woken
             \/ pc[cpu] \in {"unlink", "runlock", "yield"} /\ runq # <<>> /\ Head(runq) = woken

\* The wait lock is held only between its acquisition and its release by the
\* current process.
WaitLockInv ==
    ~junk /\ waitLock # 0 => pc[cpu] \in {"link", "mark", "unlock", "wake", "unlink", "runlock"}

\* Somebody will release the mutex.
Somebody ==
    \E q \in Users : \/ Holds(q) \/ pc[q] \in {"rlock", "wake"}
                     \/ pc[q] = "try" /\ ~Blocked(q)

OnItsWay == {"lock", "link", "mark", "unlock", "block"}

ProgressInv ==
    /\ owner # Nobody => \E p \in Users : Holds(p)
    /\ pc[cpu] \in OnItsWay => owner # Nobody
    /\ (\E p \in Users : pc[p] = "try" /\ Blocked(p)) => Somebody

CalmInv == QueueInv /\ PlaceInv /\ WaitInv /\ WaitLockInv /\ ProgressInv

QuietInv == ~raced => CalmInv
-----------------------------------------------------------------------------
LEMMA EmptyList == ToSet(<<>>) = {} /\ NoDup(<<>>)
BY DEF ToSet, NoDup

\* list_add at the front.
LEMMA Push ==
    ASSUME NEW S, NEW s \in Seq(S), NEW x \in S
    PROVE  /\ <<x>> \o s \in Seq(S) /\ <<x>> \o s # <<>> /\ Head(<<x>> \o s) = x
           /\ ToSet(<<x>> \o s) = {x} \cup ToSet(s)
           /\ NoDup(s) /\ x \notin ToSet(s) => NoDup(<<x>> \o s)
<1> DEFINE t == <<x>> \o s
<1>1. /\ t \in Seq(S) /\ Len(t) = Len(s) + 1 /\ t[1] = x
      /\ \A i \in 1..Len(s) : t[i + 1] = s[i]
  OBVIOUS
<1>2. \A i \in 2..Len(t) : i - 1 \in 1..Len(s) /\ t[i] = s[i - 1]
  BY <1>1
<1>3. DOMAIN t = 1..Len(t) /\ DOMAIN s = 1..Len(s) /\ Len(s) \in Nat
  BY <1>1
<1> HIDE DEF t
<1>4. ToSet(t) \subseteq {x} \cup ToSet(s)
  <2>1. ASSUME NEW i \in 1..Len(t) PROVE t[i] \in {x} \cup ToSet(s)
    <3>1. CASE i = 1
      BY <1>1, <3>1
    <3>2. CASE i # 1
      <4>1. i \in 2..Len(t)
        BY <1>1, <1>3, <3>2
      <4>. QED BY <1>2, <1>3, <4>1 DEF ToSet
    <3>. QED BY <3>1, <3>2
  <2>. QED BY <1>3, <2>1 DEF ToSet
<1>5. x \in ToSet(t)
  BY <1>1, <1>3 DEF ToSet
<1>6. ToSet(s) \subseteq ToSet(t)
  <2>1. ASSUME NEW i \in 1..Len(s) PROVE s[i] \in ToSet(t)
    <3>1. i + 1 \in 1..Len(t) /\ t[i + 1] = s[i]
      BY <1>1, <1>3
    <3>. QED BY <1>3, <3>1 DEF ToSet
  <2>. QED BY <1>3, <2>1 DEF ToSet
<1>7. ASSUME NoDup(s), x \notin ToSet(s) PROVE NoDup(t)
  <2>1. \A i \in 2..Len(t) : t[i] # x
    BY <1>2, <1>3, <1>7 DEF ToSet
  <2>2. \A i, j \in 2..Len(t) : t[i] = t[j] => i = j
    BY <1>2, <1>3, <1>7 DEF NoDup
  <2>3. \A i \in 1..Len(t) : i = 1 \/ i \in 2..Len(t)
    BY <1>1, <1>3
  <2>. QED BY <1>1, <1>3, <2>1, <2>2, <2>3 DEF NoDup
<1>8. t # <<>> /\ Head(t) = x
  BY <1>1, <1>3
<1>. QED BY <1>1, <1>4, <1>5, <1>6, <1>7, <1>8 DEF t

\* Taking the first entry off.
LEMMA Pop ==
    ASSUME NEW S, NEW s \in Seq(S), s # <<>>
    PROVE  /\ Head(s) \in S /\ Tail(s) \in Seq(S)
           /\ ToSet(s) = {Head(s)} \cup ToSet(Tail(s))
           /\ NoDup(s) => NoDup(Tail(s)) /\ Head(s) \notin ToSet(Tail(s))
<1> DEFINE t == Tail(s)
<1>1. /\ Head(s) \in S /\ Head(s) = s[1] /\ t \in Seq(S) /\ Len(s) = Len(t) + 1
      /\ \A i \in 1..Len(t) : t[i] = s[i + 1]
  OBVIOUS
<1>2. DOMAIN t = 1..Len(t) /\ DOMAIN s = 1..Len(s) /\ Len(t) \in Nat
  BY <1>1
<1> HIDE DEF t
<1>3. \A i \in 2..Len(s) : i - 1 \in 1..Len(t) /\ s[i] = t[i - 1]
  BY <1>1, <1>2
<1>4. ToSet(s) \subseteq {Head(s)} \cup ToSet(t)
  <2>1. ASSUME NEW i \in 1..Len(s) PROVE s[i] \in {Head(s)} \cup ToSet(t)
    <3>1. CASE i = 1
      BY <1>1, <3>1
    <3>2. CASE i # 1
      <4>1. i \in 2..Len(s)
        BY <1>1, <1>2, <3>2
      <4>. QED BY <1>2, <1>3, <4>1 DEF ToSet
    <3>. QED BY <3>1, <3>2
  <2>. QED BY <1>2, <2>1 DEF ToSet
<1>5. Head(s) \in ToSet(s)
  BY <1>1, <1>2 DEF ToSet
<1>6. ToSet(t) \subseteq ToSet(s)
  <2>1. ASSUME NEW i \in 1..Len(t) PROVE t[i] \in ToSet(s)
    <3>1. i + 1 \in 1..Len(s) /\ t[i] = s[i + 1]
      BY <1>1, <1>2
    <3>. QED BY <1>2, <3>1 DEF ToSet
  <2>. QED BY <1>2, <2>1 DEF ToSet
<1>7. ASSUME NoDup(s) PROVE NoDup(t) /\ Head(s) \notin ToSet(t)
  <2>1. \A i \in 1..Len(t) : i + 1 \in 1..Len(s) /\ i + 1 # 1 /\ t[i] = s[i + 1]
    BY <1>1, <1>2
  <2>2. 1 \in 1..Len(s)
    BY <1>1, <1>2
  <2>3. Head(s) \notin ToSet(t)
    BY <1>1, <1>2, <1>7, <2>1, <2>2 DEF NoDup, ToSet
  <2>4. \A i, j \in 1..Len(t) : t[i] = t[j] => i = j
    BY <1>2, <1>7, <2>1 DEF NoDup
  <2>. QED BY <1>2, <2>3, <2>4 DEF NoDup
<1>. QED BY <1>1, <1>4, <1>5, <1>6, <1>7 DEF t

\* The run queue of the first process holds the others, once each.
LEMMA ListOfSet ==
    ASSUME NEW S, IsFiniteSet(S)
    PROVE  SetToSeq(S) \in Seq(S) /\ NoDup(SetToSeq(S)) /\ ToSet(SetToSeq(S)) = S
<1> DEFINE n == Cardinality(S)
<1>1. n \in Nat /\ \E f : f \in Bijection(1..n, S)
  BY FS_CardinalityType, FS_NatBijection, FS_CountingElements DEF ExistsBijection
<1>2. PICK f : f \in Bijection(1..n, S)
  BY <1>1
<1>3. f \in [1..n -> S] /\ IsInjective(f)
  BY <1>2 DEF Bijection, Injection, IsInjective
<1>4. SetToSeq(S) \in [1..n -> S] /\ IsInjective(SetToSeq(S))
  BY <1>3, Zenon DEF SetToSeq
<1> DEFINE g == SetToSeq(S)
<1> HIDE DEF g
<1>5. g \in [1..n -> S] /\ IsInjective(g)
  BY <1>4 DEF g
<1>6. g \in Injection(1..n, S)
  BY <1>5 DEF Injection, IsInjective
<1>7. IsFiniteSet(1..n) /\ Cardinality(1..n) = n
  BY <1>1, FS_Interval
<1>8. g \in Surjection(1..n, S)
  BY <1>6, <1>7, FS_Injection
<1>9. ToSet(g) = S
  BY <1>5, <1>8 DEF Surjection, ToSet
<1>. QED BY <1>1, <1>5, <1>9 DEF NoDup, IsInjective, g

\* A process and its neighbours at the run queue, as scheduler() finds and
\* leaves them.
LEMMA SchedulerCallFacts ==
    ASSUME NEW STATE st, st \in [Tasks -> States], NEW STATE q, q \in Seq(Users), NoDup(q),
           cpu \in Tasks, cpu \notin ToSet(q),
           \A p \in Users \ {cpu} : st[p] = IF p \in ToSet(q) THEN "READY" ELSE "BLOCKED",
           cpu \in Users => st[cpu] \in {"RUNNING", "BLOCKED"},
           SchedulerCall(st, q)
    PROVE  /\ runq' \in Seq(Users) /\ NoDup(runq') /\ pstate' \in [Tasks -> States]
           /\ cpu' \in Tasks /\ cpu' \notin ToSet(runq')
           /\ \A p \in Users \ {cpu'} :
                 pstate'[p] = IF p \in ToSet(runq') THEN "READY" ELSE "BLOCKED"
           /\ cpu' \in Users => pstate'[cpu'] = "RUNNING"
           /\ \A p \in Users : pstate'[p] = "BLOCKED" <=> st[p] = "BLOCKED"
           /\ q # <<>> => cpu' = Head(q)
<1>1. IdleTask \in Tasks /\ IdleTask \notin Users /\ Users \subseteq Tasks
  BY MutexAssumption DEF Tasks
<1>2. \A t \in Tasks : t \in Users \/ t = IdleTask
  BY DEF Tasks
<1>3. CASE q = <<>> /\ st[cpu] = "RUNNING"
  <2>1. pstate' = st /\ runq' = q /\ cpu' = cpu
    BY <1>3 DEF SchedulerCall
  <2>. QED BY <1>3, <2>1
<1>4. CASE q = <<>> /\ st[cpu] # "RUNNING"
  <2>1. pstate' = [st EXCEPT ![IdleTask] = "RUNNING"] /\ runq' = q /\ cpu' = IdleTask
    BY <1>4 DEF SchedulerCall, SwitchTo
  <2>2. ToSet(q) = {}
    BY <1>4, EmptyList
  <2>3. \A p \in Users : pstate'[p] = st[p] /\ st[p] = "BLOCKED"
    BY <1>1, <1>4, <2>1, <2>2
  <2>4. pstate' \in [Tasks -> States]
    BY <1>1, <2>1 DEF States
  <2>. QED BY <1>1, <1>4, <2>1, <2>2, <2>3, <2>4
<1>5. CASE q # <<>>
  <2> DEFINE h == Head(q)
  <2>1. /\ h \in Users /\ Tail(q) \in Seq(Users) /\ ToSet(q) = {h} \cup ToSet(Tail(q))
        /\ NoDup(Tail(q)) /\ h \notin ToSet(Tail(q))
    BY <1>5, Pop
  <2>2. h # cpu
    BY <2>1
  <2> HIDE DEF h
  <2>3. CASE st[cpu] # "RUNNING"
    <3>1. pstate' = [st EXCEPT ![h] = "RUNNING"] /\ runq' = Tail(q) /\ cpu' = h
      BY <1>5, <2>2, <2>3 DEF SchedulerCall, SwitchTo, h
    <3>2. pstate' \in [Tasks -> States]
      BY <1>1, <2>1, <3>1 DEF States
    <3>3. pstate'[h] = "RUNNING" /\ \A p \in Users \ {h} : pstate'[p] = st[p]
      BY <1>1, <2>1, <3>1
    <3>4. st[h] = "READY" /\ (cpu \in Users => st[cpu] = "BLOCKED")
      BY <2>1, <2>2, <2>3
    <3>. QED BY <1>1, <2>1, <2>2, <3>1, <3>2, <3>3, <3>4 DEF h
  <2>4. CASE st[cpu] = "RUNNING" /\ cpu = IdleTask
    <3>1. /\ pstate' = [[st EXCEPT ![cpu] = "READY"] EXCEPT ![h] = "RUNNING"]
          /\ runq' = <<>> \o Tail(q) /\ cpu' = h
      BY <1>5, <2>2, <2>4 DEF SchedulerCall, SwitchTo, h
    <3>2. runq' = Tail(q)
      BY <2>1, <3>1
    <3>3. pstate' \in [Tasks -> States]
      BY <1>1, <2>1, <3>1 DEF States
    <3>4. pstate'[h] = "RUNNING" /\ \A p \in Users \ {h} : pstate'[p] = st[p]
      BY <1>1, <2>1, <2>4, <3>1
    <3>5. st[h] = "READY"
      BY <2>1, <2>2
    <3>. QED BY <1>1, <2>1, <2>2, <2>4, <3>1, <3>2, <3>3, <3>4, <3>5 DEF h
  <2>5. CASE st[cpu] = "RUNNING" /\ cpu # IdleTask
    <3>1. /\ pstate' = [[st EXCEPT ![cpu] = "READY"] EXCEPT ![h] = "RUNNING"]
          /\ runq' = <<cpu>> \o Tail(q) /\ cpu' = h
      BY <1>5, <2>2, <2>5 DEF SchedulerCall, SwitchTo, h
    <3>2. cpu \in Users /\ cpu \notin ToSet(Tail(q))
      BY <1>2, <2>1, <2>5
    <3>3. /\ runq' \in Seq(Users) /\ NoDup(runq')
          /\ ToSet(runq') = {cpu} \cup ToSet(Tail(q))
      BY <2>1, <3>1, <3>2, Push
    <3>4. pstate' \in [Tasks -> States]
      BY <1>1, <2>1, <3>1 DEF States
    <3>5. /\ pstate'[h] = "RUNNING" /\ pstate'[cpu] = "READY"
          /\ \A p \in Users \ {h, cpu} : pstate'[p] = st[p]
      BY <1>1, <2>1, <2>2, <3>1, <3>2
    <3>6. st[h] = "READY"
      BY <2>1, <2>2
    <3>. QED BY <1>1, <2>1, <2>2, <2>5, <3>1, <3>2, <3>3, <3>4, <3>5, <3>6 DEF h
  <2>. QED BY <2>3, <2>4, <2>5
<1>. QED BY <1>3, <1>4, <1>5

\* reschedule of a blocked process.
LEMMA WakeUpFacts ==
    ASSUME QueueInv, NEW p \in Users \ {cpu}, Blocked(p), WakeUp(p), pc'[cpu] = pc[cpu] \/
           {pc[cpu], pc'[cpu]} \cap {"unlock", "block"} = {}
    PROVE  /\ QueueInv' /\ broken' = FALSE /\ cpu' = cpu
           /\ runq' # <<>> /\ Head(runq') = p
           /\ pstate'[p] = "READY" /\ \A q \in Users \ {p} : pstate'[q] = pstate[q]
<1>1. /\ pstate' = [pstate EXCEPT ![p] = "READY"] /\ runq' = <<p>> \o runq
      /\ broken' = (p \in ToSet(runq)) /\ cpu' = cpu
  BY DEF WakeUp
<1>2. /\ runq \in Seq(Users) /\ NoDup(runq)
      /\ pstate \in [Tasks -> States] /\ cpu \in Tasks /\ cpu \notin ToSet(runq)
      /\ \A q \in Users \ {cpu} : pstate[q] = IF q \in ToSet(runq) THEN "READY" ELSE "BLOCKED"
      /\ cpu \in Users =>
          pstate[cpu] = IF pc[cpu] \in {"unlock", "block"} THEN "BLOCKED" ELSE "RUNNING"
  BY DEF QueueInv
<1>3. p \notin ToSet(runq)
  BY <1>2 DEF Blocked
<1>4. broken' = FALSE
  <2>1. (p \in ToSet(runq)) = FALSE
    BY <1>3
  <2>. QED BY <1>1, <2>1, Zenon
<1>5. /\ runq' \in Seq(Users) /\ NoDup(runq') /\ ToSet(runq') = {p} \cup ToSet(runq)
      /\ runq' # <<>> /\ Head(runq') = p
  BY <1>1, <1>2, <1>3, Push
<1>6. /\ pstate' \in [Tasks -> States] /\ pstate'[p] = "READY"
      /\ \A q \in Tasks \ {p} : pstate'[q] = pstate[q]
  BY <1>1, <1>2 DEF States, Tasks
<1>7. QueueInv'
  BY <1>1, <1>2, <1>5, <1>6 DEF QueueInv, Tasks
<1>. QED BY <1>1, <1>4, <1>5, <1>6, <1>7 DEF Tasks

LEMMA InitQuiet == MutexInit => QuietInv
<1> SUFFICES ASSUME MutexInit PROVE CalmInv
  BY DEF QuietInv
<1>1. cpu \in Users
  BY MutexAssumption DEF MutexInit
<1>2. /\ waitLock = 0 /\ owner = Nobody /\ waiters = <<>> /\ napping = {} /\ woken = Nobody
      /\ pc = [t \in Tasks |-> "user"]
      /\ frames = [t \in Tasks |-> IF t = cpu THEN 0 ELSE 1]
      /\ pstate = [t \in Tasks |-> IF t = cpu THEN "RUNNING" ELSE "READY"]
      /\ runq = SetToSeq(Users \ {cpu}) /\ broken = FALSE
  BY DEF MutexInit
<1>3. IsFiniteSet(Users \ {cpu})
  BY MutexAssumption, FS_Subset
<1>4. runq \in Seq(Users \ {cpu}) /\ NoDup(runq) /\ ToSet(runq) = Users \ {cpu}
  BY <1>2, <1>3, ListOfSet
<1>5. runq \in Seq(Users)
  BY <1>4
<1>6. \A t \in Tasks : pc[t] = "user" /\ ~Blocked(t)
  BY <1>2 DEF Blocked
<1>7. Users \subseteq Tasks /\ IdleTask \in Tasks
  BY DEF Tasks
<1>8. QueueInv
  BY <1>1, <1>2, <1>4, <1>5, <1>7 DEF QueueInv, States
<1>9. PlaceInv
  <2>1. PcType
    BY <1>2 DEF PcType, Labels
  <2>2. \A p \in Users : ~Sleeping(p)
    BY <1>6, <1>7 DEF Sleeping
  <2>3. /\ frames \in [Tasks -> Nat]
        /\ \A p \in Users : frames[p] \in {0, 1} /\ (p # cpu => frames[p] = 1)
    BY <1>2, <1>7
  <2>. QED BY <1>2, <1>6, <1>7, <2>1, <2>2, <2>3 DEF PlaceInv
<1>10. WaitInv
  <2>1. \A p \in Users : ~Waiting(p)
    BY <1>6, <1>7 DEF Waiting
  <2>. QED BY <1>1, <1>2, <1>6, <1>7, <2>1, EmptyList DEF WaitInv
<1>11. WaitLockInv
  BY <1>2 DEF WaitLockInv
<1>12. ProgressInv
  BY <1>1, <1>2, <1>6, <1>7 DEF ProgressInv, OnItsWay
<1>. QED BY <1>8, <1>9, <1>10, <1>11, <1>12 DEF CalmInv
-----------------------------------------------------------------------------
\* The steps of the current process.
LEMMA AtFacts ==
    ASSUME PlaceInv, NEW p \in Users, NEW from \in Labels, NEW to \in Labels, At(p, from, to)
    PROVE  /\ cpu = p /\ pc[p] = from /\ frames[p] = 0
           /\ PcType' /\ pc'[p] = to /\ \A t \in Tasks \ {p} : pc'[t] = pc[t]
           /\ pc'[IdleTask] = "user" /\ frames' = frames /\ raced' = raced
<1>1. pc \in [Tasks -> Labels] /\ p \in Tasks /\ IdleTask \in Tasks \ {p} /\ pc[IdleTask] = "user"
  BY MutexAssumption DEF PlaceInv, PcType, Tasks
<1>2. pc' = [pc EXCEPT ![p] = to] /\ frames' = frames /\ raced' = raced
  BY DEF At
<1>3. PcType' /\ pc'[p] = to /\ \A t \in Tasks \ {p} : pc'[t] = pc[t]
  BY <1>1, <1>2 DEF PcType
<1>. QED BY <1>1, <1>2, <1>3 DEF At

\* A step that moves the current process inside of the call.
LEMMA LocalQueue ==
    ASSUME CalmInv, NEW p \in Users, NEW from \in Labels, NEW to \in Labels, At(p, from, to),
           UNCHANGED <<pstate, runq, cpu>>, from \in {"unlock", "block"} <=> to \in {"unlock", "block"}
    PROVE  QueueInv'
<1>1. cpu = p /\ pc[p] = from /\ pc'[p] = to
  BY AtFacts DEF CalmInv
<1>. QED BY <1>1 DEF CalmInv, QueueInv

LEMMA LocalPlace ==
    ASSUME CalmInv, NEW p \in Users, NEW from \in Labels, NEW to \in Labels, At(p, from, to),
           UNCHANGED cpu, \A q \in Users \ {p} : pstate'[q] = pstate[q], ~broken',
           \A q \in Users \ {p} : q \in napping' <=> q \in napping,
           p \in napping' <=> Sleeping(p)'
    PROVE  PlaceInv'
<1>1. /\ cpu = p /\ pc[p] = from /\ frames[p] = 0
      /\ PcType' /\ pc'[p] = to /\ \A t \in Tasks \ {p} : pc'[t] = pc[t]
      /\ pc'[IdleTask] = "user" /\ frames' = frames /\ raced' = raced
  BY AtFacts DEF CalmInv
<1>2. \A q \in Users \ {p} : pc'[q] = pc[q] /\ (Blocked(q)' <=> Blocked(q))
                             /\ (Sleeping(q)' <=> Sleeping(q))
  BY <1>1 DEF Blocked, Sleeping, Tasks
<1>. QED BY <1>1, <1>2 DEF CalmInv, PlaceInv

\* The current process is not asleep except between its two calls.
LEMMA CurrentState ==
    ASSUME CalmInv, cpu \in Users
    PROVE  /\ Blocked(cpu) <=> pc[cpu] \in {"unlock", "block"}
           /\ Sleeping(cpu) <=> pc[cpu] = "asleep"
           /\ Waiting(cpu) <=> pc[cpu] \in {"mark", "unlock", "block"}
BY DEF CalmInv, QueueInv, Blocked, Sleeping, Waiting

LEMMA LocalWait ==
    ASSUME CalmInv, NEW p \in Users, NEW from \in Labels, NEW to \in Labels, At(p, from, to),
           UNCHANGED <<runq, cpu, waiters, woken>>, \A q \in Users \ {p} : pstate'[q] = pstate[q],
           to # "unlink", from # "unlink", Waiting(p) <=> Waiting(p)',
           from \in {"runlock", "yield"} => to \in {"runlock", "yield"},
           from # "try"
    PROVE  WaitInv'
<1>1. /\ cpu = p /\ pc[p] = from /\ pc'[p] = to /\ \A t \in Tasks \ {p} : pc'[t] = pc[t]
  BY AtFacts DEF CalmInv
<1>2. \A q \in Users : Waiting(q)' <=> Waiting(q)
  BY <1>1 DEF Waiting, Blocked, Tasks
<1>3. woken # Nobody => woken \in Users /\ pc[woken] = "try" /\ woken # p
  BY <1>1 DEF CalmInv, WaitInv
<1>4. woken # Nobody => pc'[woken] = "try"
  BY <1>1, <1>3 DEF Tasks
<1>. QED BY <1>1, <1>2, <1>3, <1>4 DEF CalmInv, WaitInv

LEMMA LocalWaitLock ==
    ASSUME CalmInv, NEW p \in Users, NEW from \in Labels, NEW to \in Labels, At(p, from, to),
           UNCHANGED <<cpu, junk>>,
           \/ waitLock' = 0
           \/ to \in {"link", "mark", "unlock", "wake", "unlink", "runlock"}
           \/ waitLock' = waitLock /\ from \notin {"link", "mark", "unlock", "wake", "unlink", "runlock"}
    PROVE  WaitLockInv'
<1>1. cpu = p /\ pc[p] = from /\ pc'[p] = to
  BY AtFacts DEF CalmInv
<1>. QED BY <1>1 DEF CalmInv, WaitLockInv

LEMMA LocalProgress ==
    ASSUME CalmInv, NEW p \in Users, NEW from \in Labels, NEW to \in Labels, At(p, from, to),
           UNCHANGED <<cpu, owner>>, \A q \in Users \ {p} : pstate'[q] = pstate[q],
           from \in {"nap", "asleep", "store"} => to \in {"nap", "asleep", "store"},
           from \notin {"rlock", "wake", "try"} \/ to \in {"rlock", "wake"},
           to # "try" \/ ~Blocked(p)', to \in OnItsWay => from \in OnItsWay
    PROVE  ProgressInv'
<1>1. /\ cpu = p /\ pc[p] = from /\ pc'[p] = to /\ \A t \in Tasks \ {p} : pc'[t] = pc[t]
  BY AtFacts DEF CalmInv
<1>2. \A q \in Users : Holds(q) => Holds(q)'
  BY <1>1 DEF Holds, Tasks
<1>3. \A q \in Users : pc'[q] = "try" /\ Blocked(q)' => pc[q] = "try" /\ Blocked(q)
  BY <1>1 DEF Blocked, Tasks
<1>4. Somebody => Somebody'
  <2>1. ASSUME NEW q \in Users,
               Holds(q) \/ pc[q] \in {"rlock", "wake"} \/ (pc[q] = "try" /\ ~Blocked(q))
        PROVE  Holds(q)' \/ pc'[q] \in {"rlock", "wake"} \/ (pc'[q] = "try" /\ ~Blocked(q)')
    <3>1. CASE q = p
      BY <1>1, <1>2, <2>1, <3>1
    <3>2. CASE q # p
      BY <1>1, <1>2, <2>1, <3>2 DEF Blocked, Tasks
    <3>. QED BY <3>1, <3>2
  <2>. QED BY <2>1 DEF Somebody
<1>. QED BY <1>1, <1>2, <1>3, <1>4 DEF CalmInv, ProgressInv

LEMMA EnterCalm ==
    ASSUME CalmInv, NEW p \in Users, Enter(p)
    PROVE  CalmInv'
<1>1. /\ At(p, "user", "try") /\ UNCHANGED <<owner, waiters, pstate, runq, cpu, napping, broken, woken>>
      /\ "user" \in Labels /\ "try" \in Labels
  BY DEF Enter, queueVars, Labels
<1>2. /\ cpu = p /\ pc[p] = "user" /\ pc'[p] = "try"
  BY <1>1, AtFacts DEF CalmInv
<1>3. ~Blocked(p) /\ ~Sleeping(p) /\ ~Waiting(p) /\ ~Blocked(p)'
  BY <1>1, <1>2, CurrentState DEF Blocked
<1>4. QueueInv'
  BY <1>1, LocalQueue
<1>5. PlaceInv'
  <2>1. ~Sleeping(p)' /\ p \notin napping
    BY <1>2, <1>3 DEF Sleeping, CalmInv, PlaceInv
  <2>. QED BY <1>1, <2>1, LocalPlace DEF CalmInv, PlaceInv
<1>6. WaitInv'
  <2>1. ~Waiting(p)'
    BY <1>2, <1>3 DEF Waiting
  <2>. QED BY <1>1, <1>3, <2>1, LocalWait
<1>7. WaitLockInv'
  <2>1. CASE page
    <3>1. UNCHANGED <<cpu, junk>> /\ waitLock' = waitLock
      BY <1>1, <2>1 DEF Enter
    <3>. QED BY <1>1, <3>1, LocalWaitLock
  <2>2. CASE ~page
    <3>1. junk' = (waitLock' # 0)
      BY <2>2 DEF Enter
    <3>2. junk' <=> waitLock' # 0
      BY <3>1
    <3>. QED BY <3>2, Zenon DEF WaitLockInv
  <2>. QED BY <2>1, <2>2
<1>8. ProgressInv'
  BY <1>1, <1>3, LocalProgress DEF OnItsWay
<1>. QED BY <1>4, <1>5, <1>6, <1>7, <1>8 DEF CalmInv

\* The steps that change no list and no state.
LEMMA PlainCalm ==
    ASSUME CalmInv, NEW p \in Users, NEW from \in Labels, NEW to \in Labels, At(p, from, to),
           UNCHANGED <<owner, waiters, pstate, runq, cpu, napping, broken, woken, junk>>,
           <<from, to>> \in {<<"lock", "link">>, <<"unlock", "block">>, <<"rlock", "wake">>,
                             <<"runlock", "yield">>, <<"return", "user">>},
           \/ waitLock' = 0 \/ <<from, to>> \in {<<"lock", "link">>, <<"rlock", "wake">>}
           \/ waitLock' = waitLock /\ from = "return"
    PROVE  CalmInv'
<1>1. cpu = p /\ pc[p] = from /\ pc'[p] = to
  BY AtFacts DEF CalmInv
<1>2. /\ from \notin {"asleep", "unlink", "try"} /\ to \notin {"asleep", "unlink", "store", "try"}
      /\ from \in {"mark", "unlock", "block"} <=> to \in {"mark", "unlock", "block"}
      /\ from \in {"unlock", "block"} <=> to \in {"unlock", "block"}
      /\ from \in {"runlock", "yield"} => to \in {"runlock", "yield"}
      /\ from \notin {"nap", "asleep", "store"}
      /\ from \notin {"rlock", "wake", "try"} \/ to \in {"rlock", "wake"}
      /\ to \in OnItsWay => from \in OnItsWay
  BY DEF OnItsWay
<1>3. /\ ~Sleeping(p) /\ (Waiting(p) <=> from \in {"mark", "unlock", "block"})
  BY <1>1, <1>2, CurrentState
<1>4. ~Sleeping(p)' /\ (Waiting(p)' <=> to \in {"mark", "unlock", "block"})
  BY <1>1, <1>2 DEF Sleeping, Waiting
<1>5. QueueInv'
  BY <1>2, LocalQueue
<1>6. PlaceInv'
  <2>1. p \notin napping /\ ~broken
    BY <1>3 DEF CalmInv, PlaceInv
  <2>. QED BY <1>4, <2>1, LocalPlace
<1>7. WaitInv'
  <2>1. Waiting(p) <=> Waiting(p)'
    BY <1>2, <1>3, <1>4
  <2>. QED BY <1>2, <2>1, LocalWait
<1>8. WaitLockInv'
  <2>1. \/ waitLock' = 0
        \/ to \in {"link", "mark", "unlock", "wake", "unlink", "runlock"}
        \/ waitLock' = waitLock /\ from \notin {"link", "mark", "unlock", "wake", "unlink", "runlock"}
    OBVIOUS
  <2>. QED BY <2>1, LocalWaitLock
<1>9. ProgressInv'
  BY <1>2, LocalProgress
<1>. QED BY <1>5, <1>6, <1>7, <1>8, <1>9 DEF CalmInv

LEMMA PlainSteps ==
    ASSUME CalmInv, NEW p \in Users,
           Lock(p) \/ Unlock(p) \/ ReleaseLock(p) \/ ReleaseUnlock(p) \/ Return(p)
    PROVE  CalmInv'
<1> USE DEF Labels
<1>1. CASE Lock(p)
  BY <1>1, PlainCalm DEF Lock, SpinlockAcquire, queueVars, setUpVars
<1>2. CASE Unlock(p)
  BY <1>2, PlainCalm DEF Unlock, SpinlockRelease, queueVars, setUpVars
<1>3. CASE ReleaseLock(p)
  BY <1>3, PlainCalm DEF ReleaseLock, SpinlockAcquire, queueVars, setUpVars
<1>4. CASE ReleaseUnlock(p)
  BY <1>4, PlainCalm DEF ReleaseUnlock, SpinlockRelease, queueVars, setUpVars
<1>5. CASE Return(p)
  BY <1>5, PlainCalm DEF Return, lockVars, queueVars, setUpVars
<1>. QED BY <1>1, <1>2, <1>3, <1>4, <1>5

LEMMA TryCalm ==
    ASSUME CalmInv, NEW p \in Users, Try(p)
    PROVE  CalmInv'
<1> DEFINE to == IF owner = Nobody THEN "nap" ELSE "lock"
<1>1. /\ At(p, "try", to) /\ owner' = p
      /\ broken' = (owner = Nobody /\ p \in ToSet(waiters))
      /\ woken' = IF woken = p THEN Nobody ELSE woken
      /\ UNCHANGED <<waitLock, waiters, pstate, runq, cpu, napping, junk>>
      /\ "try" \in Labels /\ to \in Labels /\ to \in {"nap", "lock"}
  BY DEF Try, queueVars, setUpVars, Labels
<1> HIDE DEF to
<1>2. /\ cpu = p /\ pc[p] = "try" /\ pc'[p] = to /\ \A t \in Tasks \ {p} : pc'[t] = pc[t]
  BY <1>1, AtFacts DEF CalmInv
<1>3. ~Blocked(p) /\ ~Sleeping(p) /\ ~Waiting(p)
  BY <1>2, CurrentState
<1>4. p \notin ToSet(waiters) /\ p \notin napping
  BY <1>2, <1>3 DEF CalmInv, WaitInv, PlaceInv
<1>5. ~broken'
  BY <1>1, <1>4
<1>6. QueueInv'
  BY <1>1, LocalQueue
<1>7. ~Sleeping(p)' /\ ~Waiting(p)'
  BY <1>1, <1>2 DEF Sleeping, Waiting
<1>8. PlaceInv'
  BY <1>1, <1>4, <1>5, <1>7, LocalPlace
<1>9. woken' = Nobody
  BY <1>1, <1>2 DEF CalmInv, WaitInv
<1>10. WaitInv'
  <2>1. \A q \in Users : Waiting(q)' <=> Waiting(q)
    BY <1>1, <1>2, <1>3, <1>7 DEF Waiting, Blocked, Tasks
  <2>. QED BY <1>1, <1>2, <1>9, <2>1 DEF CalmInv, WaitInv
<1>11. WaitLockInv'
  BY <1>1, LocalWaitLock
<1>12. ProgressInv'
  <2>1. \E q \in Users : Holds(q)'
    <3>1. CASE owner = Nobody
      BY <1>2, <3>1 DEF to, Holds
    <3>2. CASE owner # Nobody
      <4>1. PICK q \in Users : Holds(q)
        BY <3>2 DEF CalmInv, ProgressInv
      <4>2. q # p
        BY <1>2, <4>1 DEF Holds
      <4>. QED BY <1>2, <4>1, <4>2 DEF Holds, Tasks
    <3>. QED BY <3>1, <3>2
  <2>2. owner' # Nobody
    BY <1>1, MutexAssumption
  <2>. QED BY <2>1, <2>2 DEF ProgressInv, Somebody
<1>. QED BY <1>6, <1>8, <1>10, <1>11, <1>12 DEF CalmInv

LEMMA LinkCalm ==
    ASSUME CalmInv, NEW p \in Users, LinkEntry(p)
    PROVE  CalmInv'
<1>1. /\ At(p, "link", "mark")
      /\ waiters' = IF p \in ToSet(waiters) THEN waiters ELSE <<p>> \o waiters
      /\ UNCHANGED <<owner, waitLock, pstate, runq, cpu, napping, broken, woken, junk>>
      /\ "link" \in Labels /\ "mark" \in Labels
  BY DEF LinkEntry, queueVars, setUpVars, Labels
<1>2. /\ cpu = p /\ pc[p] = "link" /\ pc'[p] = "mark" /\ \A t \in Tasks \ {p} : pc'[t] = pc[t]
  BY <1>1, AtFacts DEF CalmInv
<1>3. ~Sleeping(p) /\ ~Waiting(p)
  BY <1>2, CurrentState
<1>4. p \notin ToSet(waiters) /\ p \notin napping /\ ~broken
  BY <1>2, <1>3 DEF CalmInv, WaitInv, PlaceInv
<1>5. QueueInv'
  BY <1>1, LocalQueue
<1>6. ~Sleeping(p)' /\ Waiting(p)'
  BY <1>2 DEF Sleeping, Waiting
<1>7. PlaceInv'
  BY <1>1, <1>4, <1>6, LocalPlace
<1>8. WaitInv'
  <2>1. \A q \in Users \ {p} : Waiting(q)' <=> Waiting(q)
    BY <1>1, <1>2 DEF Waiting, Blocked, Tasks
  <2>2. waiters \in Seq(Users) /\ NoDup(waiters) /\ \A q \in Users : q \in ToSet(waiters) <=> Waiting(q)
    BY <1>2 DEF CalmInv, WaitInv
  <2>3. /\ waiters' \in Seq(Users) /\ NoDup(waiters')
        /\ ToSet(waiters') = {p} \cup ToSet(waiters)
    BY <1>1, <1>4, <2>2, Push
  <2>4. woken = Nobody
    BY <1>2 DEF CalmInv, WaitInv
  <2>. QED BY <1>1, <1>2, <1>6, <2>1, <2>2, <2>3, <2>4 DEF WaitInv
<1>9. WaitLockInv'
  BY <1>1, LocalWaitLock
<1>10. ProgressInv'
  BY <1>1, LocalProgress DEF OnItsWay
<1>. QED BY <1>5, <1>7, <1>8, <1>9, <1>10 DEF CalmInv

LEMMA MarkCalm ==
    ASSUME CalmInv, NEW p \in Users, Mark(p)
    PROVE  CalmInv'
<1>1. /\ At(p, "mark", "unlock") /\ pstate' = [pstate EXCEPT ![p] = "BLOCKED"]
      /\ UNCHANGED <<owner, waitLock, waiters, runq, cpu, napping, broken, woken, junk>>
      /\ "mark" \in Labels /\ "unlock" \in Labels
  BY DEF Mark, lockVars, setUpVars, Labels
<1>2. /\ cpu = p /\ pc[p] = "mark" /\ pc'[p] = "unlock" /\ \A t \in Tasks \ {p} : pc'[t] = pc[t]
  BY <1>1, AtFacts DEF CalmInv
<1>3. ~Sleeping(p) /\ Waiting(p)
  BY <1>2, CurrentState
<1>4. p \notin napping /\ ~broken
  BY <1>3 DEF CalmInv, PlaceInv
<1>5. /\ pstate' \in [Tasks -> States] /\ pstate'[p] = "BLOCKED"
      /\ \A q \in Users \ {p} : pstate'[q] = pstate[q]
  BY <1>1 DEF CalmInv, QueueInv, Tasks, States
<1>6. QueueInv'
  BY <1>1, <1>2, <1>5 DEF CalmInv, QueueInv
<1>7. ~Sleeping(p)' /\ Waiting(p)'
  BY <1>2 DEF Sleeping, Waiting
<1>8. PlaceInv'
  BY <1>1, <1>4, <1>5, <1>7, LocalPlace
<1>9. WaitInv'
  BY <1>1, <1>3, <1>5, <1>7, LocalWait
<1>10. WaitLockInv'
  BY <1>1, LocalWaitLock
<1>11. ProgressInv'
  BY <1>1, <1>5, LocalProgress DEF OnItsWay
<1>. QED BY <1>6, <1>8, <1>9, <1>10, <1>11 DEF CalmInv

LEMMA NapCalm ==
    ASSUME CalmInv, NEW p \in Users, Nap(p)
    PROVE  CalmInv'
<1>1. /\ At(p, "nap", "asleep") /\ napping' = napping \cup {p}
      /\ UNCHANGED <<owner, waitLock, waiters, pstate, runq, cpu, broken, woken, junk>>
      /\ "nap" \in Labels /\ "asleep" \in Labels
  BY DEF Nap, lockVars, queueVars, setUpVars, Labels
<1>2. cpu = p /\ pc[p] = "nap" /\ pc'[p] = "asleep"
  BY <1>1, AtFacts DEF CalmInv
<1>3. ~Waiting(p) /\ ~broken
  BY <1>2, CurrentState DEF CalmInv, PlaceInv
<1>4. Sleeping(p)' /\ ~Waiting(p)'
  BY <1>2 DEF Sleeping, Waiting
<1>5. QueueInv'
  BY <1>1, LocalQueue
<1>6. PlaceInv'
  BY <1>1, <1>3, <1>4, LocalPlace
<1>7. WaitInv'
  BY <1>1, <1>3, <1>4, LocalWait
<1>8. WaitLockInv'
  BY <1>1, LocalWaitLock
<1>9. ProgressInv'
  BY <1>1, LocalProgress DEF OnItsWay
<1>. QED BY <1>5, <1>6, <1>7, <1>8, <1>9 DEF CalmInv

LEMMA StoreCalm ==
    ASSUME CalmInv, NEW p \in Users, Store(p)
    PROVE  CalmInv'
<1>1. /\ At(p, "store", "rlock") /\ owner' = Nobody
      /\ UNCHANGED <<waitLock, waiters, pstate, runq, cpu, napping, broken, woken, junk>>
      /\ "store" \in Labels /\ "rlock" \in Labels
  BY DEF Store, queueVars, setUpVars, Labels
<1>2. cpu = p /\ pc[p] = "store" /\ pc'[p] = "rlock"
  BY <1>1, AtFacts DEF CalmInv
<1>3. ~Waiting(p) /\ ~Sleeping(p) /\ ~broken
  BY <1>2, CurrentState DEF CalmInv, PlaceInv
<1>4. ~Sleeping(p)' /\ ~Waiting(p)'
  BY <1>2 DEF Sleeping, Waiting
<1>5. QueueInv'
  BY <1>1, LocalQueue
<1>6. PlaceInv'
  <2>1. p \notin napping
    BY <1>3 DEF CalmInv, PlaceInv
  <2>. QED BY <1>1, <1>3, <1>4, <2>1, LocalPlace
<1>7. WaitInv'
  BY <1>1, <1>3, <1>4, LocalWait
<1>8. WaitLockInv'
  BY <1>1, LocalWaitLock
<1>9. ProgressInv'
  <2>1. Somebody'
    BY <1>2 DEF Somebody
  <2>. QED BY <1>1, <1>2, <2>1 DEF ProgressInv, OnItsWay
<1>. QED BY <1>5, <1>6, <1>7, <1>8, <1>9 DEF CalmInv

\* The first waiter is woken and stands at the front of the run queue.
LEMMA WakeCalm ==
    ASSUME CalmInv, NEW p \in Users, Wake(p)
    PROVE  CalmInv'
<1>1. UNCHANGED <<owner, waitLock, waiters, napping, junk>>
  BY DEF Wake, lockVars, setUpVars
<1>2. waiters \in Seq(Users) /\ NoDup(waiters)
  BY DEF CalmInv, WaitInv
<1>3. CASE waiters = <<>>
  <2>1. /\ At(p, "wake", "runlock") /\ UNCHANGED <<pstate, runq, cpu, broken, woken>>
        /\ "wake" \in Labels /\ "runlock" \in Labels
    BY <1>3 DEF Wake, queueVars, Labels
  <2>2. cpu = p /\ pc[p] = "wake" /\ pc'[p] = "runlock" /\ \A t \in Tasks \ {p} : pc'[t] = pc[t]
    BY <2>1, AtFacts DEF CalmInv
  <2>3. ~Waiting(p) /\ ~Sleeping(p) /\ ~broken
    BY <2>2, CurrentState DEF CalmInv, PlaceInv
  <2>4. ~Sleeping(p)' /\ ~Waiting(p)'
    BY <2>2 DEF Sleeping, Waiting
  <2>5. QueueInv'
    BY <2>1, LocalQueue
  <2>6. PlaceInv'
    <3>1. p \notin napping
      BY <2>3 DEF CalmInv, PlaceInv
    <3>. QED BY <1>1, <2>1, <2>3, <2>4, <3>1, LocalPlace
  <2>7. WaitInv'
    BY <1>1, <2>1, <2>3, <2>4, LocalWait
  <2>8. WaitLockInv'
    BY <1>1, <2>1, LocalWaitLock
  <2>9. ProgressInv'
    <3>1. \A q \in Users : ~Waiting(q)
      BY <1>3, <2>2, EmptyList DEF CalmInv, WaitInv
    <3>2. \A q \in Users : ~(pc'[q] = "try" /\ Blocked(q)')
      BY <2>1, <2>2, <3>1 DEF Waiting, Blocked, Tasks
    <3>3. (\E q \in Users : Holds(q)) => (\E q \in Users : Holds(q)')
      BY <2>2 DEF Holds, Tasks
    <3>. QED BY <1>1, <2>1, <2>2, <3>2, <3>3 DEF CalmInv, ProgressInv, OnItsWay
  <2>. QED BY <2>5, <2>6, <2>7, <2>8, <2>9 DEF CalmInv
<1>4. CASE waiters # <<>>
  <2>0. PICK h : h = Head(waiters)
    OBVIOUS
  <2>1. /\ At(p, "wake", "unlink") /\ WakeUp(h) /\ woken' = h
        /\ "wake" \in Labels /\ "unlink" \in Labels
    BY <1>4, <2>0 DEF Wake, Labels
  <2>2. /\ h \in Users /\ ToSet(waiters) = {h} \cup ToSet(Tail(waiters))
        /\ h \notin ToSet(Tail(waiters))
    BY <1>2, <1>4, <2>0, Pop
  <2>3. cpu = p /\ pc[p] = "wake" /\ pc'[p] = "unlink" /\ \A t \in Tasks \ {p} : pc'[t] = pc[t]
    BY <2>1, AtFacts DEF CalmInv
  <2>4. ~Waiting(p) /\ ~Sleeping(p)
    BY <2>3, CurrentState
  <2>5. Waiting(h) /\ h # p
    BY <2>2, <2>3, <2>4 DEF CalmInv, WaitInv
  <2>6. pc[h] = "try" /\ Blocked(h)
    BY <2>2, <2>3, <2>5 DEF CalmInv, PlaceInv, Waiting
  <2>7. /\ QueueInv' /\ broken' = FALSE /\ cpu' = cpu /\ runq' # <<>> /\ Head(runq') = h
        /\ pstate'[h] = "READY" /\ \A q \in Users \ {h} : pstate'[q] = pstate[q]
    BY <2>1, <2>2, <2>3, <2>5, <2>6, WakeUpFacts DEF CalmInv
  <2>8. pc'[h] = "try" /\ ~Blocked(h)'
    BY <2>2, <2>3, <2>5, <2>6, <2>7 DEF Blocked, Tasks
  <2>9. \A q \in Users \ {h, p} : /\ pc'[q] = pc[q] /\ (Blocked(q)' <=> Blocked(q))
                                  /\ (Sleeping(q)' <=> Sleeping(q)) /\ (Waiting(q)' <=> Waiting(q))
    BY <2>3, <2>7 DEF Blocked, Sleeping, Waiting, Tasks
  <2>10. ~Sleeping(p)' /\ ~Waiting(p)' /\ ~Sleeping(h)' /\ ~Waiting(h)' /\ ~Sleeping(h)
    BY <2>3, <2>6, <2>8 DEF Sleeping, Waiting
  <2>11. PlaceInv'
    <3>1. /\ PcType' /\ pc'[IdleTask] = "user" /\ frames' = frames
      BY <2>1, AtFacts DEF CalmInv
    <3>. QED BY <1>1, <2>3, <2>4, <2>6, <2>7, <2>8, <2>9, <2>10, <3>1 DEF CalmInv, PlaceInv
  <2>12. WaitInv'
    <3>1. \A q \in Users : q \in ToSet(Tail(waiters)) <=> Waiting(q)'
      BY <2>2, <2>3, <2>4, <2>9, <2>10 DEF CalmInv, WaitInv
    <3>. QED BY <1>1, <1>2, <1>4, <2>0, <2>1, <2>2, <2>3, <2>7, <2>8, <3>1 DEF WaitInv
  <2>13. WaitLockInv'
    BY <1>1, <2>1, <2>7, LocalWaitLock
  <2>14. ProgressInv'
    <3>1. Somebody'
      BY <2>2, <2>8 DEF Somebody
    <3>2. (\E q \in Users : Holds(q)) => (\E q \in Users : Holds(q)')
      BY <2>3 DEF Holds, Tasks
    <3>. QED BY <1>1, <2>3, <2>7, <3>1, <3>2 DEF CalmInv, ProgressInv, OnItsWay
  <2>. QED BY <2>7, <2>11, <2>12, <2>13, <2>14 DEF CalmInv
<1>. QED BY <1>3, <1>4

LEMMA UnlinkCalm ==
    ASSUME CalmInv, NEW p \in Users, Unlink(p)
    PROVE  CalmInv'
<1>1. /\ At(p, "unlink", "runlock") /\ waiters' = Tail(waiters)
      /\ UNCHANGED <<owner, waitLock, pstate, runq, cpu, napping, broken, woken, junk>>
      /\ "unlink" \in Labels /\ "runlock" \in Labels
  BY DEF Unlink, queueVars, setUpVars, Labels
<1>2. cpu = p /\ pc[p] = "unlink" /\ pc'[p] = "runlock" /\ \A t \in Tasks \ {p} : pc'[t] = pc[t]
  BY <1>1, AtFacts DEF CalmInv
<1>3. ~Waiting(p) /\ ~Sleeping(p) /\ ~broken
  BY <1>2, CurrentState DEF CalmInv, PlaceInv
<1>4. ~Sleeping(p)' /\ ~Waiting(p)'
  BY <1>2 DEF Sleeping, Waiting
<1>5. QueueInv'
  BY <1>1, LocalQueue
<1>6. PlaceInv'
  <2>1. p \notin napping
    BY <1>3 DEF CalmInv, PlaceInv
  <2>. QED BY <1>1, <1>3, <1>4, <2>1, LocalPlace
<1>7. WaitInv'
  <2>1. /\ waiters \in Seq(Users) /\ NoDup(waiters) /\ waiters # <<>>
        /\ \A q \in Users : q \in ToSet(Tail(waiters)) <=> Waiting(q)
        /\ woken # Nobody => woken \in Users /\ pc[woken] = "try"
              /\ \/ cpu = woken
                 \/ pc[cpu] \in {"unlink", "runlock", "yield"} /\ runq # <<>> /\ Head(runq) = woken
    BY <1>2 DEF CalmInv, WaitInv
  <2>2. Tail(waiters) \in Seq(Users) /\ NoDup(Tail(waiters))
    BY <2>1, Pop
  <2>3. \A q \in Users : Waiting(q)' <=> Waiting(q)
    BY <1>1, <1>2, <1>3, <1>4 DEF Waiting, Blocked, Tasks
  <2>4. woken # Nobody => woken # p /\ pc'[woken] = "try"
    BY <1>2, <2>1 DEF Tasks
  <2>. QED BY <1>1, <1>2, <2>1, <2>2, <2>3, <2>4 DEF WaitInv
<1>8. WaitLockInv'
  BY <1>1, LocalWaitLock
<1>9. ProgressInv'
  BY <1>1, LocalProgress DEF OnItsWay
<1>. QED BY <1>5, <1>6, <1>7, <1>8, <1>9 DEF CalmInv

\* A call of scheduler(), whoever is switched in.  st and q are the states and
\* the run queue that it is called with.
LEMMA SwitchCalm ==
    ASSUME CalmInv, NEW STATE st, st \in [Tasks -> States], NEW STATE q, q \in Seq(Users), NoDup(q),
           cpu \notin ToSet(q),
           \A p \in Users \ {cpu} : st[p] = IF p \in ToSet(q) THEN "READY" ELSE "BLOCKED",
           \A p \in Users \ {cpu} : st[p] = "BLOCKED" <=> Blocked(p),
           cpu \in Users => st[cpu] \in {"RUNNING", "BLOCKED"},
           SchedulerCall(st, q),
           PcType', pc'[IdleTask] = "user", frames' \in [Tasks -> Nat],
           \A p \in Users \ {cpu} : pc'[p] = pc[p] /\ frames'[p] = frames[p],
           pc[cpu] \in {"block", "asleep", "yield", "user"},
           pc[cpu] = "yield" => q = runq,
           cpu \in Users =>
               /\ pc[cpu] = "block" => pc'[cpu] = "try" /\ st[cpu] = "BLOCKED"
               /\ pc[cpu] = "asleep" => pc'[cpu] = "store" /\ st[cpu] = "BLOCKED"
               /\ pc[cpu] = "yield" => pc'[cpu] = "return" /\ st[cpu] = "RUNNING"
               /\ pc[cpu] = "user" => pc'[cpu] = "user" /\ st[cpu] = "RUNNING"
               /\ frames'[cpu] = IF pc[cpu] = "user" THEN 1 ELSE 0,
           UNCHANGED <<owner, waitLock, waiters, napping, broken, woken, junk>>
    PROVE  CalmInv'
<1>1. cpu \in Tasks
  BY DEF CalmInv, QueueInv
<1>2. /\ runq' \in Seq(Users) /\ NoDup(runq') /\ pstate' \in [Tasks -> States]
      /\ cpu' \in Tasks /\ cpu' \notin ToSet(runq')
      /\ \A p \in Users \ {cpu'} :
            pstate'[p] = IF p \in ToSet(runq') THEN "READY" ELSE "BLOCKED"
      /\ cpu' \in Users => pstate'[cpu'] = "RUNNING"
      /\ \A p \in Users : pstate'[p] = "BLOCKED" <=> st[p] = "BLOCKED"
      /\ q # <<>> => cpu' = Head(q)
  BY <1>1, SchedulerCallFacts
<1>3. \A t \in Tasks : t \in Users \/ t = IdleTask
  BY DEF Tasks
<1>4. \A p \in Users : pc'[p] \in {"user", "try", "store", "return"}
  BY <1>1 DEF CalmInv, PlaceInv
<1>5. pc'[cpu'] \in {"user", "try", "store", "return"}
  BY <1>2, <1>3, <1>4
<1>6. \A p \in Users \ {cpu} : Blocked(p)' <=> Blocked(p)
  BY <1>2 DEF Blocked
<1>7. \A p \in Users : Blocked(p)' <=> st[p] = "BLOCKED"
  BY <1>2 DEF Blocked
<1>8. \A p \in Users : (Sleeping(p)' <=> Sleeping(p)) /\ (Waiting(p)' <=> Waiting(p))
  <2>1. ASSUME NEW p \in Users, p # cpu
        PROVE  (Sleeping(p)' <=> Sleeping(p)) /\ (Waiting(p)' <=> Waiting(p))
    BY <1>6, <2>1 DEF Sleeping, Waiting
  <2>2. ASSUME NEW p \in Users, p = cpu
        PROVE  (Sleeping(p)' <=> Sleeping(p)) /\ (Waiting(p)' <=> Waiting(p))
    <3>1. /\ Sleeping(p) <=> pc[p] = "asleep"
          /\ Waiting(p) <=> pc[p] = "block"
      BY <2>2, CurrentState
    <3>2. Blocked(p)' <=> st[p] = "BLOCKED"
      BY <1>7, <2>2
    <3>3. Sleeping(p)' <=> pc[p] = "asleep"
      BY <1>4, <2>2, <3>2 DEF Sleeping
    <3>4. Waiting(p)' <=> pc[p] = "block"
      BY <1>4, <2>2, <3>2 DEF Waiting
    <3>. QED BY <3>1, <3>3, <3>4
  <2>. QED BY <2>1, <2>2
<1>9. QueueInv'
  BY <1>2, <1>5 DEF QueueInv
<1>10. PlaceInv'
  <2>1. \A p \in Users : /\ frames'[p] \in {0, 1} /\ (frames'[p] = 1 => pc'[p] = "user")
                         /\ pc'[p] = "user" /\ p # cpu' => frames'[p] = 1 \/ p = cpu
                         /\ pc'[p] = "user" /\ p = cpu => frames'[p] = 1
    <3>1. ASSUME NEW p \in Users, p # cpu
          PROVE  /\ frames'[p] \in {0, 1} /\ (frames'[p] = 1 => pc'[p] = "user")
                 /\ pc'[p] = "user" => frames'[p] = 1
      BY <3>1 DEF CalmInv, PlaceInv
    <3>2. ASSUME NEW p \in Users, p = cpu
          PROVE  /\ frames'[p] \in {0, 1} /\ (frames'[p] = 1 => pc'[p] = "user")
                 /\ pc'[p] = "user" => frames'[p] = 1
      BY <3>2
    <3>. QED BY <3>1, <3>2
  <2>2. \A p \in Users : pc'[p] \in {"user", "return"} => ~Blocked(p)'
    <3>1. ASSUME NEW p \in Users, p # cpu, pc'[p] \in {"user", "return"} PROVE ~Blocked(p)'
      BY <1>6, <3>1 DEF CalmInv, PlaceInv
    <3>2. ASSUME NEW p \in Users, p = cpu, pc'[p] \in {"user", "return"} PROVE ~Blocked(p)'
      BY <1>7, <3>2
    <3>. QED BY <3>1, <3>2
  <2>3. \A p \in Users : p \in napping' <=> Sleeping(p)'
    BY <1>8 DEF CalmInv, PlaceInv
  <2>4. ~broken'
    BY DEF CalmInv, PlaceInv
  <2>. QED BY <1>4, <2>1, <2>2, <2>3, <2>4 DEF PlaceInv
<1>11. WaitInv'
  <2>1. woken # Nobody => woken \in Users /\ cpu' = woken /\ pc'[woken] = "try"
    <3>1. SUFFICES ASSUME woken # Nobody
                   PROVE  woken \in Users /\ cpu' = woken /\ pc'[woken] = "try"
      OBVIOUS
    <3>2. /\ woken \in Users /\ pc[woken] = "try" /\ woken # cpu
          /\ pc[cpu] = "yield" /\ runq # <<>> /\ Head(runq) = woken
      BY <3>1 DEF CalmInv, WaitInv
    <3>. QED BY <1>2, <3>2
  <2>2. waiters \in Seq(Users) /\ NoDup(waiters) /\ \A p \in Users : p \in ToSet(waiters) <=> Waiting(p)
    BY DEF CalmInv, WaitInv
  <2>. QED BY <1>5, <1>8, <2>1, <2>2 DEF WaitInv
<1>12. WaitLockInv'
  BY DEF CalmInv, WaitLockInv
<1>13. ProgressInv'
  <2>1. \A p \in Users : Holds(p) => Holds(p)'
    <3>1. ASSUME NEW p \in Users, p # cpu, Holds(p) PROVE Holds(p)'
      BY <3>1 DEF Holds
    <3>2. ASSUME NEW p \in Users, p = cpu, Holds(p) PROVE Holds(p)'
      BY <3>2 DEF Holds
    <3>. QED BY <3>1, <3>2
  <2>2. owner # Nobody => \E p \in Users : Holds(p)'
    BY <2>1 DEF CalmInv, ProgressInv
  <2>3. ASSUME NEW p \in Users, pc'[p] = "try" /\ Blocked(p)' PROVE Somebody'
    <3>1. CASE p = cpu
      <4>1. pc[cpu] = "block"
        BY <2>3, <3>1
      <4>2. owner # Nobody
        BY <4>1 DEF CalmInv, ProgressInv, OnItsWay
      <4>. QED BY <2>2, <4>2 DEF Somebody
    <3>2. CASE p # cpu
      <4>1. pc[p] = "try" /\ Blocked(p)
        BY <1>6, <2>3, <3>2
      <4>2. Somebody
        BY <4>1 DEF CalmInv, ProgressInv
      <4>3. PICK r \in Users : Holds(r) \/ pc[r] \in {"rlock", "wake"} \/ (pc[r] = "try" /\ ~Blocked(r))
        BY <4>2 DEF Somebody
      <4>4. CASE Holds(r)
        BY <2>1, <4>4 DEF Somebody
      <4>5. CASE ~Holds(r)
        <5>1. r # cpu
          BY <4>3, <4>5
        <5>2. pc'[r] = pc[r] /\ (Blocked(r)' <=> Blocked(r))
          BY <1>6, <5>1
        <5>. QED BY <4>3, <4>5, <5>2 DEF Somebody
      <4>. QED BY <4>4, <4>5
    <3>. QED BY <3>1, <3>2
  <2>. QED BY <1>5, <2>2, <2>3 DEF ProgressInv, OnItsWay
<1>. QED BY <1>9, <1>10, <1>11, <1>12, <1>13 DEF CalmInv

\* deschedule() of a current process that is running.
LEMMA DescheduleRunning ==
    ASSUME CalmInv, cpu \in Users, pstate[cpu] = "RUNNING", Deschedule
    PROVE  /\ SchedulerCall([pstate EXCEPT ![cpu] = "BLOCKED"], runq)
           /\ [pstate EXCEPT ![cpu] = "BLOCKED"] \in [Tasks -> States]
           /\ [pstate EXCEPT ![cpu] = "BLOCKED"][cpu] = "BLOCKED"
           /\ \A p \in Users \ {cpu} : [pstate EXCEPT ![cpu] = "BLOCKED"][p] = pstate[p]
<1>1. runq = Unlinked(cpu)
  BY DEF Unlinked, CalmInv, QueueInv
<1>2. SchedulerCall([pstate EXCEPT ![cpu] = "BLOCKED"], runq)
  BY <1>1 DEF Deschedule
<1>. QED BY <1>2 DEF CalmInv, QueueInv, States, Tasks

LEMMA BlockCalm ==
    ASSUME CalmInv, NEW p \in Users, BlockInQueue(p)
    PROVE  CalmInv'
<1>1. /\ At(p, "block", "try") /\ Deschedule
      /\ UNCHANGED <<owner, waitLock, waiters, napping, broken, woken, junk>>
      /\ "block" \in Labels /\ "try" \in Labels
  BY DEF BlockInQueue, lockVars, setUpVars, Labels
<1>2. /\ cpu = p /\ pc[p] = "block" /\ frames[p] = 0
      /\ PcType' /\ pc'[p] = "try" /\ \A t \in Tasks \ {p} : pc'[t] = pc[t]
      /\ pc'[IdleTask] = "user" /\ frames' = frames
  BY <1>1, AtFacts DEF CalmInv
<1>3. pstate[cpu] = "BLOCKED"
  BY <1>2 DEF CalmInv, QueueInv
<1>4. SchedulerCall(pstate, runq)
  BY <1>1, <1>3 DEF Deschedule
<1>5. \A q \in Users \ {cpu} : pc'[q] = pc[q] /\ frames'[q] = frames[q]
  BY <1>2 DEF Tasks
<1>6. /\ pstate \in [Tasks -> States] /\ runq \in Seq(Users) /\ NoDup(runq) /\ cpu \notin ToSet(runq)
      /\ \A q \in Users \ {cpu} : pstate[q] = IF q \in ToSet(runq) THEN "READY" ELSE "BLOCKED"
      /\ \A q \in Users \ {cpu} : pstate[q] = "BLOCKED" <=> Blocked(q)
      /\ frames \in [Tasks -> Nat]
  BY DEF CalmInv, QueueInv, PlaceInv, Blocked
<1>7. /\ pc[cpu] = "block" /\ pc'[cpu] = "try" /\ frames'[cpu] = 0 /\ frames' \in [Tasks -> Nat]
  BY <1>2, <1>6
<1>. QED BY <1>1, <1>2, <1>3, <1>4, <1>5, <1>6, <1>7, SwitchCalm

LEMMA SleepCalm ==
    ASSUME CalmInv, NEW p \in Users, Sleep(p)
    PROVE  CalmInv'
<1>1. /\ At(p, "asleep", "store") /\ Deschedule
      /\ UNCHANGED <<owner, waitLock, waiters, napping, broken, woken, junk>>
      /\ "asleep" \in Labels /\ "store" \in Labels
  BY DEF Sleep, lockVars, setUpVars, Labels
<1>2. /\ cpu = p /\ pc[p] = "asleep" /\ frames[p] = 0
      /\ PcType' /\ pc'[p] = "store" /\ \A t \in Tasks \ {p} : pc'[t] = pc[t]
      /\ pc'[IdleTask] = "user" /\ frames' = frames
  BY <1>1, AtFacts DEF CalmInv
<1>3. pstate[cpu] = "RUNNING"
  BY <1>2 DEF CalmInv, QueueInv
<1> DEFINE st == [pstate EXCEPT ![cpu] = "BLOCKED"]
<1>4. /\ SchedulerCall(st, runq) /\ st \in [Tasks -> States] /\ st[cpu] = "BLOCKED"
      /\ \A q \in Users \ {cpu} : st[q] = pstate[q]
  BY <1>1, <1>2, <1>3, DescheduleRunning
<1> HIDE DEF st
<1>5. \A q \in Users \ {cpu} : pc'[q] = pc[q] /\ frames'[q] = frames[q]
  BY <1>2 DEF Tasks
<1>6. /\ runq \in Seq(Users) /\ NoDup(runq) /\ cpu \notin ToSet(runq)
      /\ \A q \in Users \ {cpu} : st[q] = IF q \in ToSet(runq) THEN "READY" ELSE "BLOCKED"
      /\ \A q \in Users \ {cpu} : st[q] = "BLOCKED" <=> Blocked(q)
      /\ frames \in [Tasks -> Nat]
  BY <1>4 DEF CalmInv, QueueInv, PlaceInv, Blocked
<1>7. /\ pc[cpu] = "asleep" /\ pc'[cpu] = "store" /\ frames'[cpu] = 0 /\ frames' \in [Tasks -> Nat]
  BY <1>2, <1>6
<1>. QED BY <1>1, <1>2, <1>4, <1>5, <1>6, <1>7, SwitchCalm

LEMMA YieldCalm ==
    ASSUME CalmInv, NEW p \in Users, Yield(p)
    PROVE  CalmInv'
<1>1. /\ At(p, "yield", "return") /\ SchedulerCall(pstate, runq)
      /\ UNCHANGED <<owner, waitLock, waiters, napping, broken, woken, junk>>
      /\ "yield" \in Labels /\ "return" \in Labels
  BY DEF Yield, lockVars, setUpVars, Labels
<1>2. /\ cpu = p /\ pc[p] = "yield" /\ frames[p] = 0
      /\ PcType' /\ pc'[p] = "return" /\ \A t \in Tasks \ {p} : pc'[t] = pc[t]
      /\ pc'[IdleTask] = "user" /\ frames' = frames
  BY <1>1, AtFacts DEF CalmInv
<1>3. pstate[cpu] = "RUNNING"
  BY <1>2 DEF CalmInv, QueueInv
<1>4. \A q \in Users \ {cpu} : pc'[q] = pc[q] /\ frames'[q] = frames[q]
  BY <1>2 DEF Tasks
<1>5. /\ pstate \in [Tasks -> States] /\ runq \in Seq(Users) /\ NoDup(runq) /\ cpu \notin ToSet(runq)
      /\ \A q \in Users \ {cpu} : pstate[q] = IF q \in ToSet(runq) THEN "READY" ELSE "BLOCKED"
      /\ \A q \in Users \ {cpu} : pstate[q] = "BLOCKED" <=> Blocked(q)
      /\ frames \in [Tasks -> Nat]
  BY DEF CalmInv, QueueInv, PlaceInv, Blocked
<1>6. /\ pc[cpu] = "yield" /\ pc'[cpu] = "return" /\ frames'[cpu] = 0 /\ frames' \in [Tasks -> Nat]
  BY <1>2, <1>5
<1>. QED BY <1>1, <1>2, <1>3, <1>4, <1>5, <1>6, SwitchCalm
-----------------------------------------------------------------------------
\* Interrupts that hit the idle process or user code, and the idle process.
LEMMA QuantumCalm ==
    ASSUME CalmInv, Quantum, ~InterruptsKernel
    PROVE  CalmInv'
<1>1. /\ frames' = [frames EXCEPT ![cpu] = @ + 1] /\ SchedulerCall(pstate, runq) /\ pc' = pc
      /\ UNCHANGED <<owner, waitLock, waiters, napping, broken, woken, junk>>
  BY DEF Quantum, lockVars, setUpVars
<1>2. /\ pstate \in [Tasks -> States] /\ runq \in Seq(Users) /\ NoDup(runq) /\ cpu \notin ToSet(runq)
      /\ \A q \in Users \ {cpu} : pstate[q] = IF q \in ToSet(runq) THEN "READY" ELSE "BLOCKED"
      /\ \A q \in Users \ {cpu} : pstate[q] = "BLOCKED" <=> Blocked(q)
      /\ frames \in [Tasks -> Nat] /\ cpu \in Tasks /\ PcType /\ pc[IdleTask] = "user"
  BY DEF CalmInv, QueueInv, PlaceInv, Blocked
<1>3. cpu \in Users => pc[cpu] = "user" /\ frames[cpu] = 0 /\ pstate[cpu] = "RUNNING"
  <2>1. cpu \in Users => cpu # IdleTask /\ frames[cpu] \in {0, 1}
    BY MutexAssumption DEF CalmInv, PlaceInv
  <2>. QED BY <2>1 DEF InterruptsKernel, CalmInv, QueueInv
<1>4. pc[cpu] = "user"
  BY <1>2, <1>3 DEF Tasks
<1>5. /\ frames' \in [Tasks -> Nat] /\ (cpu \in Users => frames'[cpu] = 1)
      /\ \A q \in Users \ {cpu} : pc'[q] = pc[q] /\ frames'[q] = frames[q]
  BY <1>1, <1>2, <1>3 DEF Tasks
<1>6. PcType' /\ pc'[IdleTask] = "user" /\ pc'[cpu] = pc[cpu]
  BY <1>1, <1>2 DEF PcType
<1>. QED BY <1>1, <1>2, <1>3, <1>4, <1>5, <1>6, SwitchCalm

LEMMA IdleCalm ==
    ASSUME CalmInv, IdleLoop
    PROVE  CalmInv'
<1>1. /\ cpu = IdleTask /\ SchedulerCall(pstate, runq) /\ UNCHANGED <<pc, frames>>
      /\ UNCHANGED <<owner, waitLock, waiters, napping, broken, woken, junk>>
  BY DEF IdleLoop, lockVars, threadVars, setUpVars
<1>2. /\ pstate \in [Tasks -> States] /\ runq \in Seq(Users) /\ NoDup(runq) /\ cpu \notin ToSet(runq)
      /\ \A q \in Users \ {cpu} : pstate[q] = IF q \in ToSet(runq) THEN "READY" ELSE "BLOCKED"
      /\ \A q \in Users \ {cpu} : pstate[q] = "BLOCKED" <=> Blocked(q)
      /\ frames \in [Tasks -> Nat] /\ PcType /\ pc[IdleTask] = "user"
  BY DEF CalmInv, QueueInv, PlaceInv, Blocked
<1>3. cpu \notin Users
  BY <1>1, MutexAssumption
<1>4. PcType'
  BY <1>1, <1>2 DEF PcType
<1>. QED BY <1>1, <1>2, <1>3, <1>4, SwitchCalm

LEMMA ReturnFromIrqCalm ==
    ASSUME CalmInv, ReturnFromIrq
    PROVE  CalmInv'
<1>1. /\ frames[cpu] > 0 /\ frames' = [frames EXCEPT ![cpu] = @ - 1]
      /\ UNCHANGED <<owner, waitLock, waiters, pc, pstate, runq, cpu, napping, broken, woken, junk>>
  BY DEF ReturnFromIrq, lockVars, queueVars, setUpVars
<1>2. QueueInv' /\ WaitInv' /\ WaitLockInv' /\ ProgressInv'
  BY <1>1 DEF CalmInv, QueueInv, WaitInv, WaitLockInv, ProgressInv, Waiting, Blocked, Holds, Somebody
<1>3. /\ frames \in [Tasks -> Nat] /\ cpu \in Tasks
      /\ \A p \in Users : frames[p] \in {0, 1} /\ (frames[p] = 1 => pc[p] = "user")
  BY DEF CalmInv, PlaceInv, QueueInv
<1>4. /\ frames' \in [Tasks -> Nat] /\ frames'[cpu] = frames[cpu] - 1
      /\ \A p \in Users \ {cpu} : frames'[p] = frames[p]
  BY <1>1, <1>3 DEF Tasks
<1>5. cpu \in Users => frames'[cpu] = 0
  BY <1>1, <1>3, <1>4
<1>6. PlaceInv'
  BY <1>1, <1>3, <1>4, <1>5 DEF CalmInv, PlaceInv, PcType, Sleeping, Blocked
<1>. QED BY <1>2, <1>6 DEF CalmInv

LEMMA AlarmCalm ==
    ASSUME CalmInv, NEW p \in Users, Alarm(p), ~InterruptsKernel
    PROVE  CalmInv'
<1>1. /\ p \in napping /\ napping' = napping \ {p} /\ WakeUp(p) /\ UNCHANGED <<pc, frames>>
      /\ UNCHANGED <<owner, waitLock, waiters, woken, junk>>
  BY DEF Alarm, lockVars, threadVars, setUpVars
<1>2. pc[cpu] = "user"
  BY DEF InterruptsKernel, CalmInv, PlaceInv
<1>3. Sleeping(p) /\ p # cpu
  BY <1>1, <1>2 DEF CalmInv, PlaceInv, Sleeping
<1>4. pc[p] = "store" /\ Blocked(p)
  BY <1>3 DEF CalmInv, PlaceInv, Sleeping
<1>5. /\ QueueInv' /\ broken' = FALSE /\ cpu' = cpu
      /\ pstate'[p] = "READY" /\ \A q \in Users \ {p} : pstate'[q] = pstate[q]
  BY <1>1, <1>3, <1>4, WakeUpFacts DEF CalmInv
<1>6. /\ ~Blocked(p)' /\ ~Sleeping(p)' /\ ~Waiting(p) /\ ~Waiting(p)'
      /\ \A q \in Users \ {p} : /\ Blocked(q)' <=> Blocked(q)
                                /\ Sleeping(q)' <=> Sleeping(q)
                                /\ Waiting(q)' <=> Waiting(q)
  BY <1>1, <1>4, <1>5 DEF Blocked, Sleeping, Waiting
<1>7. PlaceInv'
  BY <1>1, <1>4, <1>5, <1>6 DEF CalmInv, PlaceInv, PcType
<1>8. woken = Nobody
  BY <1>2 DEF CalmInv, WaitInv
<1>9. WaitInv'
  BY <1>1, <1>2, <1>5, <1>6, <1>8 DEF CalmInv, WaitInv
<1>10. WaitLockInv'
  BY <1>1, <1>5 DEF CalmInv, WaitLockInv
<1>11. ProgressInv'
  <2>1. Holds(p)'
    BY <1>1, <1>4 DEF Holds
  <2>2. Somebody' /\ \E q \in Users : Holds(q)'
    BY <2>1 DEF Somebody
  <2>. QED BY <1>1, <1>2, <1>5, <2>2 DEF ProgressInv, OnItsWay
<1>. QED BY <1>5, <1>7, <1>9, <1>10, <1>11 DEF CalmInv

LEMMA StepQuiet == QuietInv /\ [MutexNext]_mutexVars => QuietInv'
<1> SUFFICES ASSUME QuietInv, [MutexNext]_mutexVars, ~raced' PROVE CalmInv'
  BY DEF QuietInv
<1>1. ASSUME NEW p \in Users, Enter(p) \/ Acquire(p) \/ Nap(p) \/ Sleep(p) \/ Release(p) \/ Return(p)
      PROVE  CalmInv'
  <2>1. raced' = raced
    BY <1>1 DEF Enter, Acquire, Release, Nap, Sleep, Return, Try, Lock, LinkEntry, Mark, Unlock,
       BlockInQueue, Store, ReleaseLock, Wake, Unlink, ReleaseUnlock, Yield, SpinlockAcquire,
       SpinlockRelease, At
  <2>2. CalmInv
    BY <2>1 DEF QuietInv
  <2>. QED
    BY <1>1, <2>2, EnterCalm, TryCalm, LinkCalm, MarkCalm, BlockCalm, NapCalm, SleepCalm, StoreCalm,
       WakeCalm, UnlinkCalm, YieldCalm, PlainSteps DEF Acquire, Release
<1>2. ASSUME NEW p \in Users, Alarm(p) PROVE CalmInv'
  <2>1. ~raced /\ ~InterruptsKernel
    BY <1>2 DEF Alarm
  <2>. QED BY <1>2, <2>1, AlarmCalm DEF QuietInv
<1>3. CASE Quantum
  <2>1. ~raced /\ ~InterruptsKernel
    BY <1>3 DEF Quantum
  <2>. QED BY <1>3, <2>1, QuantumCalm DEF QuietInv
<1>4. CASE ReturnFromIrq
  BY <1>4, ReturnFromIrqCalm DEF QuietInv, ReturnFromIrq
<1>5. CASE IdleLoop
  BY <1>5, IdleCalm DEF QuietInv, IdleLoop
<1>6. CASE UNCHANGED mutexVars
  <2>1. /\ CalmInv
        /\ UNCHANGED <<owner, waitLock, waiters, pc, frames, pstate, runq, cpu, napping, broken,
                       woken, junk>>
    BY <1>6 DEF QuietInv, mutexVars, lockVars, threadVars, queueVars, setUpVars
  <2>2. QueueInv' /\ WaitInv' /\ WaitLockInv' /\ ProgressInv'
    BY <2>1 DEF CalmInv, QueueInv, WaitInv, WaitLockInv, ProgressInv, Waiting, Blocked, Holds, Somebody
  <2>3. PlaceInv'
    BY <2>1 DEF CalmInv, PlaceInv, PcType, Sleeping, Blocked
  <2>. QED BY <2>2, <2>3 DEF CalmInv
<1>. QED BY <1>1, <1>2, <1>3, <1>4, <1>5, <1>6 DEF MutexNext

LEMMA AlwaysQuiet == MutexSpec => []QuietInv
BY InitQuiet, StepQuiet, PTL DEF MutexSpec

\* As long as no interrupt is taken inside of the calls and the memory of the
\* wait lock was 0, no process that blocked for the mutex is forgotten, with
\* any number of processes: its entry is linked and somebody will release the
\* mutex.  Nobody spins on the wait lock, and no list gets a dead link.
THEOREM WaitersAreRemembered == MutexSpec => []WaiterIsRemembered
<1>1. QuietInv => WaiterIsRemembered
  <2> SUFFICES ASSUME CalmInv, ~junk PROVE WaiterIsRemembered
    BY DEF QuietInv, WaiterIsRemembered
  <2>1. ASSUME NEW p \in Users, pc[p] = "try" /\ pstate[p] = "BLOCKED"
        PROVE  p \in ToSet(waiters) /\ Somebody
    <3>1. Waiting(p) /\ Blocked(p)
      BY <2>1 DEF Waiting, Blocked
    <3>2. waiters # <<>> => ToSet(Tail(waiters)) \subseteq ToSet(waiters)
      BY Pop DEF CalmInv, WaitInv
    <3>. QED BY <2>1, <3>1, <3>2 DEF CalmInv, WaitInv, ProgressInv
  <2>2. pc[cpu] \in {"lock", "rlock"} => waitLock = 0
    BY DEF CalmInv, WaitLockInv
  <2>3. ~broken
    BY DEF CalmInv, PlaceInv
  <2>. QED BY <2>1, <2>2, <2>3 DEF WaiterIsRemembered, Somebody, Blocked
<1>. QED BY <1>1, AlwaysQuiet, PTL

\* After a release the waiter that was woken is the next one that tries, as
\* the comment of mutex_release promises, unless an interrupt comes between.
THEOREM ReleaseHandsOver == MutexSpec => HandedOver
<1>1. ASSUME QuietInv, NEW p \in Users, ~raced, Try(p)
      PROVE  woken \in {Nobody, p}
  BY <1>1 DEF QuietInv, CalmInv, WaitInv, Try, At
<1>2. QuietInv => (\A p \in Users : ~raced /\ Try(p) => woken \in {Nobody, p})
  BY <1>1
<1>. QED BY <1>2, AlwaysQuiet, PTL DEF HandedOver
-----------------------------------------------------------------------------
(* A nonempty set of natural numbers has a minimum. *)
LEMMA HasLeast ==
    ASSUME NEW S \in SUBSET Nat, S # {}
    PROVE  \E x \in S : \A y \in S : x <= y
  <1>1. PICK x \in S : \A y \in S : ~(<<y, x>> \in OpToRel(<, Nat))
    BY NatLessThanWellFounded, WFMin
  <1>a. OpToRel(<, Nat) = {ss \in Nat \X Nat : ss[1] < ss[2]}
    BY Zenon DEF OpToRel
  <1>2. \A y \in S : x <= y
    <2> SUFFICES ASSUME NEW y \in S, y < x
                 PROVE  FALSE
      OBVIOUS
    <2>1. <<y, x>> \in {ss \in Nat \X Nat : ss[1] < ss[2]}
      OBVIOUS
    <2>2. <<y, x>> \in OpToRel(<, Nat)
      BY <1>a, <2>1, Zenon
    <2> QED
      BY <1>1, <2>2, Zenon
  <1> QED
    BY <1>2

LEMMA MinIsMember ==
    ASSUME NEW S \in SUBSET Nat, S # {}
    PROVE  Min(S) \in S
  BY HasLeast DEF Min

LEMMA MinIsLeast ==
    ASSUME NEW S \in SUBSET Nat, S # {}
    PROVE  Min(S) \in S /\ Min(S) \in Nat /\ \A y \in S : Min(S) <= y
  BY HasLeast DEF Min

(* The sleep queue: pq.c keeps the heap in an array. *)

SleepNode == [priority : Nat, element : Nat]
Above(i) == i \div 2

LEMMA AboveIs ==
    ASSUME NEW i \in Nat, i >= 2
    PROVE  Above(i) \in Nat /\ Above(i) >= 1 /\ Above(i) < i
           /\ (i = 2 * Above(i) \/ i = 2 * Above(i) + 1)
  BY DEF Above

LEMMA BelowIs == \A i \in Nat : Above(2 * i) = i /\ Above(2 * i + 1) = i
  BY DEF Above

InHeap(h) == {h[i] : i \in 1..Len(h)}
Distinct(h) == \A i, j \in 1..Len(h) : h[i].element = h[j].element => i = j

LEMMA KeyTyped ==
    ASSUME NEW h \in Seq(SleepNode), NEW i \in 1..Len(h)
    PROVE  Key(h, i) \in Nat /\ h[i] \in SleepNode
  <1>1. h[i] \in SleepNode
    BY ElementOfSeq
  <1>2. h[i].priority \in Nat
    BY <1>1 DEF SleepNode
  <1> QED
    BY <1>1, <1>2 DEF Key

(* _pq_swap: g is h with the entries at i and j exchanged. *)
Swapped(g, h, i, j) ==
    /\ g \in Seq(SleepNode) /\ Len(g) = Len(h)
    /\ \A k \in 1..Len(h) : g[k] = IF k = i THEN h[j] ELSE IF k = j THEN h[i] ELSE h[k]
    /\ InHeap(g) = InHeap(h)
    /\ Distinct(h) => Distinct(g)

LEMMA SwapIs ==
    ASSUME NEW h \in Seq(SleepNode), NEW i \in 1..Len(h), NEW j \in 1..Len(h)
    PROVE  Swapped(Swap(h, i, j), h, i, j)
  <1>1. PICK g : g = Swap(h, i, j)
    OBVIOUS
  <1>2. g \in Seq(SleepNode) /\ Len(g) = Len(h)
    BY <1>1 DEF Swap
  <1>3. \A k \in 1..Len(h) : g[k] = IF k = i THEN h[j] ELSE IF k = j THEN h[i] ELSE h[k]
    BY <1>1 DEF Swap
  <1>4. InHeap(g) = InHeap(h)
    <2>1. ASSUME NEW k \in 1..Len(h)
          PROVE  g[k] \in InHeap(h) /\ h[k] \in InHeap(g)
      <3>1. g[k] \in InHeap(h)
        BY <1>3 DEF InHeap
      <3>2. \E l \in 1..Len(g) : h[k] = g[l]
        <4>1. CASE k = i
          BY <1>2, <1>3, <4>1
        <4>2. CASE k = j
          BY <1>2, <1>3, <4>2
        <4>3. CASE k # i /\ k # j
          BY <1>2, <1>3, <4>3
        <4> QED
          BY <4>1, <4>2, <4>3
      <3> QED
        BY <3>1, <3>2 DEF InHeap
    <2> QED
      BY <1>2, <2>1 DEF InHeap
  <1>5. ASSUME Distinct(h)
        PROVE  Distinct(g)
    <2> SUFFICES ASSUME NEW k \in 1..Len(h), NEW l \in 1..Len(h), g[k].element = g[l].element
                 PROVE  k = l
      BY <1>2 DEF Distinct
    <2>1. PICK x \in 1..Len(h) : g[k] = h[x] /\ x = IF k = i THEN j ELSE IF k = j THEN i ELSE k
      BY <1>3
    <2>2. PICK y \in 1..Len(h) : g[l] = h[y] /\ y = IF l = i THEN j ELSE IF l = j THEN i ELSE l
      BY <1>3
    <2>3. x = y
      BY <1>5, <2>1, <2>2 DEF Distinct
    <2> QED
      BY <2>1, <2>2, <2>3
  <1> QED
    BY <1>1, <1>2, <1>3, <1>4, <1>5 DEF Swapped

(* Every entry is behind its parent, except the one that _pq_swim works    *)
(* on, or except the children of the one that _pq_sink works on; both are  *)
(* behind the parent of that one.                                          *)
SwimOrder(h, i) == \A j \in 2..Len(h) : j # i => Key(h, Above(j)) <= Key(h, j)
SinkOrder(h, i) == \A j \in 2..Len(h) : Above(j) # i => Key(h, Above(j)) <= Key(h, j)
HeapOrder(h) == \A j \in 2..Len(h) : Key(h, Above(j)) <= Key(h, j)
ChildrenBehind(h, i) ==
    \A j \in 2..Len(h) : Above(j) = i /\ i > 1 => Key(h, Above(i)) <= Key(h, j)

LEMMA SwimTurn ==
    ASSUME NEW h \in Seq(SleepNode), NEW i \in 2..Len(h), SwimOrder(h, i), ChildrenBehind(h, i),
           ~(Key(h, Above(i)) <= Key(h, i)), NEW g, g = Swap(h, Above(i), i)
    PROVE  SwimOrder(g, Above(i)) /\ ChildrenBehind(g, Above(i))
  <1>1. PICK q \in 1..Len(h) : q = Above(i) /\ q < i
    BY AboveIs
  <1>2. g \in Seq(SleepNode) /\ Len(g) = Len(h) /\ g[q] = h[i] /\ g[i] = h[q]
        /\ \A k \in 1..Len(h) : k # q /\ k # i => g[k] = h[k]
    <2>1. i \in 1..Len(h) /\ q # i /\ g = Swap(h, q, i)
      BY <1>1
    <2>2. Swapped(g, h, q, i)
      BY <2>1, SwapIs, Zenon
    <2> QED
      BY <2>1, <2>2 DEF Swapped
  <1>3. Key(g, q) = Key(h, i) /\ Key(g, i) = Key(h, q)
        /\ \A k \in 1..Len(h) : k # q /\ k # i => Key(g, k) = Key(h, k)
    BY <1>2 DEF Key
  <1>4. \A k \in 1..Len(h) : Key(h, k) \in Nat
    BY KeyTyped
  <1>5. \A j \in 2..Len(h) : Above(j) \in 1..Len(h) /\ Above(j) < j
    BY AboveIs
  <1>6. Key(h, i) < Key(h, q)
    BY <1>1, <1>4
  <1>7. \A j \in 2..Len(h) : j # i => Key(h, Above(j)) <= Key(h, j)
    BY DEF SwimOrder
  <1>8. \A j \in 2..Len(h) : Above(j) = i => Key(h, q) <= Key(h, j)
    BY <1>1 DEF ChildrenBehind
  <1>9. ASSUME NEW j \in 2..Len(h), j # q
        PROVE  Key(g, Above(j)) <= Key(g, j)
    <2>1. CASE j = i
      BY <1>1, <1>3, <1>4, <1>6, <2>1
    <2>2. CASE j # i /\ Above(j) = q
      <3>1. Key(g, j) = Key(h, j) /\ Key(h, q) <= Key(h, j)
        BY <1>3, <1>7, <1>9, <2>2
      <3> QED
        BY <1>3, <1>4, <1>6, <2>2, <3>1
    <2>3. CASE j # i /\ Above(j) = i
      BY <1>3, <1>8, <1>9, <2>3
    <2>4. CASE j # i /\ Above(j) # q /\ Above(j) # i
      BY <1>3, <1>5, <1>7, <1>9, <2>4
    <2> QED
      BY <2>1, <2>2, <2>3, <2>4
  <1>10. ASSUME NEW j \in 2..Len(h), Above(j) = q, q > 1
         PROVE  Key(g, Above(q)) <= Key(g, j)
    <2>1. q \in 2..Len(h) /\ Above(q) \in 1..Len(h) /\ Above(q) # q /\ Above(q) # i
      BY <1>1, <1>5, <1>10
    <2>2. Key(g, Above(q)) = Key(h, Above(q)) /\ Key(h, Above(q)) <= Key(h, q)
      BY <1>1, <1>3, <1>7, <2>1
    <2>3. CASE j = i
      BY <1>3, <2>2, <2>3
    <2>4. CASE j # i
      <3>1. j # q
        BY <1>5, <1>10
      <3>2. Key(g, j) = Key(h, j) /\ Key(h, q) <= Key(h, j)
        BY <1>3, <1>7, <1>10, <2>4, <3>1
      <3> QED
        BY <1>4, <2>1, <2>2, <3>2
    <2> QED
      BY <2>3, <2>4
  <1> QED
    BY <1>1, <1>2, <1>9, <1>10 DEF SwimOrder, ChildrenBehind

LEMMA SwimEnds ==
    ASSUME NEW h \in Seq(SleepNode), NEW i \in 1..Len(h), SwimOrder(h, i),
           i = 1 \/ Key(h, Above(i)) <= Key(h, i)
    PROVE  HeapOrder(h)
  BY DEF SwimOrder, HeapOrder

(* The child that _pq_sink goes on with. *)
LEMMA SmallestIs ==
    ASSUME NEW h \in Seq(SleepNode), NEW i \in 1..Len(h), NEW s, s = SmallestOf(h, i)
    PROVE  \/ s = i /\ \A j \in 2..Len(h) : Above(j) = i => Key(h, i) <= Key(h, j)
           \/ /\ s \in 2..Len(h) /\ Above(s) = i /\ Key(h, s) < Key(h, i) /\ s # i
              /\ \A j \in 2..Len(h) : Above(j) = i => Key(h, s) <= Key(h, j)
  <1> DEFINE below == {j \in {2 * i, 2 * i + 1} : j <= Len(h) /\ Key(h, j) < Key(h, i)}
             least == {j \in below : \A k \in below : Key(h, j) <= Key(h, k)}
  <1>1. s = IF below = {} THEN i ELSE Min(least)
    BY DEF SmallestOf
  <1>2. \A k \in 1..Len(h) : Key(h, k) \in Nat
    BY KeyTyped
  <1>3. \A j \in 2..Len(h) : Above(j) = i => j \in {2 * i, 2 * i + 1}
    BY AboveIs
  <1>4. \A j \in below : j \in 2..Len(h) /\ Above(j) = i /\ Key(h, j) < Key(h, i) /\ j # i
    <2> SUFFICES ASSUME NEW j \in below
                 PROVE  j \in 2..Len(h) /\ Above(j) = i /\ Key(h, j) < Key(h, i) /\ j # i
      OBVIOUS
    <2>1. j \in {2 * i, 2 * i + 1} /\ j <= Len(h) /\ Key(h, j) < Key(h, i)
      OBVIOUS
    <2>2. i \in Nat /\ i >= 1 /\ Len(h) \in Nat
      OBVIOUS
    <2>3. Above(j) = i
      BY <2>1, <2>2, BelowIs
    <2>4. j \in 2..Len(h) /\ j # i
      BY <2>1, <2>2
    <2> QED
      BY <2>1, <2>3, <2>4
  <1>5. ASSUME NEW j \in 2..Len(h), Above(j) = i, j \notin below
        PROVE  Key(h, i) <= Key(h, j)
    BY <1>2, <1>3, <1>5
  <1>6. CASE below = {}
    BY <1>1, <1>5, <1>6
  <1>7. CASE below # {}
    <2>1. least # {}
      <3>1. CASE 2 * i \notin below
        <4>1. below = {2 * i + 1}
          BY <1>7, <3>1
        <4>2. 2 * i + 1 \in below /\ 2 * i + 1 \in 1..Len(h)
          BY <1>4, <4>1
        <4>3. Key(h, 2 * i + 1) <= Key(h, 2 * i + 1)
          BY <1>2, <4>2
        <4>4. 2 * i + 1 \in least
          BY <4>1, <4>2, <4>3
        <4> QED
          BY <4>4
      <3>2. CASE 2 * i + 1 \notin below
        <4>1. below = {2 * i}
          BY <1>7, <3>2
        <4>2. 2 * i \in below /\ 2 * i \in 1..Len(h)
          BY <1>4, <4>1
        <4>3. Key(h, 2 * i) <= Key(h, 2 * i)
          BY <1>2, <4>2
        <4>4. 2 * i \in least
          BY <4>1, <4>2, <4>3
        <4> QED
          BY <4>4
      <3>3. CASE 2 * i \in below /\ 2 * i + 1 \in below
        <4>1. below = {2 * i, 2 * i + 1} /\ Key(h, 2 * i) \in Nat /\ Key(h, 2 * i + 1) \in Nat
          BY <1>2, <1>4, <3>3
        <4>2. 2 * i \in least \/ 2 * i + 1 \in least
          BY <4>1
        <4> QED
          BY <4>2
      <3> QED
        BY <3>1, <3>2, <3>3
    <2>2. least \in SUBSET Nat
      BY <1>4
    <2>3. s \in least
      <3>1. Min(least) \in least
        BY <2>1, <2>2, MinIsMember
      <3> QED
        BY <1>1, <1>7, <3>1
    <2>4. s \in below /\ \A k \in below : Key(h, s) <= Key(h, k)
      BY <2>3
    <2>5. s \in 2..Len(h) /\ Above(s) = i /\ Key(h, s) < Key(h, i) /\ s # i
      BY <1>4, <2>4
    <2>6. ASSUME NEW j \in 2..Len(h), Above(j) = i
          PROVE  Key(h, s) <= Key(h, j)
      <3>1. CASE j \in below
        BY <2>4, <3>1
      <3>2. CASE j \notin below
        <4>1. Key(h, i) <= Key(h, j)
          BY <1>5, <2>6, <3>2
        <4>2. Key(h, i) \in Nat /\ Key(h, j) \in Nat /\ Key(h, s) \in Nat
          BY <1>2, <2>5
        <4> QED
          BY <2>5, <4>1, <4>2
      <3> QED
        BY <3>1, <3>2
    <2> QED
      BY <2>5, <2>6
  <1> QED
    BY <1>6, <1>7

LEMMA SinkTurn ==
    ASSUME NEW h \in Seq(SleepNode), NEW i \in 1..Len(h), SinkOrder(h, i), ChildrenBehind(h, i),
           NEW s \in 2..Len(h), Above(s) = i, Key(h, s) < Key(h, i), s # i,
           \A j \in 2..Len(h) : Above(j) = i => Key(h, s) <= Key(h, j),
           NEW g, g = Swap(h, i, s)
    PROVE  SinkOrder(g, s) /\ ChildrenBehind(g, s)
  <1>1. s \in 1..Len(h) /\ i < s
    BY AboveIs
  <1>2. g \in Seq(SleepNode) /\ Len(g) = Len(h) /\ g[i] = h[s] /\ g[s] = h[i]
        /\ \A k \in 1..Len(h) : k # i /\ k # s => g[k] = h[k]
    <2>1. Swapped(g, h, i, s)
      BY <1>1, SwapIs, Zenon
    <2> QED
      BY <1>1, <2>1 DEF Swapped
  <1>3. Key(g, i) = Key(h, s) /\ Key(g, s) = Key(h, i)
        /\ \A k \in 1..Len(h) : k # i /\ k # s => Key(g, k) = Key(h, k)
    BY <1>2 DEF Key
  <1>4. \A k \in 1..Len(h) : Key(h, k) \in Nat
    BY KeyTyped
  <1>5. \A j \in 2..Len(h) : Above(j) \in 1..Len(h) /\ Above(j) < j
    BY AboveIs
  <1>6. \A j \in 2..Len(h) : Above(j) # i => Key(h, Above(j)) <= Key(h, j)
    BY DEF SinkOrder
  <1>7. ASSUME NEW j \in 2..Len(h), Above(j) # s
        PROVE  Key(g, Above(j)) <= Key(g, j)
    <2>1. CASE j = s
      BY <1>1, <1>3, <1>4, <2>1
    <2>2. CASE j # s /\ Above(j) = i
      <3>1. j # i
        BY <1>5, <2>2
      <3>2. Key(g, j) = Key(h, j) /\ Key(h, s) <= Key(h, j)
        BY <1>3, <1>7, <2>2, <3>1
      <3> QED
        BY <1>3, <2>2, <3>2
    <2>3. CASE j = i
      <3>1. Above(i) \in 1..Len(h) /\ Above(i) # i /\ Above(i) # s /\ i > 1
        BY <1>1, <1>5, <2>3
      <3>2. Key(h, Above(i)) <= Key(h, s)
        BY <3>1 DEF ChildrenBehind
      <3>3. Key(g, Above(i)) = Key(h, Above(i))
        BY <1>3, <3>1
      <3> QED
        BY <1>3, <2>3, <3>2, <3>3
    <2>4. CASE j # s /\ j # i /\ Above(j) # i
      BY <1>3, <1>5, <1>6, <1>7, <2>4
    <2> QED
      BY <2>1, <2>2, <2>3, <2>4
  <1>8. ASSUME NEW j \in 2..Len(h), Above(j) = s
        PROVE  Key(g, Above(s)) <= Key(g, j)
    <2>1. j # s /\ j # i
      BY <1>1, <1>5, <1>8
    <2>2. Key(g, j) = Key(h, j) /\ Key(h, s) <= Key(h, j)
      BY <1>3, <1>6, <1>8, <2>1
    <2> QED
      BY <1>3, <2>2
  <1> QED
    BY <1>2, <1>7, <1>8 DEF SinkOrder, ChildrenBehind

(* In a heap nothing is before the root. *)
LEMMA RootIsFirst ==
    ASSUME NEW h \in Seq(SleepNode), HeapOrder(h), NEW i \in 1..Len(h)
    PROVE  Key(h, 1) <= Key(h, i)
  <1> DEFINE S == {j \in 1..Len(h) : Key(h, j) < Key(h, 1)}
  <1>1. \A k \in 1..Len(h) : Key(h, k) \in Nat
    BY KeyTyped
  <1>2. 1 \in 1..Len(h)
    OBVIOUS
  <1>3. S = {}
    <2>1. SUFFICES ASSUME S # {} PROVE FALSE
      OBVIOUS
    <2>2. S \in SUBSET Nat
      OBVIOUS
    <2>3. PICK x \in S : \A y \in S : x <= y
      BY <2>1, <2>2, HasLeast
    <2>4. x \in 2..Len(h) /\ Key(h, x) < Key(h, 1)
      BY <1>1, <1>2
    <2>5. Above(x) \in 1..Len(h) /\ Above(x) < x
      BY <2>4, AboveIs
    <2>6. Key(h, Above(x)) <= Key(h, x)
      BY <2>4 DEF HeapOrder
    <2>7. Above(x) \in S
      BY <1>1, <1>2, <2>4, <2>5, <2>6
    <2> QED
      BY <2>3, <2>4, <2>5, <2>7
  <1> QED
    BY <1>1, <1>2, <1>3

(* pq_add up to _pq_swim. *)
LEMMA AddKeeps ==
    ASSUME NEW h \in Seq(SleepNode), NEW d \in SleepNode, Distinct(h), HeapOrder(h),
           \A e \in InHeap(h) : e.element # d.element, NEW g, g = Append(h, d)
    PROVE  /\ g \in Seq(SleepNode) /\ Len(g) = Len(h) + 1 /\ Distinct(g)
           /\ InHeap(g) = InHeap(h) \cup {d}
           /\ SwimOrder(g, Len(h) + 1) /\ ChildrenBehind(g, Len(h) + 1)
  <1>1. PICK n \in Nat : n = Len(h)
    OBVIOUS
  <1>2. /\ g \in Seq(SleepNode) /\ Len(g) = n + 1 /\ g[n + 1] = d
        /\ \A k \in 1..n : g[k] = h[k]
    BY <1>1
  <1>3. \A k \in 1..n + 1 : k \in 1..n \/ k = n + 1
    OBVIOUS
  <1>4. \A k \in 1..n : h[k] \in InHeap(h)
    BY <1>1 DEF InHeap
  <1>5. Distinct(g)
    <2> SUFFICES ASSUME NEW i \in 1..n + 1, NEW j \in 1..n + 1, g[i].element = g[j].element
                 PROVE  i = j
      BY <1>2 DEF Distinct
    <2>1. CASE i \in 1..n /\ j \in 1..n
      BY <1>1, <1>2, <2>1 DEF Distinct
    <2>2. CASE i \in 1..n /\ j = n + 1
      <3>1. h[i].element = d.element
        BY <1>2, <2>2
      <3> QED
        BY <1>4, <2>2, <3>1
    <2>3. CASE j \in 1..n /\ i = n + 1
      <3>1. h[j].element = d.element
        BY <1>2, <2>3
      <3> QED
        BY <1>4, <2>3, <3>1
    <2> QED
      BY <1>3, <2>1, <2>2, <2>3
  <1>6. InHeap(g) = InHeap(h) \cup {d}
    <2>1. ASSUME NEW k \in 1..n + 1
          PROVE  g[k] \in InHeap(h) \cup {d}
      BY <1>2, <1>3, <1>4
    <2>2. d \in InHeap(g) /\ \A k \in 1..n : h[k] \in InHeap(g)
      <3>1. n + 1 \in 1..n + 1 /\ \A k \in 1..n : k \in 1..n + 1
        OBVIOUS
      <3> QED
        BY <1>2, <3>1 DEF InHeap
    <2> QED
      BY <1>1, <1>2, <2>1, <2>2 DEF InHeap
  <1>7. \A j \in 2..n + 1 : Above(j) \in 1..n /\ Above(j) # n + 1
    BY AboveIs
  <1>8. \A j \in 2..n : Key(h, Above(j)) <= Key(h, j)
    BY <1>1 DEF HeapOrder
  <1>9. \A k \in 1..n : Key(g, k) = Key(h, k)
    BY <1>2 DEF Key
  <1>10. ASSUME NEW j \in 2..n + 1, j # n + 1
         PROVE  Key(g, Above(j)) <= Key(g, j)
    <2>1. j \in 2..n /\ j \in 1..n
      BY <1>10
    <2> QED
      BY <1>7, <1>8, <1>9, <2>1
  <1>11. SwimOrder(g, n + 1) /\ ChildrenBehind(g, n + 1)
    BY <1>2, <1>7, <1>10 DEF SwimOrder, ChildrenBehind
  <1> QED
    BY <1>1, <1>2, <1>5, <1>6, <1>11

(* pq_pop up to _pq_sink. *)
LEMMA PopKeeps ==
    ASSUME NEW h \in Seq(SleepNode), h # <<>>, Distinct(h), HeapOrder(h),
           NEW g, g = SubSeq(Swap(h, 1, Len(h)), 1, Len(h) - 1)
    PROVE  /\ g \in Seq(SleepNode) /\ Distinct(g) /\ InHeap(g) = InHeap(h) \ {h[1]}
           /\ SinkOrder(g, 1) /\ ChildrenBehind(g, 1)
  <1>1. PICK n \in Nat : n = Len(h) /\ n >= 1 /\ n - 1 \in Nat /\ 1 \in 1..n /\ n \in 1..n
    BY EmptySeq
  <1>2. PICK w : w = Swap(h, 1, n)
    OBVIOUS
  <1>3. Swapped(w, h, 1, n)
    BY <1>1, <1>2, SwapIs, Zenon
  <1>4. w \in Seq(SleepNode) /\ Len(w) = n /\ \A k \in 1..n : w[k] = IF k = 1 THEN h[n] ELSE
                                                           IF k = n THEN h[1] ELSE h[k]
    BY <1>1, <1>3, Zenon DEF Swapped
  <1>5. g \in Seq(SleepNode) /\ Len(g) = n - 1 /\ \A k \in 1..n - 1 : g[k] = w[k]
    <2>1. g = SubSeq(w, 1, n - 1)
      BY <1>1, <1>2
    <2>2. \A k \in 1..n - 1 : w[k] \in SleepNode
      <3>1. \A k \in 1..n - 1 : k \in 1..Len(w)
        BY <1>1, <1>4
      <3> QED
        BY <1>4, <3>1, ElementOfSeq
    <2>3. /\ SubSeq(w, 1, n - 1) \in Seq(SleepNode)
          /\ Len(SubSeq(w, 1, n - 1)) = IF 1 <= n - 1 THEN (n - 1) - 1 + 1 ELSE 0
          /\ \A k \in 1..(n - 1) - 1 + 1 : SubSeq(w, 1, n - 1)[k] = w[1 + k - 1]
      BY <1>1, <2>2, SubSeqProperties
    <2>4. \A k \in 1..n - 1 : k \in 1..(n - 1) - 1 + 1 /\ 1 + k - 1 = k
      BY <1>1
    <2> QED
      BY <1>1, <2>1, <2>3, <2>4
  <1>6. \A k \in 1..n - 1 : k \in 1..n /\ k # n
    BY <1>1
  <1>7. \A k \in 1..n - 1 : g[k] = IF k = 1 THEN h[n] ELSE h[k]
    BY <1>4, <1>5, <1>6
  <1>8. \A i, j \in 1..n : h[i].element = h[j].element => i = j
    BY <1>1 DEF Distinct
  <1>9. Distinct(g)
    <2> SUFFICES ASSUME NEW i \in 1..n - 1, NEW j \in 1..n - 1, g[i].element = g[j].element
                 PROVE  i = j
      BY <1>5 DEF Distinct
    <2>1. PICK x \in 1..n : g[i] = h[x] /\ x = IF i = 1 THEN n ELSE i
      BY <1>1, <1>6, <1>7
    <2>2. PICK y \in 1..n : g[j] = h[y] /\ y = IF j = 1 THEN n ELSE j
      BY <1>1, <1>6, <1>7
    <2>3. x = y
      BY <1>8, <2>1, <2>2
    <2> QED
      BY <1>6, <2>1, <2>2, <2>3
  <1>10. InHeap(g) = InHeap(h) \ {h[1]}
    <2>1. ASSUME NEW k \in 1..n - 1
          PROVE  g[k] \in InHeap(h) \ {h[1]}
      <3>1. PICK x \in 1..n : g[k] = h[x] /\ x # 1
        BY <1>1, <1>6, <1>7
      <3>2. h[x] # h[1]
        BY <1>1, <1>8, <3>1
      <3> QED
        BY <1>1, <3>1, <3>2 DEF InHeap
    <2>2. ASSUME NEW k \in 1..n, h[k] # h[1]
          PROVE  h[k] \in InHeap(g)
      <3>1. PICK y \in 1..n - 1 : y = IF k = n THEN 1 ELSE k
        BY <1>1, <2>2
      <3>2. g[y] = h[k]
        BY <1>1, <1>6, <1>7, <2>2, <3>1
      <3> QED
        BY <1>5, <3>1, <3>2 DEF InHeap
    <2>3. ASSUME NEW d \in InHeap(g)
          PROVE  d \in InHeap(h) \ {h[1]}
      <3>1. PICK k \in 1..n - 1 : d = g[k]
        BY <1>5 DEF InHeap
      <3> QED
        BY <2>1, <3>1, Zenon
    <2>4. ASSUME NEW d \in InHeap(h) \ {h[1]}
          PROVE  d \in InHeap(g)
      <3>1. PICK k \in 1..n : d = h[k] /\ d # h[1]
        BY <1>1 DEF InHeap
      <3> QED
        BY <2>2, <3>1, Zenon
    <2> QED
      BY <2>3, <2>4, Zenon
  <1>11. ASSUME NEW j \in 2..n - 1, Above(j) # 1
         PROVE  Key(g, Above(j)) <= Key(g, j)
    <2>1. Above(j) \in 1..n - 1 /\ j \in 1..n - 1 /\ j # 1 /\ j \in 2..n
      BY <1>1, AboveIs
    <2>2. g[Above(j)] = h[Above(j)] /\ g[j] = h[j]
      BY <1>7, <1>11, <2>1
    <2>3. Key(h, Above(j)) <= Key(h, j)
      BY <1>1, <2>1 DEF HeapOrder
    <2> QED
      BY <2>2, <2>3 DEF Key
  <1> QED
    BY <1>5, <1>9, <1>10, <1>11 DEF SinkOrder, ChildrenBehind

(* A sequence of nodes is known by its length and its entries. *)
LEMMA SameNodes ==
    ASSUME NEW g \in Seq(SleepNode), NEW h \in Seq(SleepNode), Len(g) = Len(h),
           \A i \in 1..Len(g) : g[i] = h[i]
    PROVE  g = h
  BY SeqEqual

LEMMA NodesInSeq ==
    ASSUME NEW n \in Nat, NEW g \in [1..n -> SleepNode]
    PROVE  g \in Seq(SleepNode) /\ Len(g) = n
  OBVIOUS

(* The invariant, as long as nothing came in where a call is not prepared: *)
(* the heap is whole but for one place in a loop, a call that was          *)
(* interrupted found it whole and comes back to it whole, and its process  *)
(* is not in the heap before it has stored its node.  The alarm is never   *)
(* before the earliest deadline, except while the handler runs.            *)
Fresh(node) ==
    /\ node \in SleepNode /\ node.element <= requests
    /\ \A d \in asleep : d.element # node.element

Due == alarm # Disarmed => alarm \in Nat /\ \E d \in asleep : d.priority <= alarm

AlarmRight == alarm = IF items = 0 THEN Disarmed ELSE Key(pq, 1)

Adding(f) == f.op \in {"test", "store", "count"}

Interrupted(e) == e.op \in {"test", "store", "peek"} /\ (Adding(e) => Fresh(e.node))

Working(f) ==
    /\ f.op \in {"test", "store", "count", "swim", "peek", "prime", "sink"}
    /\ f.op # "sink" => Due
    /\ Adding(f) => Fresh(f.node)
    /\ f.op \notin {"swim", "sink"} => HeapOrder(pq)
    /\ f.op = "count" => items < Slots /\ nodes[items + 1] = f.node
    /\ f.op = "swim" => f.idx \in 1..items /\ SwimOrder(pq, f.idx) /\ ChildrenBehind(pq, f.idx)
    /\ f.op = "prime" => items > 0 /\ f.idx = Key(pq, 1)
    /\ f.op = "sink" => /\ f.irqs = FALSE
                        /\ \/ items = 0 /\ f.idx = 1
                           \/ /\ f.idx \in 1..items
                              /\ SinkOrder(pq, f.idx) /\ ChildrenBehind(pq, f.idx)

(* The calls below the running one, f. *)
Below(es, f) ==
    \/ es = <<>>
    \/ \E e : /\ es = <<e>> /\ Interrupted(e) /\ f.irqs = FALSE
              /\ Adding(e) /\ Adding(f) => e.node.element # f.node.element

SleepTypes ==
    /\ nodes \in [1..Slots + 1 -> SleepNode] /\ items \in 0..Slots
    /\ now \in Nat /\ requests \in Nat

QueueHolds ==
    /\ pq \in Seq(SleepNode) /\ Distinct(pq) /\ InHeap(pq) = asleep
    /\ \A d \in asleep : d.element <= requests

StackIs ==
    \/ calls = <<>> /\ HeapOrder(pq)
    \/ \E es, f : calls = Append(es, f) /\ Below(es, f) /\ Working(f)

SettledAlarm ==
    (calls = <<>> \/ \E e : calls = <<e>> /\ e.op = "test") => AlarmRight

SleepInv ==
    /\ intruded \in BOOLEAN
    /\ ~intruded => SleepTypes /\ QueueHolds /\ StackIs /\ SettledAlarm

LEMMA PqIs ==
    ASSUME SleepTypes, QueueHolds
    PROVE  Len(pq) = items /\ \A i \in 1..items : pq[i] = nodes[i] /\ nodes[i] \in SleepNode
  <1>1. DOMAIN pq = 1..items /\ \A i \in 1..items : pq[i] = nodes[i]
    BY DEF pq
  <1>2. items \in Nat
    BY SleepQueueAssumption DEF SleepTypes
  <1>3. Len(pq) = items
    BY <1>1, <1>2 DEF QueueHolds
  <1>4. \A i \in 1..items : i \in 1..Slots + 1
    BY <1>2, SleepQueueAssumption DEF SleepTypes
  <1> QED
    BY <1>1, <1>3, <1>4 DEF SleepTypes

LEMMA SleepInvInit == SleepInit => SleepInv
  <1> SUFFICES ASSUME SleepInit PROVE SleepInv
    OBVIOUS
  <1>1. /\ nodes = [i \in 1..Slots + 1 |-> NullNode] /\ items = 0 /\ calls = <<>>
        /\ now = 0 /\ requests = 0 /\ alarm = Disarmed /\ asleep = {} /\ intruded = FALSE
    BY DEF SleepInit
  <1>2. NullNode \in SleepNode
    BY DEF NullNode, SleepNode
  <1>3. SleepTypes
    BY <1>1, <1>2, SleepQueueAssumption DEF SleepTypes
  <1>4. pq \in Seq(SleepNode) /\ Len(pq) = 0
    <2>1. pq \in [1..0 -> SleepNode]
      BY <1>1 DEF pq
    <2> QED
      BY <2>1, NodesInSeq
  <1>5. Distinct(pq) /\ InHeap(pq) = {} /\ HeapOrder(pq)
    BY <1>4 DEF Distinct, InHeap, HeapOrder
  <1>6. QueueHolds /\ StackIs /\ SettledAlarm
    BY <1>1, <1>4, <1>5 DEF QueueHolds, StackIs, SettledAlarm, AlarmRight
  <1> QED
    BY <1>1, <1>3, <1>6 DEF SleepInv

LEMMA ShortSeqs ==
    ASSUME NEW S, NEW s \in Seq(S), NEW t \in Seq(S), Len(s) = Len(t), Len(s) \in {1, 2},
           s[1] = t[1], Len(s) = 2 => s[2] = t[2]
    PROVE  s = t
  <1>1. \A i \in 1..Len(s) : s[i] = t[i]
    <2>1. \A i \in 1..Len(s) : i = 1 \/ (i = 2 /\ Len(s) = 2)
      OBVIOUS
    <2> QED
      BY <2>1
  <1> QED
    BY <1>1, SeqEqual

(* The stack of calls as a frame on top of at most one other. *)
LEMMA StackSteps ==
    ASSUME NEW es, NEW f, es = <<>> \/ \E e : es = <<e>>
    PROVE  /\ Append(es, f) # <<>> /\ Append(es, f)[Len(Append(es, f))] = f
           /\ \A g : [Append(es, f) EXCEPT ![Len(Append(es, f))] = g] = Append(es, g)
           /\ Front(Append(es, f)) = es
           /\ es = <<>> => Append(es, f) = <<f>> /\ Len(Append(es, f)) = 1
           /\ es # <<>> => Len(Append(es, f)) = 2 /\ \A g : Append(es, f) # <<g>>
  <1>1. CASE es = <<>>
    <2>1. Append(es, f) = <<f>>
      BY <1>1
    <2>2. \A g : [<<f>> EXCEPT ![1] = g] = <<g>>
      OBVIOUS
    <2>3. Front(<<f>>) = <<>>
      BY DEF Front
    <2> QED
      BY <1>1, <2>1, <2>2, <2>3
  <1>2. CASE \E e : es = <<e>>
    <2>1. PICK e : es = <<e>>
      BY <1>2
    <2>2. PICK S : S = {e, f}
      OBVIOUS
    <2>3. <<e>> \in Seq(S) /\ Len(<<e>>) = 1 /\ <<e>>[1] = e /\ e \in S /\ f \in S
      BY <2>2
    <2>4. /\ Append(<<e>>, f) \in Seq(S) /\ Len(Append(<<e>>, f)) = 2
          /\ Append(<<e>>, f)[1] = e /\ Append(<<e>>, f)[2] = f
      BY <2>3
    <2>5. <<e, f>> \in Seq(S) /\ Len(<<e, f>>) = 2 /\ <<e, f>>[1] = e /\ <<e, f>>[2] = f
      BY <2>2
    <2>6. Append(<<e>>, f) = <<e, f>>
      BY <2>4, <2>5, ShortSeqs
    <2>7. SubSeq(<<e, f>>, 1, 1) = <<e>>
      <3>1. SubSeq(<<e, f>>, 1, 1) \in Seq(S) /\ Len(SubSeq(<<e, f>>, 1, 1)) = 1
            /\ SubSeq(<<e, f>>, 1, 1)[1] = e
        BY <2>3, <2>5
      <3> QED
        BY <2>3, <3>1, ShortSeqs
    <2>8. Front(<<e, f>>) = <<e>>
      BY <2>5, <2>7 DEF Front
    <2>9. \A g : [<<e, f>> EXCEPT ![2] = g] = <<e, g>>
      OBVIOUS
    <2>10. \A g : Append(<<e>>, g) = <<e, g>>
      <3> TAKE g
      <3>1. PICK G : G = {e, g}
        OBVIOUS
      <3>2. <<e>> \in Seq(G) /\ <<e, g>> \in Seq(G) /\ Len(<<e>>) = 1 /\ g \in G
        BY <3>1
      <3>3. /\ Append(<<e>>, g) \in Seq(G) /\ Len(Append(<<e>>, g)) = 2
            /\ Append(<<e>>, g)[1] = e /\ Append(<<e>>, g)[2] = g
        BY <3>2
      <3> QED
        BY <3>2, <3>3, ShortSeqs
    <2>11. \A g : <<e, f>> # <<g>>
      BY <2>5
    <2>12. es = <<e>> /\ es # <<>> /\ Append(es, f) = <<e, f>> /\ Len(Append(es, f)) = 2
      BY <2>1, <2>4, <2>6
    <2>13. <<e, f>> # <<>>
      BY <2>5
    <2>14. \A g : [Append(es, f) EXCEPT ![Len(Append(es, f))] = g] = Append(es, g)
      BY <2>9, <2>10, <2>12
    <2> QED
      BY <2>5, <2>8, <2>11, <2>12, <2>13, <2>14
  <1> QED
    BY <1>1, <1>2

LEMMA Running ==
    ASSUME StackIs, NEW op, Runs(op)
    PROVE  \E es, f : /\ calls = Append(es, f) /\ Below(es, f) /\ Working(f)
                      /\ f.op = op /\ Top = f /\ (es = <<>> \/ \E e : es = <<e>>)
  <1>1. PICK es, f : calls = Append(es, f) /\ Below(es, f) /\ Working(f)
    BY DEF StackIs, Runs
  <1>2. es = <<>> \/ \E e : es = <<e>>
    BY <1>1 DEF Below
  <1>3. Top = f
    BY <1>1, <1>2, StackSteps DEF Top
  <1> QED
    BY <1>1, <1>2, <1>3 DEF Runs

LEMMA Went ==
    ASSUME NEW es, NEW f, calls = Append(es, f), es = <<>> \/ \E e : es = <<e>>, Top = f,
           NEW op, NEW node, NEW idx, Goto(op, node, idx)
    PROVE  calls' = Append(es, Frame(op, node, idx, f.irqs))
  <1>1. PICK g : g = Frame(op, node, idx, f.irqs)
    OBVIOUS
  <1>2. calls' = [calls EXCEPT ![Len(calls)] = g]
    BY <1>1 DEF Goto
  <1>3. [Append(es, f) EXCEPT ![Len(Append(es, f))] = g] = Append(es, g)
    BY StackSteps
  <1> QED
    BY <1>1, <1>2, <1>3

LEMMA Left ==
    ASSUME NEW es, NEW f, calls = Append(es, f), es = <<>> \/ \E e : es = <<e>>, Leave
    PROVE  calls' = es
  BY StackSteps DEF Leave

(* What a step of the running call leaves of the calls below it. *)
LEMMA BelowKept ==
    ASSUME NEW es, NEW f, Below(es, f), NEW g, g.irqs = f.irqs,
           Adding(g) => Adding(f) /\ g.node = f.node, requests' = requests,
           asleep' = asleep \/ (Adding(f) /\ asleep' = asleep \cup {f.node})
    PROVE  Below(es, g)'
  <1>1. CASE es = <<>>
    BY <1>1 DEF Below
  <1>2. ASSUME NEW e, es = <<e>>, Interrupted(e), f.irqs = FALSE,
               Adding(e) /\ Adding(f) => e.node.element # f.node.element
        PROVE  Below(es, g)'
    <2>1. Adding(e) => Fresh(e.node)'
      BY <1>2 DEF Interrupted, Fresh
    <2>2. Interrupted(e)'
      BY <1>2, <2>1 DEF Interrupted, Adding
    <2>3. Adding(e) /\ Adding(g) => e.node.element # g.node.element
      BY <1>2
    <2> QED
      BY <1>2, <2>2, <2>3 DEF Below, Adding
  <1> QED
    BY <1>1, <1>2 DEF Below

LEMMA GoesOn ==
    ASSUME NEW es, NEW g, es = <<>> \/ \E e : es = <<e>>, calls' = Append(es, g),
           Below(es, g)', Working(g)', g.op # "test"
    PROVE  StackIs' /\ SettledAlarm'
  <1>1. calls' # <<>> /\ \A e : calls' = <<e>> => e = g
    <2>1. Append(es, g) # <<>>
      BY StackSteps
    <2>2. CASE es = <<>>
      <3>1. calls' = <<g>>
        BY <2>2, StackSteps
      <3> QED
        BY <2>1, <3>1
    <2>3. CASE es # <<>>
      BY <2>1, <2>3, StackSteps
    <2> QED
      BY <2>2, <2>3
  <1>2. StackIs'
    BY DEF StackIs
  <1>3. SettledAlarm'
    BY <1>1 DEF SettledAlarm
  <1> QED
    BY <1>2, <1>3

LEMMA FirstIsDue ==
    ASSUME NEW h \in Seq(SleepNode), Len(h) > 0
    PROVE  /\ 1 \in 1..Len(h) /\ Key(h, 1) \in Nat /\ h[1] \in InHeap(h) /\ h[1] \in SleepNode
           /\ h[1].priority = Key(h, 1)
  <1>1. 1 \in 1..Len(h)
    OBVIOUS
  <1>2. Key(h, 1) \in Nat /\ h[1] \in SleepNode
    BY <1>1, KeyTyped
  <1> QED
    BY <1>1, <1>2 DEF InHeap, Key

(* The return of a call: the timer is armed for the root. *)
LEMMA ComesBack ==
    ASSUME NEW es, NEW f, Below(es, f), calls' = es, requests' = requests, asleep' = asleep,
           NEW h \in Seq(SleepNode), pq' = h, HeapOrder(h), InHeap(h) = asleep, items' = Len(h),
           alarm' = IF items' = 0 THEN Disarmed ELSE Key(h, 1)
    PROVE  StackIs' /\ SettledAlarm'
  <1>1. AlarmRight'
    BY DEF AlarmRight
  <1>2. Due'
    <2>1. CASE Len(h) = 0
      BY <2>1 DEF Due
    <2>2. CASE Len(h) > 0
      <3>1. Key(h, 1) \in Nat /\ h[1] \in asleep /\ h[1].priority = Key(h, 1)
        BY <2>2, FirstIsDue
      <3>2. alarm' = Key(h, 1)
        BY <2>2
      <3>3. \E d \in asleep' : d.priority <= alarm'
        BY <3>1, <3>2
      <3> QED
        BY <3>1, <3>2, <3>3 DEF Due
    <2> QED
      BY <2>1, <2>2
  <1>3. SettledAlarm'
    BY <1>1 DEF SettledAlarm
  <1>4. CASE es = <<>>
    BY <1>3, <1>4 DEF StackIs
  <1>5. ASSUME NEW e, es = <<e>>, Interrupted(e)
        PROVE  StackIs'
    <2>1. Adding(e) => Fresh(e.node)'
      BY <1>5 DEF Interrupted, Fresh
    <2>2. Working(e)'
      BY <1>2, <1>5, <2>1 DEF Interrupted, Working, Adding
    <2>3. Below(<<>>, e)'
      BY DEF Below
    <2>4. calls' = Append(<<>>, e)
      BY <1>5
    <2> QED
      BY <2>2, <2>3, <2>4 DEF StackIs
  <1> QED
    BY <1>3, <1>4, <1>5 DEF Below

LEMMA QueueStays ==
    ASSUME SleepTypes, QueueHolds, UNCHANGED <<pqVars, requests, asleep>>, now' \in Nat
    PROVE  SleepTypes' /\ QueueHolds' /\ pq' = pq
  <1>1. pq' = pq
    BY DEF pq, pqVars
  <1>2. SleepTypes'
    BY DEF SleepTypes, pqVars
  <1> QED
    BY <1>1, <1>2 DEF QueueHolds

SleepersInv == SleepTypes /\ QueueHolds /\ StackIs /\ SettledAlarm

LEMMA FrameIs ==
    ASSUME NEW op, NEW node, NEW idx, NEW irqs
    PROVE  /\ Frame(op, node, idx, irqs).op = op /\ Frame(op, node, idx, irqs).node = node
           /\ Frame(op, node, idx, irqs).idx = idx /\ Frame(op, node, idx, irqs).irqs = irqs
  BY DEF Frame

LEMMA SleepInvTest ==
    ASSUME SleepersInv, TestFull
    PROVE  SleepersInv'
  <1>1. PICK es, f : /\ calls = Append(es, f) /\ Below(es, f) /\ Working(f)
                     /\ f.op = "test" /\ Top = f /\ (es = <<>> \/ \E e : es = <<e>>)
    BY Running DEF TestFull, SleepersInv
  <1>2. SleepTypes' /\ QueueHolds' /\ pq' = pq
    BY QueueStays DEF SleepersInv, TestFull, SleepTypes
  <1>3. UNCHANGED <<pqVars, now, requests, alarm, asleep, intruded>>
    BY DEF TestFull
  <1>4. PICK op, node, idx : /\ op \in {"peek", "store"} /\ Goto(op, node, idx)
                             /\ op = "store" => node = f.node
    BY <1>1 DEF TestFull
  <1>5. PICK g : g = Frame(op, node, idx, f.irqs)
    OBVIOUS
  <1>6. g.op = op /\ g.node = node /\ g.irqs = f.irqs
    BY <1>5, FrameIs
  <1>7. calls' = Append(es, g)
    BY <1>1, <1>4, <1>5, Went
  <1>8. Below(es, g)'
    BY <1>1, <1>3, <1>4, <1>6, BelowKept DEF Adding
  <1>9. Due /\ HeapOrder(pq) /\ Fresh(f.node)
    BY <1>1 DEF Working, Adding
  <1>10. Due' /\ HeapOrder(pq)' /\ Fresh(f.node)'
    BY <1>2, <1>3, <1>9 DEF Due, Fresh
  <1>11. Working(g)'
    BY <1>4, <1>6, <1>10 DEF Working, Adding
  <1> QED
    BY <1>1, <1>2, <1>4, <1>6, <1>7, <1>8, <1>11, GoesOn DEF SleepersInv

LEMMA SleepInvStore ==
    ASSUME SleepersInv, StoreNode, ~intruded'
    PROVE  SleepersInv'
  <1>1. PICK es, f : /\ calls = Append(es, f) /\ Below(es, f) /\ Working(f)
                     /\ f.op = "store" /\ Top = f /\ (es = <<>> \/ \E e : es = <<e>>)
    BY Running DEF StoreNode, SleepersInv
  <1>2. SleepTypes /\ QueueHolds
    BY DEF SleepersInv
  <1>3. Due /\ HeapOrder(pq) /\ Fresh(f.node)
    BY <1>1 DEF Working, Adding
  <1>4. /\ nodes' = [nodes EXCEPT ![items + 1] = f.node] /\ items' = items /\ ~(items >= Slots)
        /\ now' = now /\ requests' = requests /\ alarm' = alarm /\ asleep' = asleep
        /\ Goto("count", f.node, 0)
    BY <1>1 DEF StoreNode
  <1>5. items \in Nat /\ items < Slots /\ items + 1 \in 1..Slots + 1
    BY <1>2, <1>4, SleepQueueAssumption DEF SleepTypes
  <1>6. SleepTypes' /\ nodes'[items + 1] = f.node
    BY <1>2, <1>3, <1>4, <1>5 DEF SleepTypes, Fresh
  <1>7. pq' = pq
    <2>1. \A i \in 1..items : nodes'[i] = nodes[i]
      <3>1. \A i \in 1..items : i \in 1..Slots + 1 /\ i # items + 1
        BY <1>5, SleepQueueAssumption
      <3> QED
        BY <1>2, <1>4, <3>1 DEF SleepTypes
    <2> QED
      BY <1>4, <2>1 DEF pq
  <1>8. QueueHolds'
    BY <1>2, <1>4, <1>7 DEF QueueHolds
  <1>9. PICK g : g = Frame("count", f.node, 0, f.irqs)
    OBVIOUS
  <1>10. g.op = "count" /\ g.node = f.node /\ g.irqs = f.irqs
    BY <1>9, FrameIs
  <1>11. calls' = Append(es, g)
    BY <1>1, <1>4, <1>9, Went
  <1>12. Below(es, g)'
    BY <1>1, <1>4, <1>10, BelowKept DEF Adding
  <1>13. Due' /\ HeapOrder(pq)' /\ Fresh(f.node)'
    BY <1>3, <1>4, <1>7 DEF Due, Fresh
  <1>14. Working(g)'
    BY <1>4, <1>5, <1>6, <1>10, <1>13 DEF Working, Adding
  <1> QED
    BY <1>1, <1>6, <1>8, <1>10, <1>11, <1>12, <1>14, GoesOn DEF SleepersInv

LEMMA SleepInvCount ==
    ASSUME SleepersInv, Count
    PROVE  SleepersInv'
  <1>1. PICK es, f : /\ calls = Append(es, f) /\ Below(es, f) /\ Working(f)
                     /\ f.op = "count" /\ Top = f /\ (es = <<>> \/ \E e : es = <<e>>)
    BY Running DEF Count, SleepersInv
  <1>2. SleepTypes /\ QueueHolds
    BY DEF SleepersInv
  <1>3. Due /\ HeapOrder(pq) /\ Fresh(f.node) /\ items < Slots /\ nodes[items + 1] = f.node
    BY <1>1 DEF Working, Adding
  <1>4. /\ nodes' = nodes /\ items' = items + 1 /\ asleep' = asleep \cup {f.node}
        /\ now' = now /\ requests' = requests /\ alarm' = alarm
        /\ Goto("swim", NullNode, items + 1)
    BY <1>1 DEF Count
  <1>5. items \in Nat /\ items' \in 0..Slots /\ SleepTypes'
    BY <1>2, <1>3, <1>4, SleepQueueAssumption DEF SleepTypes
  <1>6. Len(pq) = items /\ \A i \in 1..items : pq[i] = nodes[i]
    BY <1>2, PqIs
  <1>7. PICK h : h = Append(pq, f.node)
    OBVIOUS
  <1>8. /\ h \in Seq(SleepNode) /\ Len(h) = items + 1 /\ Distinct(h)
        /\ InHeap(h) = asleep \cup {f.node}
        /\ SwimOrder(h, items + 1) /\ ChildrenBehind(h, items + 1)
    <2>1. pq \in Seq(SleepNode) /\ Distinct(pq) /\ InHeap(pq) = asleep
      BY <1>2 DEF QueueHolds
    <2>2. f.node \in SleepNode /\ \A d \in InHeap(pq) : d.element # f.node.element
      BY <1>3, <2>1 DEF Fresh
    <2> QED
      BY <1>3, <1>6, <1>7, <2>1, <2>2, AddKeeps
  <1>9. pq' = h
    <2>1. \A i \in 1..items + 1 : nodes[i] \in SleepNode /\ nodes[i] = h[i]
      <3>1. \A i \in 1..items + 1 : i \in 1..items \/ i = items + 1
        BY <1>5
      <3>2. \A i \in 1..items : h[i] = pq[i]
        BY <1>2, <1>6, <1>7 DEF QueueHolds
      <3>3. h[items + 1] = f.node
        BY <1>2, <1>3, <1>6, <1>7 DEF QueueHolds
      <3>4. \A i \in 1..items + 1 : h[i] \in SleepNode
        BY <1>8, ElementOfSeq
      <3> QED
        BY <1>3, <1>6, <3>1, <3>2, <3>3, <3>4
    <2>2. pq' = [i \in 1..items + 1 |-> nodes[i]]
      BY <1>4 DEF pq
    <2>3. pq' \in Seq(SleepNode) /\ Len(pq') = items + 1
      BY <1>5, <2>1, <2>2, NodesInSeq
    <2> QED
      BY <1>8, <2>1, <2>2, <2>3, SameNodes
  <1>10. QueueHolds'
    <2>1. \A d \in asleep' : d.element <= requests'
      BY <1>2, <1>3, <1>4 DEF QueueHolds, Fresh
    <2> QED
      BY <1>4, <1>8, <1>9, <2>1 DEF QueueHolds
  <1>11. PICK g : g = Frame("swim", NullNode, items + 1, f.irqs)
    OBVIOUS
  <1>12. g.op = "swim" /\ g.idx = items + 1 /\ g.irqs = f.irqs
    BY <1>11, FrameIs
  <1>13. calls' = Append(es, g)
    BY <1>1, <1>4, <1>11, Went
  <1>14. Below(es, g)'
    BY <1>1, <1>4, <1>12, BelowKept DEF Adding
  <1>15. Due'
    BY <1>3, <1>4 DEF Due
  <1>16. SwimOrder(pq, g.idx)' /\ ChildrenBehind(pq, g.idx)' /\ g.idx \in 1..items'
    BY <1>4, <1>5, <1>8, <1>9, <1>12
  <1>17. Working(g)'
    BY <1>12, <1>15, <1>16 DEF Working, Adding
  <1> QED
    BY <1>1, <1>5, <1>10, <1>12, <1>13, <1>14, <1>17, GoesOn DEF SleepersInv

LEMMA SwapInNodes ==
    ASSUME SleepTypes, QueueHolds, NEW i \in 1..items, NEW j \in 1..items,
           nodes' = Swap(nodes, i, j)
    PROVE  /\ nodes' \in [1..Slots + 1 -> SleepNode] /\ Swapped(Swap(pq, i, j), pq, i, j)
           /\ \A k \in 1..items : nodes'[k] = Swap(pq, i, j)[k]
  <1>1. Len(pq) = items /\ (\A k \in 1..items : pq[k] = nodes[k]) /\ pq \in Seq(SleepNode)
    BY PqIs DEF QueueHolds
  <1>2. Swapped(Swap(pq, i, j), pq, i, j)
    BY <1>1, SwapIs
  <1>3. \A k \in 1..items : k \in 1..Slots + 1
    BY SleepQueueAssumption DEF SleepTypes
  <1>4. nodes' \in [1..Slots + 1 -> SleepNode]
        /\ \A k \in 1..items : nodes'[k] = IF k = i THEN nodes[j] ELSE IF k = j THEN nodes[i] ELSE nodes[k]
    BY <1>3 DEF SleepTypes, Swap
  <1> QED
    BY <1>1, <1>2, <1>4 DEF Swapped

LEMMA SwapInHeap ==
    ASSUME SleepTypes, QueueHolds, NEW i \in 1..items, NEW j \in 1..items,
           nodes' = Swap(nodes, i, j), items' = items
    PROVE  pq' = Swap(pq, i, j)
  <1>1. PICK h : h = Swap(pq, i, j)
    OBVIOUS
  <1>2. h \in Seq(SleepNode) /\ Len(h) = items /\ items \in Nat
    BY <1>1, SwapInNodes, PqIs, SleepQueueAssumption DEF Swapped, SleepTypes
  <1>3. \A k \in 1..items : nodes'[k] = h[k] /\ h[k] \in SleepNode
    BY <1>1, <1>2, SwapInNodes, ElementOfSeq
  <1>4. pq' = [k \in 1..items |-> nodes'[k]]
    BY DEF pq
  <1>5. pq' \in Seq(SleepNode) /\ Len(pq') = items
    BY <1>2, <1>3, <1>4, NodesInSeq
  <1> QED
    BY <1>1, <1>2, <1>3, <1>4, <1>5, SameNodes

LEMMA SleepInvSwim ==
    ASSUME SleepersInv, Swim
    PROVE  SleepersInv'
  <1>1. PICK es, f : /\ calls = Append(es, f) /\ Below(es, f) /\ Working(f)
                     /\ f.op = "swim" /\ Top = f /\ (es = <<>> \/ \E e : es = <<e>>)
    BY Running DEF Swim, SleepersInv
  <1>2. SleepTypes /\ QueueHolds
    BY DEF SleepersInv
  <1>3. PICK i \in 1..items : i = f.idx /\ SwimOrder(pq, i) /\ ChildrenBehind(pq, i)
    BY <1>1 DEF Working
  <1>4. /\ items' = items /\ now' = now /\ requests' = requests /\ alarm' = alarm
        /\ asleep' = asleep
    BY DEF Swim
  <1>5. /\ pq \in Seq(SleepNode) /\ Distinct(pq) /\ InHeap(pq) = asleep /\ Len(pq) = items
        /\ \A k \in 1..items : Key(pq, k) = Key(nodes, k)
    BY <1>2, PqIs DEF QueueHolds, Key
  <1>6. Due
    BY <1>1 DEF Working
  <1>7. Due'
    BY <1>4, <1>6 DEF Due
  <1>8. i \in Nat /\ i >= 1 /\ i \in 1..Len(pq)
    BY <1>3, <1>5
  <1>9. i # 1 => Above(i) \in 1..items /\ Key(pq, Above(i)) = Key(nodes, i \div 2)
    <2>1. i # 1 => Above(i) \in 1..items
      BY <1>8, <1>5, AboveIs
    <2> QED
      BY <1>5, <2>1 DEF Above
  <1>10. CASE i = 1 \/ Key(pq, Above(i)) <= Key(pq, i)
    <2>1. Goto("peek", NullNode, 0) /\ nodes' = nodes
      BY <1>1, <1>3, <1>5, <1>9, <1>10 DEF Swim
    <2>2. HeapOrder(pq)
      BY <1>3, <1>5, <1>8, <1>10, SwimEnds
    <2>3. SleepTypes' /\ QueueHolds' /\ pq' = pq
      BY <1>2, <1>4, <2>1, QueueStays DEF pqVars, SleepTypes
    <2>4. PICK g : g = Frame("peek", NullNode, 0, f.irqs)
      OBVIOUS
    <2>5. g.op = "peek" /\ g.irqs = f.irqs
      BY <2>4, FrameIs
    <2>6. calls' = Append(es, g)
      BY <1>1, <2>1, <2>4, Went
    <2>7. Below(es, g)'
      BY <1>1, <1>4, <2>5, BelowKept DEF Adding
    <2>8. Working(g)'
      BY <1>7, <2>2, <2>3, <2>5 DEF Working, Adding
    <2> QED
      BY <1>1, <2>3, <2>5, <2>6, <2>7, <2>8, GoesOn DEF SleepersInv
  <1>11. CASE ~(i = 1 \/ Key(pq, Above(i)) <= Key(pq, i))
    <2>1. PICK q \in 1..items : q = Above(i) /\ q = i \div 2
      BY <1>9, <1>11 DEF Above
    <2>2. nodes' = Swap(nodes, q, i) /\ Goto("swim", NullNode, q)
      BY <1>1, <1>3, <1>5, <1>9, <1>11, <2>1 DEF Swim
    <2>3. PICK h : h = Swap(pq, q, i)
      OBVIOUS
    <2>4. pq' = h
      BY <1>2, <1>4, <2>2, <2>3, SwapInHeap
    <2>5. Swapped(h, pq, q, i) /\ nodes' \in [1..Slots + 1 -> SleepNode]
      BY <1>2, <2>2, <2>3, SwapInNodes
    <2>6. h \in Seq(SleepNode) /\ Len(h) = items /\ InHeap(h) = asleep /\ Distinct(h)
      BY <1>5, <2>5 DEF Swapped
    <2>7. SleepTypes' /\ QueueHolds'
      BY <1>2, <1>4, <2>4, <2>5, <2>6 DEF SleepTypes, QueueHolds
    <2>8. SwimOrder(h, q) /\ ChildrenBehind(h, q)
      <3>1. i \in 2..Len(pq)
        BY <1>8, <1>11
      <3>2. h = Swap(pq, Above(i), i)
        BY <2>1, <2>3
      <3> QED
        BY <1>3, <1>5, <1>11, <2>1, <3>1, <3>2, SwimTurn
    <2>9. PICK g : g = Frame("swim", NullNode, q, f.irqs)
      OBVIOUS
    <2>10. g.op = "swim" /\ g.idx = q /\ g.irqs = f.irqs
      BY <2>9, FrameIs
    <2>11. calls' = Append(es, g)
      BY <1>1, <2>2, <2>9, Went
    <2>12. Below(es, g)'
      BY <1>1, <1>4, <2>10, BelowKept DEF Adding
    <2>13. SwimOrder(pq, g.idx)' /\ ChildrenBehind(pq, g.idx)' /\ g.idx \in 1..items'
      BY <1>4, <2>4, <2>8, <2>10
    <2>14. Working(g)'
      BY <1>7, <2>10, <2>13 DEF Working, Adding
    <2> QED
      BY <1>1, <2>7, <2>10, <2>11, <2>12, <2>14, GoesOn DEF SleepersInv
  <1> QED
    BY <1>10, <1>11

LEMMA SleepInvPeek ==
    ASSUME SleepersInv, Peek, ~intruded'
    PROVE  SleepersInv'
  <1>1. PICK es, f : /\ calls = Append(es, f) /\ Below(es, f) /\ Working(f)
                     /\ f.op = "peek" /\ Top = f /\ (es = <<>> \/ \E e : es = <<e>>)
    BY Running DEF Peek, SleepersInv
  <1>2. SleepTypes /\ QueueHolds
    BY DEF SleepersInv
  <1>3. UNCHANGED <<pqVars, now, requests, alarm, asleep>> /\ items # 0
        /\ Goto("prime", NullNode, nodes[1].priority)
    BY DEF Peek
  <1>4. SleepTypes' /\ QueueHolds' /\ pq' = pq
    BY <1>2, <1>3, QueueStays DEF SleepTypes
  <1>5. items > 0 /\ items' = items /\ nodes[1].priority = Key(pq, 1)
    <2>1. items > 0 /\ 1 \in 1..items
      BY <1>2, <1>3, SleepQueueAssumption DEF SleepTypes
    <2> QED
      BY <1>2, <1>3, <2>1, PqIs DEF Key, pqVars
  <1>6. PICK g : g = Frame("prime", NullNode, nodes[1].priority, f.irqs)
    OBVIOUS
  <1>7. g.op = "prime" /\ g.idx = Key(pq, 1) /\ g.irqs = f.irqs
    BY <1>5, <1>6, FrameIs
  <1>8. calls' = Append(es, g)
    BY <1>1, <1>3, <1>6, Went
  <1>9. Below(es, g)'
    BY <1>1, <1>3, <1>7, BelowKept DEF Adding
  <1>10. Due /\ HeapOrder(pq)
    BY <1>1 DEF Working
  <1>11. Due' /\ HeapOrder(pq)' /\ g.idx = Key(pq, 1)' /\ items' > 0
    BY <1>3, <1>4, <1>5, <1>7, <1>10 DEF Due
  <1>12. Working(g)'
    BY <1>7, <1>11 DEF Working, Adding
  <1> QED
    BY <1>1, <1>4, <1>7, <1>8, <1>9, <1>12, GoesOn DEF SleepersInv

LEMMA SleepInvPrime ==
    ASSUME SleepersInv, Prime
    PROVE  SleepersInv'
  <1>1. PICK es, f : /\ calls = Append(es, f) /\ Below(es, f) /\ Working(f)
                     /\ f.op = "prime" /\ Top = f /\ (es = <<>> \/ \E e : es = <<e>>)
    BY Running DEF Prime, SleepersInv
  <1>2. SleepTypes /\ QueueHolds
    BY DEF SleepersInv
  <1>3. UNCHANGED <<pqVars, now, requests, asleep>> /\ Leave /\ alarm' = f.idx
    BY <1>1 DEF Prime
  <1>4. SleepTypes' /\ QueueHolds' /\ pq' = pq
    BY <1>2, <1>3, QueueStays DEF SleepTypes
  <1>5. HeapOrder(pq) /\ items > 0 /\ f.idx = Key(pq, 1)
    BY <1>1 DEF Working
  <1>6. calls' = es
    BY <1>1, <1>3, Left
  <1>7. /\ pq \in Seq(SleepNode) /\ InHeap(pq) = asleep /\ items' = Len(pq)
        /\ alarm' = IF items' = 0 THEN Disarmed ELSE Key(pq, 1)
    BY <1>2, <1>3, <1>5, PqIs DEF QueueHolds, pqVars
  <1>8. StackIs' /\ SettledAlarm'
    BY <1>1, <1>3, <1>4, <1>5, <1>6, <1>7, ComesBack
  <1> QED
    BY <1>4, <1>8 DEF SleepersInv

(* Where an interrupt comes in, the heap is whole. *)
LEMMA ComesIn ==
    ASSUME SleepersInv, Interruptible, ~Unprepared
    PROVE  /\ HeapOrder(pq) /\ Due
           /\ calls = <<>> \/ \E e : calls = <<e>> /\ Interrupted(e)
  <1>1. SleepTypes /\ QueueHolds /\ StackIs /\ SettledAlarm
    BY DEF SleepersInv
  <1>2. CASE calls = <<>>
    <2>1. HeapOrder(pq)
      <3>1. ASSUME NEW es, NEW f, Below(es, f)
            PROVE  Append(es, f) # <<>>
        BY <3>1, StackSteps DEF Below
      <3> QED
        BY <1>1, <1>2, <3>1 DEF StackIs
    <2>2. AlarmRight /\ pq \in Seq(SleepNode) /\ InHeap(pq) = asleep /\ Len(pq) = items
          /\ items \in Nat
      BY <1>1, <1>2, PqIs, SleepQueueAssumption DEF SettledAlarm, QueueHolds, SleepTypes
    <2>3. CASE items = 0
      BY <1>2, <2>1, <2>2, <2>3 DEF AlarmRight, Due
    <2>4. CASE items > 0
      <3>1. Key(pq, 1) \in Nat /\ pq[1] \in asleep /\ pq[1].priority = Key(pq, 1)
        BY <2>2, <2>4, FirstIsDue
      <3>2. alarm = Key(pq, 1)
        BY <2>2, <2>4 DEF AlarmRight
      <3>3. \E d \in asleep : d.priority <= alarm
        BY <3>1, <3>2
      <3> QED
        BY <1>2, <2>1, <3>1, <3>2, <3>3 DEF Due
    <2> QED
      BY <2>2, <2>3, <2>4
  <1>3. CASE calls # <<>>
    <2>1. PICK es, f : calls = Append(es, f) /\ Below(es, f) /\ Working(f)
      BY <1>1, <1>3 DEF StackIs
    <2>2. es = <<>>
      <3>1. es = <<>> \/ \E e : es = <<e>>
        BY <2>1 DEF Below
      <3>2. Len(calls) = 1
        BY <1>3 DEF Interruptible
      <3> QED
        BY <2>1, <3>1, <3>2, StackSteps
    <2>3. calls = <<f>> /\ calls[1] = f
      BY <2>1, <2>2, StackSteps
    <2>4. f.irqs /\ f.op \notin {"count", "swim", "prime"}
      BY <1>3, <2>3 DEF Interruptible, Unprepared
    <2>5. f.op \in {"test", "store", "peek"}
      BY <2>1, <2>4 DEF Working
    <2>6. HeapOrder(pq) /\ Due /\ Interrupted(f)
      BY <2>1, <2>5 DEF Working, Interrupted
    <2> QED
      BY <2>3, <2>6
  <1> QED
    BY <1>2, <1>3

LEMMA SleepInvNanosleep ==
    ASSUME SleepersInv, ~intruded', NEW n \in Nat, NEW irqs \in BOOLEAN, Nanosleep(n, irqs)
    PROVE  SleepersInv'
  <1>1. PICK node : node = [priority |-> now + n, element |-> requests + 1]
    OBVIOUS
  <1>2. /\ Interruptible /\ ~Unprepared /\ (irqs => calls = <<>>)
        /\ calls' = Append(calls, Frame("test", node, 0, irqs)) /\ requests' = requests + 1
        /\ UNCHANGED <<pqVars, now, alarm, asleep>>
    BY <1>1 DEF Nanosleep
  <1>3. HeapOrder(pq) /\ Due /\ (calls = <<>> \/ \E e : calls = <<e>> /\ Interrupted(e))
    BY <1>2, ComesIn
  <1>4. SleepTypes /\ QueueHolds /\ SettledAlarm /\ now \in Nat /\ requests \in Nat
    BY DEF SleepersInv, SleepTypes
  <1>5. node \in SleepNode /\ node.element = requests + 1
    <2>1. now + n \in Nat /\ requests + 1 \in Nat
      BY <1>4
    <2> QED
      BY <1>1, <2>1 DEF SleepNode
  <1>6. pq' = pq
    BY <1>2 DEF pq, pqVars
  <1>7. SleepTypes'
    BY <1>2, <1>4 DEF SleepTypes, pqVars
  <1>8. \A d \in asleep : d.element \in Nat /\ d.element <= requests
    <2>1. \A d \in asleep : d \in SleepNode
      <3> SUFFICES ASSUME NEW d \in asleep PROVE d \in SleepNode
        OBVIOUS
      <3>1. PICK i \in 1..Len(pq) : d = pq[i]
        BY <1>4 DEF QueueHolds, InHeap
      <3> QED
        BY <1>4, <3>1, ElementOfSeq DEF QueueHolds
    <2> QED
      BY <1>4, <2>1 DEF QueueHolds, SleepNode
  <1>9. QueueHolds'
    <2>1. \A d \in asleep' : d.element <= requests'
      BY <1>2, <1>4, <1>8
    <2> QED
      BY <1>2, <1>4, <1>6, <2>1 DEF QueueHolds
  <1>10. PICK g : g = Frame("test", node, 0, irqs)
    OBVIOUS
  <1>11. g.op = "test" /\ g.node = node /\ g.irqs = irqs
    BY <1>10, FrameIs
  <1>12. Fresh(node)'
    <2>1. \A d \in asleep' : d.element # node.element
      BY <1>2, <1>4, <1>5, <1>8
    <2>2. node.element <= requests'
      BY <1>2, <1>4, <1>5
    <2> QED
      BY <1>5, <2>1, <2>2 DEF Fresh
  <1>13. Due' /\ HeapOrder(pq)'
    BY <1>2, <1>3, <1>6 DEF Due
  <1>14. Working(g)'
    BY <1>11, <1>12, <1>13 DEF Working, Adding
  <1>16. PICK es : es = calls
    OBVIOUS
  <1>17. Below(es, g)'
    <2>1. CASE calls = <<>>
      BY <1>16, <2>1 DEF Below
    <2>2. ASSUME NEW e, calls = <<e>>, Interrupted(e)
          PROVE  Below(es, g)'
      <3>1. irqs = FALSE
        BY <1>2, <2>2
      <3>2. Adding(e) => /\ e.node \in SleepNode /\ e.node.element \in Nat
                         /\ e.node.element <= requests
                         /\ \A d \in asleep : d.element # e.node.element
        BY <2>2 DEF Interrupted, Fresh, SleepNode
      <3>3. Adding(e) => Fresh(e.node)' /\ e.node.element # node.element
        BY <1>2, <1>4, <1>5, <3>2 DEF Fresh
      <3>4. Interrupted(e)'
        BY <2>2, <3>3 DEF Interrupted, Adding
      <3> QED
        BY <1>11, <1>16, <2>2, <3>1, <3>3, <3>4 DEF Below
    <2> QED
      BY <1>3, <2>1, <2>2
  <1>18. StackIs'
    BY <1>2, <1>10, <1>14, <1>16, <1>17 DEF StackIs
  <1>19. SettledAlarm'
    <2>1. CASE calls = <<>>
      <3>1. AlarmRight
        BY <1>4, <2>1 DEF SettledAlarm
      <3>2. AlarmRight'
        BY <1>2, <1>6, <3>1 DEF AlarmRight, pqVars
      <3> QED
        BY <3>2 DEF SettledAlarm
    <2>2. ASSUME NEW e, calls = <<e>>
          PROVE  SettledAlarm'
      <3>1. calls' = Append(<<e>>, g) /\ <<e>> # <<>>
        BY <1>2, <1>10, <2>2
      <3>2. calls' # <<>> /\ \A x : calls' # <<x>>
        BY <3>1, StackSteps
      <3> QED
        BY <3>2 DEF SettledAlarm
    <2> QED
      BY <1>3, <2>1, <2>2
  <1> QED
    BY <1>7, <1>9, <1>18, <1>19 DEF SleepersInv

LEMMA SleepInvTimer ==
    ASSUME SleepersInv, HandleVirtualTimer, ~intruded'
    PROVE  SleepersInv'
  <1>1. Interruptible /\ ~Unprepared /\ now' = now /\ requests' = requests
    BY DEF HandleVirtualTimer, TimerPending
  <1>2. HeapOrder(pq) /\ Due /\ (calls = <<>> \/ \E e : calls = <<e>> /\ Interrupted(e))
    BY <1>1, ComesIn
  <1>3. SleepTypes /\ QueueHolds /\ items \in Nat /\ items <= Slots
    BY SleepQueueAssumption DEF SleepersInv, SleepTypes
  <1>4. pq \in Seq(SleepNode) /\ Distinct(pq) /\ InHeap(pq) = asleep /\ Len(pq) = items
    BY <1>3, PqIs DEF QueueHolds
  <1>5. PICK es : es = calls
    OBVIOUS
  <1>6. CASE items = 0
    <2>1. alarm' = Disarmed /\ UNCHANGED <<pqVars, calls, asleep>>
      BY <1>6 DEF HandleVirtualTimer
    <2>2. SleepTypes' /\ QueueHolds' /\ pq' = pq
      BY <1>1, <1>3, <2>1, QueueStays DEF SleepTypes
    <2>3. PICK f : f = Frame("sink", NullNode, 1, FALSE)
      OBVIOUS
    <2>4. Below(es, f)
      BY <1>2, <1>5, <2>3 DEF Below, Adding, Frame
    <2>5. items' = Len(pq) /\ alarm' = IF items' = 0 THEN Disarmed ELSE Key(pq, 1)
      BY <1>4, <1>6, <2>1 DEF pqVars
    <2>6. StackIs' /\ SettledAlarm'
      BY <1>1, <1>2, <1>4, <1>5, <2>1, <2>2, <2>4, <2>5, ComesBack
    <2> QED
      BY <2>2, <2>6 DEF SleepersInv
  <1>7. CASE items > 0
    <2>1. /\ asleep' = asleep \ {nodes[1]} /\ nodes' = Swap(nodes, 1, items)
          /\ items' = items - 1 /\ calls' = Append(calls, Frame("sink", NullNode, 1, FALSE))
      <3>1. items # 0
        BY <1>3, <1>7
      <3> QED
        BY <3>1, Zenon DEF HandleVirtualTimer
    <2>2. 1 \in 1..items /\ items \in 1..items /\ items - 1 \in Nat /\ items - 1 \in 0..Slots
      BY <1>3, <1>7, SleepQueueAssumption
    <2>3. PICK w : w = Swap(pq, 1, items)
      OBVIOUS
    <2>4. /\ nodes' \in [1..Slots + 1 -> SleepNode] /\ Swapped(w, pq, 1, items)
          /\ \A k \in 1..items : nodes'[k] = w[k]
      BY <1>3, <2>1, <2>2, <2>3, SwapInNodes
    <2>5. SleepTypes'
      BY <1>1, <1>3, <2>1, <2>2, <2>4 DEF SleepTypes
    <2>6. PICK h : h = SubSeq(w, 1, items - 1)
      OBVIOUS
    <2>7. /\ h \in Seq(SleepNode) /\ Distinct(h) /\ InHeap(h) = asleep \ {pq[1]}
          /\ SinkOrder(h, 1) /\ ChildrenBehind(h, 1)
      <3>1. h = SubSeq(Swap(pq, 1, Len(pq)), 1, Len(pq) - 1) /\ pq # <<>>
        BY <1>4, <1>7, <2>3, <2>6
      <3> QED
        BY <1>2, <1>4, <3>1, PopKeeps
    <2>8. Len(h) = items - 1 /\ \A k \in 1..items - 1 : h[k] = nodes'[k]
      <3>1. w \in Seq(SleepNode) /\ Len(w) = items
        BY <1>4, <2>4 DEF Swapped
      <3>2. \A k \in 1..items - 1 : k \in 1..items
        BY <2>2
      <3>3. Len(h) = items - 1 /\ \A k \in 1..items - 1 : h[k] = w[k]
        BY <2>2, <2>6, <3>1
      <3> QED
        BY <2>4, <3>2, <3>3
    <2>9. pq' = h
      <3>1. pq' = [k \in 1..items - 1 |-> nodes'[k]]
        BY <2>1 DEF pq
      <3>2. \A k \in 1..items - 1 : nodes'[k] \in SleepNode
        BY <2>7, <2>8, ElementOfSeq
      <3>3. pq' \in Seq(SleepNode) /\ Len(pq') = items - 1
        BY <2>2, <3>1, <3>2, NodesInSeq
      <3> QED
        BY <2>7, <2>8, <3>1, <3>3, SameNodes
    <2>10. QueueHolds'
      <3>1. pq[1] = nodes[1]
        BY <1>3, <2>2, PqIs
      <3>2. \A d \in asleep' : d.element <= requests'
        BY <1>1, <1>3, <2>1 DEF QueueHolds
      <3> QED
        BY <2>1, <2>7, <2>9, <3>1, <3>2 DEF QueueHolds
    <2>11. PICK g : g = Frame("sink", NullNode, 1, FALSE)
      OBVIOUS
    <2>12. g.op = "sink" /\ g.idx = 1 /\ g.irqs = FALSE
      BY <2>11 DEF Frame
    <2>13. items' = 0 \/ (1 \in 1..items' /\ SinkOrder(pq, 1)' /\ ChildrenBehind(pq, 1)')
      BY <2>1, <2>2, <2>7, <2>9
    <2>14. Working(g)'
      BY <2>12, <2>13 DEF Working, Adding
    <2>15. Below(es, g)'
      <3>1. CASE calls = <<>>
        BY <1>5, <3>1 DEF Below
      <3>2. ASSUME NEW e, calls = <<e>>, Interrupted(e)
            PROVE  Below(es, g)'
        <4>1. Adding(e) => Fresh(e.node)'
          BY <1>1, <2>1, <3>2 DEF Interrupted, Fresh
        <4>2. Interrupted(e)'
          BY <3>2, <4>1 DEF Interrupted, Adding
        <4> QED
          BY <1>5, <2>12, <3>2, <4>2 DEF Below, Adding
      <3> QED
        BY <1>2, <3>1, <3>2
    <2>16. (es = <<>> \/ \E e : es = <<e>>) /\ calls' = Append(es, g)
      BY <1>2, <1>5, <2>1, <2>11
    <2> QED
      BY <2>5, <2>10, <2>12, <2>14, <2>15, <2>16, GoesOn DEF SleepersInv
  <1> QED
    BY <1>3, <1>6, <1>7

LEMMA SleepInvSink ==
    ASSUME SleepersInv, Sink
    PROVE  SleepersInv'
  <1>1. PICK es, f : /\ calls = Append(es, f) /\ Below(es, f) /\ Working(f)
                     /\ f.op = "sink" /\ Top = f /\ (es = <<>> \/ \E e : es = <<e>>)
    BY Running DEF Sink, SleepersInv
  <1>2. SleepTypes /\ QueueHolds /\ items \in Nat
    BY SleepQueueAssumption DEF SleepersInv, SleepTypes
  <1>3. items' = items /\ now' = now /\ requests' = requests /\ asleep' = asleep
    BY DEF Sink
  <1>4. pq \in Seq(SleepNode) /\ Distinct(pq) /\ InHeap(pq) = asleep /\ Len(pq) = items
    BY <1>2, PqIs DEF QueueHolds
  <1>5. ASSUME HeapOrder(pq), Leave, nodes' = nodes,
               alarm' = IF items = 0 THEN Disarmed ELSE nodes[1].priority
        PROVE  SleepersInv'
    <2>1. SleepTypes' /\ QueueHolds' /\ pq' = pq
      BY <1>2, <1>3, <1>5, QueueStays DEF SleepTypes, pqVars
    <2>2. calls' = es
      BY <1>1, <1>5, Left
    <2>3. items # 0 => nodes[1].priority = Key(pq, 1)
      BY <1>2, PqIs DEF Key
    <2>4. items' = Len(pq) /\ alarm' = IF items' = 0 THEN Disarmed ELSE Key(pq, 1)
      BY <1>3, <1>4, <1>5, <2>3
    <2>5. StackIs' /\ SettledAlarm'
      BY <1>1, <1>3, <1>4, <1>5, <2>1, <2>2, <2>4, ComesBack
    <2> QED
      BY <2>1, <2>5 DEF SleepersInv
  <1>6. CASE items = 0 /\ f.idx = 1
    <2>1. SmallestOf(pq, 1) = 1
      <3>1. {j \in {2 * 1, 2 * 1 + 1} : j <= Len(pq) /\ Key(pq, j) < Key(pq, 1)} = {}
        BY <1>4, <1>6
      <3> QED
        BY <3>1 DEF SmallestOf
    <2>2. Leave /\ nodes' = nodes /\ alarm' = IF items = 0 THEN Disarmed ELSE nodes[1].priority
      BY <1>1, <1>6, <2>1 DEF Sink
    <2>3. HeapOrder(pq)
      BY <1>4, <1>6 DEF HeapOrder
    <2> QED
      BY <1>5, <2>2, <2>3
  <1>7. ASSUME NEW i \in 1..items, i = f.idx, SinkOrder(pq, i), ChildrenBehind(pq, i)
        PROVE  SleepersInv'
    <2>1. PICK s : s = SmallestOf(pq, i)
      OBVIOUS
    <2>2. i \in 1..Len(pq)
      BY <1>4
    <2>3. \/ s = i /\ \A j \in 2..Len(pq) : Above(j) = i => Key(pq, i) <= Key(pq, j)
          \/ /\ s \in 2..Len(pq) /\ Above(s) = i /\ Key(pq, s) < Key(pq, i) /\ s # i
             /\ \A j \in 2..Len(pq) : Above(j) = i => Key(pq, s) <= Key(pq, j)
      BY <1>4, <2>1, <2>2, SmallestIs
    <2>4. CASE s = i /\ \A j \in 2..Len(pq) : Above(j) = i => Key(pq, i) <= Key(pq, j)
      <3>1. Leave /\ nodes' = nodes /\ alarm' = IF items = 0 THEN Disarmed ELSE nodes[1].priority
        BY <1>1, <1>7, <2>1, <2>4 DEF Sink
      <3>2. HeapOrder(pq)
        BY <1>7, <2>4 DEF SinkOrder, HeapOrder
      <3> QED
        BY <1>5, <3>1, <3>2
    <2>5. CASE /\ s \in 2..Len(pq) /\ Above(s) = i /\ Key(pq, s) < Key(pq, i) /\ s # i
               /\ \A j \in 2..Len(pq) : Above(j) = i => Key(pq, s) <= Key(pq, j)
      <3>1. nodes' = Swap(nodes, i, s) /\ Goto("sink", NullNode, s) /\ alarm' = alarm
        BY <1>1, <1>7, <2>1, <2>5 DEF Sink
      <3>2. s \in 1..items
        BY <1>4, <2>5
      <3>3. PICK h : h = Swap(pq, i, s)
        OBVIOUS
      <3>4. pq' = h
        BY <1>2, <1>3, <3>1, <3>2, <3>3, SwapInHeap
      <3>5. Swapped(h, pq, i, s) /\ nodes' \in [1..Slots + 1 -> SleepNode]
        BY <1>2, <3>1, <3>2, <3>3, SwapInNodes
      <3>6. h \in Seq(SleepNode) /\ Len(h) = items /\ InHeap(h) = asleep /\ Distinct(h)
        BY <1>4, <3>5 DEF Swapped
      <3>7. SleepTypes' /\ QueueHolds'
        BY <1>2, <1>3, <3>4, <3>5, <3>6 DEF SleepTypes, QueueHolds
      <3>8. SinkOrder(h, s) /\ ChildrenBehind(h, s)
        BY <1>4, <1>7, <2>2, <2>5, <3>3, SinkTurn
      <3>9. PICK g : g = Frame("sink", NullNode, s, f.irqs)
        OBVIOUS
      <3>10. g.op = "sink" /\ g.idx = s /\ g.irqs = f.irqs /\ f.irqs = FALSE
        BY <1>1, <3>9, FrameIs DEF Working
      <3>11. calls' = Append(es, g)
        BY <1>1, <3>1, <3>9, Went
      <3>12. Below(es, g)'
        BY <1>1, <1>3, <3>10, BelowKept DEF Adding
      <3>13. SinkOrder(pq, g.idx)' /\ ChildrenBehind(pq, g.idx)' /\ g.idx \in 1..items'
        BY <1>3, <3>2, <3>4, <3>8, <3>10
      <3>14. Working(g)'
        BY <3>10, <3>13 DEF Working, Adding
      <3> QED
        BY <1>1, <3>7, <3>10, <3>11, <3>12, <3>14, GoesOn DEF SleepersInv
    <2> QED
      BY <2>3, <2>4, <2>5
  <1> QED
    BY <1>1, <1>6, <1>7 DEF Working

LEMMA SleepInvStays ==
    ASSUME SleepersInv, UNCHANGED <<pqVars, calls, requests, alarm, asleep>>, now' \in Nat
    PROVE  SleepersInv'
  <1>1. SleepTypes' /\ QueueHolds' /\ pq' = pq
    BY QueueStays DEF SleepersInv
  <1>2. nodes' = nodes /\ items' = items
    BY DEF pqVars
  <1>3. ASSUME NEW es, NEW f, calls = Append(es, f), Below(es, f), Working(f)
        PROVE  StackIs'
    <2>1. Working(f)'
      BY <1>1, <1>2, <1>3 DEF Working, Due, Fresh, Adding
    <2>2. Below(es, f)'
      BY <1>3, BelowKept
    <2> QED
      BY <1>3, <2>1, <2>2 DEF StackIs
  <1>4. StackIs'
    BY <1>1, <1>3 DEF SleepersInv, StackIs
  <1>5. SettledAlarm'
    BY <1>1, <1>2 DEF SleepersInv, SettledAlarm, AlarmRight
  <1> QED
    BY <1>1, <1>4, <1>5 DEF SleepersInv

LEMMA SleepInvNext == SleepInv /\ [SleepNext]_sleepVars => SleepInv'
  <1> SUFFICES ASSUME SleepInv, [SleepNext]_sleepVars PROVE SleepInv'
    OBVIOUS
  <1>1. intruded' \in BOOLEAN /\ (~intruded' => ~intruded)
    BY DEF SleepInv, SleepNext, sleepVars, Nanosleep, TestFull, StoreNode, Count, Swim, Peek,
           Prime, HandleVirtualTimer, Sink, ClockTick
  <1>2. SUFFICES ASSUME ~intruded' PROVE SleepersInv'
    BY <1>1 DEF SleepInv, SleepersInv
  <1>3. SleepersInv /\ now \in Nat
    BY <1>1, <1>2 DEF SleepInv, SleepersInv, SleepTypes
  <1>4. CASE ClockTick \/ UNCHANGED sleepVars
    <2>1. UNCHANGED <<pqVars, calls, requests, alarm, asleep>>
      BY <1>4 DEF ClockTick, sleepVars
    <2>2. now' \in Nat
      BY <1>3, <1>4 DEF ClockTick, sleepVars
    <2> QED
      BY <1>3, <2>1, <2>2, SleepInvStays
  <1>5. CASE \/ \E n \in Lengths : Nanosleep(n, FALSE)
             \/ \E irqs \in BOOLEAN : Nanosleep(MutexNap, irqs)
    <2>1. PICK n \in Nat, irqs \in BOOLEAN : Nanosleep(n, irqs)
      BY <1>5, SleepQueueAssumption
    <2> QED
      BY <1>2, <1>3, <2>1, SleepInvNanosleep
  <1>6. CASE TestFull \/ StoreNode \/ Count \/ Swim \/ Peek \/ Prime
    BY <1>2, <1>3, <1>6, SleepInvTest, SleepInvStore, SleepInvCount, SleepInvSwim, SleepInvPeek,
       SleepInvPrime
  <1>7. CASE HandleVirtualTimer \/ Sink
    BY <1>2, <1>3, <1>7, SleepInvTimer, SleepInvSink
  <1> QED
    BY <1>4, <1>5, <1>6, <1>7 DEF SleepNext

(* The queue of pq.c holds exactly the sleepers, and the timer is armed    *)
(* for the earliest deadline whenever no call is under way, for any number *)
(* of slots and any deadlines; the handler takes a sleeper that is due,    *)
(* also when it comes in the middle of a timer_nanosleep that runs with    *)
(* interrupts enabled (pq_add, pq_pop, timer_nanosleep,                    *)
(* handle_virtual_timer).  This holds until something comes in where the   *)
(* call is not prepared for it.                                            *)
THEOREM EarliestIsArmed == SleepSpec => []AlarmIsEarliest
  <1>1. ASSUME SleepInv
        PROVE  AlarmIsEarliest
    <2>1. SUFFICES ASSUME ~intruded
                   PROVE  /\ {pq[i] : i \in 1..items} = asleep /\ items = Cardinality(asleep)
                          /\ Settled => /\ alarm = IF asleep = {} THEN Disarmed
                                                   ELSE Min({d.priority : d \in asleep})
                                        /\ asleep # {} => nodes[1].priority = alarm
                          /\ TimerPending /\ ~Unprepared => items > 0 /\ nodes[1].priority <= now
      BY DEF AlarmIsEarliest
    <2>2. SleepersInv /\ SleepTypes /\ QueueHolds /\ StackIs /\ SettledAlarm
      BY <1>1, <2>1 DEF SleepInv, SleepersInv
    <2>3. /\ pq \in Seq(SleepNode) /\ Distinct(pq) /\ InHeap(pq) = asleep /\ Len(pq) = items
          /\ items \in Nat /\ \A i \in 1..items : pq[i] = nodes[i]
      BY <2>2, PqIs, SleepQueueAssumption DEF QueueHolds, SleepTypes
    <2>4. items = Cardinality(asleep)
      <3>1. PICK n \in Nat : n = items
        BY <2>3
      <3>2. \A i \in 1..n : pq[i] \in asleep
        BY <2>3, <3>1 DEF InHeap
      <3>3. PICK f : f = [i \in 1..n |-> pq[i]]
        OBVIOUS
      <3>4. f \in [1..n -> asleep]
        BY <3>2, <3>3
      <3>5. \A i, j \in 1..n : f[i] = f[j] => i = j
        BY <2>3, <3>1, <3>3 DEF Distinct
      <3>6. \A d \in asleep : \E i \in 1..n : f[i] = d
        BY <2>3, <3>1, <3>3 DEF InHeap
      <3>7. f \in Bijection(1..n, asleep)
        BY <3>4, <3>5, <3>6 DEF Bijection, Injection, Surjection, IsInjective
      <3>8. ExistsBijection(1..n, asleep)
        BY <3>7 DEF ExistsBijection
      <3> QED
        BY <3>1, <3>8, FS_CountingElements
    <2>5. ASSUME HeapOrder(pq), items > 0
          PROVE  /\ asleep # {} /\ nodes[1] \in asleep /\ nodes[1].priority = Key(pq, 1)
                 /\ Key(pq, 1) \in Nat /\ \A d \in asleep : d.priority \in Nat /\ Key(pq, 1) <= d.priority
      <3>1. /\ Key(pq, 1) \in Nat /\ pq[1] \in asleep /\ pq[1].priority = Key(pq, 1)
            /\ pq[1] = nodes[1]
        BY <2>3, <2>5, FirstIsDue
      <3>2. ASSUME NEW d \in asleep
            PROVE  d.priority \in Nat /\ Key(pq, 1) <= d.priority
        <4>1. PICK i \in 1..Len(pq) : d = pq[i]
          BY <2>3 DEF InHeap
        <4>2. Key(pq, i) \in Nat /\ Key(pq, 1) <= Key(pq, i) /\ d.priority = Key(pq, i)
          BY <2>3, <2>5, <4>1, KeyTyped, RootIsFirst DEF Key
        <4> QED
          BY <4>2
      <3> QED
        BY <3>1, <3>2
    <2>6. ASSUME Settled
          PROVE  /\ alarm = IF asleep = {} THEN Disarmed ELSE Min({d.priority : d \in asleep})
                 /\ asleep # {} => nodes[1].priority = alarm
      <3>1. HeapOrder(pq) /\ AlarmRight
        <4>1. ASSUME NEW es, NEW f, calls = Append(es, f), Below(es, f), Working(f)
              PROVE  HeapOrder(pq) /\ AlarmRight
          <5>1. es = <<>> \/ \E e : es = <<e>>
            BY <4>1 DEF Below
          <5>2. Len(calls) = 1 /\ calls[1].op = "test"
            BY <2>6, <4>1, <5>1, StackSteps DEF Settled
          <5>3. es = <<>>
            BY <4>1, <5>1, <5>2, StackSteps
          <5>4. calls = <<f>> /\ calls[1] = f
            BY <4>1, <5>3, StackSteps
          <5> QED
            BY <2>2, <4>1, <5>2, <5>4 DEF Working, SettledAlarm
        <4> QED
          BY <2>2, <4>1 DEF StackIs, SettledAlarm
      <3>2. CASE items = 0
        <4>1. asleep = {}
          BY <2>3, <3>2 DEF InHeap
        <4> QED
          BY <3>1, <3>2, <4>1 DEF AlarmRight
      <3>3. CASE items > 0
        <4>1. PICK k \in Nat : k = Key(pq, 1)
          BY <2>5, <3>1, <3>3
        <4>2. /\ asleep # {} /\ nodes[1] \in asleep /\ nodes[1].priority = k
              /\ \A d \in asleep : d.priority \in Nat /\ k <= d.priority
          BY <2>5, <3>1, <3>3, <4>1
        <4>3. PICK S : S = {d.priority : d \in asleep}
          OBVIOUS
        <4>4. k \in S /\ \A x \in S : x \in Nat /\ k <= x
          BY <4>2, <4>3
        <4>5. Min(S) = k
          <5>1. \A x \in S : (\A y \in S : x <= y) => x = k
            BY <4>4
          <5> QED
            BY <4>4, <5>1 DEF Min
        <4> QED
          BY <3>1, <3>3, <4>1, <4>2, <4>3, <4>5 DEF AlarmRight
      <3> QED
        BY <2>3, <3>2, <3>3
    <2>7. ASSUME TimerPending, ~Unprepared
          PROVE  items > 0 /\ nodes[1].priority <= now
      <3>1. HeapOrder(pq) /\ Due
        BY <2>2, <2>7, ComesIn DEF TimerPending
      <3>2. alarm \in Nat /\ now >= alarm /\ now \in Nat
        BY <2>2, <2>7, <3>1 DEF TimerPending, Due, SleepTypes
      <3>3. PICK d \in asleep : d.priority <= alarm
        BY <2>7, <3>1 DEF TimerPending, Due
      <3>4. items > 0
        BY <2>3, <3>3 DEF InHeap
      <3>5. Key(pq, 1) \in Nat /\ d.priority \in Nat /\ Key(pq, 1) <= d.priority
            /\ nodes[1].priority = Key(pq, 1)
        BY <2>5, <3>1, <3>3, <3>4
      <3> QED
        BY <3>2, <3>3, <3>4, <3>5
    <2> QED
      BY <2>3, <2>4, <2>6, <2>7 DEF InHeap
  <1> QED
    BY <1>1, SleepInvInit, SleepInvNext, PTL DEF SleepSpec
=============================================================================
