------------------------------ MODULE SleepQueue ------------------------------
(***************************************************************************)
(* timer_nanosleep, handle_virtual_timer and the binary heap below them    *)
(* (pq.c), with the deadlines and the clock that Scheduler leaves out.     *)
(* A step is one statement, or one turn of the loop of _pq_swim or         *)
(* _pq_sink.  sys_nanosleep and the handler run with interrupts masked.    *)
(* sys_test_mutex may run with interrupts enabled, when idle has switched  *)
(* to it: then the handler, and by way of a switch the sys_nanosleep of    *)
(* another process, come in between two steps of its timer_nanosleep.      *)
(* Another sys_test_mutex does not, because the mutex is held.             *)
(***************************************************************************)
EXTENDS Integers, Sequences, SequencesExt, FiniteSets, FiniteSetsExt

CONSTANTS
    Slots,        \* sleep_timer_queue.size
    Lengths,      \* lengths of the sleeps of sys_nanosleep
    MutexNap,     \* length of the sleep of sys_test_mutex
    MaxTime,      \* bound: ticks of the virtual counter
    MaxRequests,  \* bound: calls of timer_nanosleep
    Disarmed

ASSUME SleepQueueAssumption ==
    Slots \in Nat /\ Slots > 0 /\ Lengths \subseteq Nat /\ MutexNap \in Nat /\ Disarmed \notin Int

VARIABLES
    nodes,     \* heap_storage and the node behind it; nodes[i + 1] is heap[i] in C
    items,     \* sleep_timer_queue.items
    calls,     \* the calls under way, the one that runs last
    now,       \* CNTVCT
    requests,  \* history: requests made; the process of a request is its number
    alarm,     \* CNTV_CVAL while the timer is enabled
    asleep,    \* history: the nodes of the processes that sleep
    intruded   \* history: something came in where a call is not prepared for it

pqVars == <<nodes, items>>
sleepVars == <<pqVars, calls, now, requests, alarm, asleep, intruded>>

NullNode == [priority |-> 0, element |-> 0]
pq == [i \in 1..items |-> nodes[i]]

Key(h, i) == h[i].priority
Swap(h, i, j) == [h EXCEPT ![i] = h[j], ![j] = h[i]]

(* A call under way: where it is, the node that it adds, idx of its loop or *)
(* the deadline in timer_request, and whether it leaves interrupts enabled. *)
Frame(op, node, idx, irqs) == [op |-> op, node |-> node, idx |-> idx, irqs |-> irqs]

Top == calls[Len(calls)]
Runs(op) == calls # <<>> /\ Top.op = op
Goto(op, node, idx) == calls' = [calls EXCEPT ![Len(calls)] = Frame(op, node, idx, Top.irqs)]
Leave == calls' = Front(calls)

\* Mutant: the right child is compared with the parent only.
SmallestOfFirst(h, i) ==
    LET below == {j \in {2 * i, 2 * i + 1} : j <= Len(h) /\ Key(h, j) < Key(h, i)}
    IN  IF below = {} THEN i ELSE Max(below)

(* The child that _pq_sink goes on with, or i: the left one in case of a tie. *)
SmallestOf(h, i) ==
    LET below == {j \in {2 * i, 2 * i + 1} : j <= Len(h) /\ Key(h, j) < Key(h, i)}
    IN  IF below = {} THEN i
        ELSE Min({j \in below : \A k \in below : Key(h, j) <= Key(h, k)})

(* An interrupt is taken when nothing runs here, or a call that does not   *)
(* mask it.                                                                *)
Interruptible == calls = <<>> \/ (Len(calls) = 1 /\ calls[1].irqs)

(* The interrupted call has stored its node and not yet put it in order,   *)
(* or it has read the deadline that it is going to prime.                  *)
Unprepared == calls # <<>> /\ calls[1].op \in {"count", "swim", "prime"}
-----------------------------------------------------------------------------
SleepInit ==
    /\ nodes = [i \in 1..Slots + 1 |-> NullNode] /\ items = 0 /\ calls = <<>>
    /\ now = 0 /\ requests = 0 /\ alarm = Disarmed /\ asleep = {} /\ intruded = FALSE

(* timer_nanosleep up to pq_add.  Requests and ticks are followed up to    *)
(* the first intrusion; the calls under way and the handler go on.         *)
Nanosleep(n, irqs) ==
    LET node == [priority |-> now + n, element |-> requests + 1]
    IN  /\ Interruptible /\ (irqs => calls = <<>>)
        /\ requests < MaxRequests /\ ~intruded
        /\ calls' = Append(calls, Frame("test", node, 0, irqs))
        /\ requests' = requests + 1
        /\ intruded' = (intruded \/ Unprepared)
        /\ UNCHANGED <<pqVars, now, alarm, asleep>>

(* pq_add: a request that finds the queue full is left out. *)
TestFull ==
    /\ Runs("test")
    /\ IF items >= Slots THEN Goto("peek", NullNode, 0) ELSE Goto("store", Top.node, 0)
    /\ UNCHANGED <<pqVars, now, requests, alarm, asleep, intruded>>

(* Behind the array, when the queue was filled since the test. *)
StoreNode ==
    /\ Runs("store")
    /\ nodes' = [nodes EXCEPT ![items + 1] = Top.node]
    /\ Goto("count", Top.node, 0)
    /\ intruded' = (intruded \/ items >= Slots)
    /\ UNCHANGED <<items, now, requests, alarm, asleep>>

Count ==
    /\ Runs("count")
    /\ items' = items + 1 /\ asleep' = asleep \cup {Top.node}
    /\ Goto("swim", NullNode, items + 1)
    /\ UNCHANGED <<nodes, now, requests, alarm, intruded>>

(* A turn of _pq_swim. *)
Swim ==
    /\ Runs("swim")
    /\ LET i == Top.idx IN
       IF i = 1 \/ Key(nodes, i \div 2) <= Key(nodes, i)
       THEN Goto("peek", NullNode, 0) /\ UNCHANGED nodes
       ELSE nodes' = Swap(nodes, i \div 2, i) /\ Goto("swim", NullNode, i \div 2)
    /\ UNCHANGED <<items, now, requests, alarm, asleep, intruded>>

(* pq_peek does not look at items: the root of an empty queue is the node  *)
(* that was taken last.  The deadline is kept in timer_request, here idx.  *)
Peek ==
    /\ Runs("peek")
    /\ Goto("prime", NullNode, nodes[1].priority)
    /\ intruded' = (intruded \/ items = 0)
    /\ UNCHANGED <<pqVars, now, requests, alarm, asleep>>

Prime ==
    /\ Runs("prime")
    /\ alarm' = Top.idx /\ Leave
    /\ UNCHANGED <<pqVars, now, requests, asleep, intruded>>

TimerPending == Interruptible /\ alarm # Disarmed /\ now >= alarm

(* handle_virtual_timer, and pq_pop up to _pq_sink: the interrupt is        *)
(* pending from the deadline on.  From an empty queue the null node comes, *)
(* and the timer is cleared.                                               *)
HandleVirtualTimer ==
    /\ TimerPending
    /\ \/ /\ items = 0
          /\ alarm' = Disarmed /\ UNCHANGED <<pqVars, calls, asleep>>
       \/ /\ items > 0
          /\ asleep' = asleep \ {nodes[1]}
          /\ nodes' = Swap(nodes, 1, items) /\ items' = items - 1
          /\ calls' = Append(calls, Frame("sink", NullNode, 1, FALSE))
          /\ UNCHANGED alarm
    /\ intruded' = (intruded \/ Unprepared)
    /\ UNCHANGED <<now, requests>>

(* A turn of _pq_sink; behind the last one the handler primes the timer    *)
(* for the next deadline, or clears it.                                    *)
Sink ==
    /\ Runs("sink")
    /\ LET i == Top.idx
           s == SmallestOf(pq, i)
       IN  IF s = i
           THEN /\ alarm' = (IF items = 0 THEN Disarmed ELSE nodes[1].priority)
                /\ Leave /\ UNCHANGED nodes
           ELSE nodes' = Swap(nodes, i, s) /\ Goto("sink", NullNode, s) /\ UNCHANGED alarm
    /\ UNCHANGED <<items, now, requests, asleep, intruded>>

(* The clock goes on at any time; a step in between two of a call that     *)
(* masks interrupts makes no difference to it and is left out.             *)
ClockTick ==
    /\ Interruptible /\ now < MaxTime /\ ~intruded
    /\ now' = now + 1
    /\ UNCHANGED <<pqVars, calls, requests, alarm, asleep, intruded>>

SleepNext ==
    \/ \E n \in Lengths : Nanosleep(n, FALSE)
    \/ \E irqs \in BOOLEAN : Nanosleep(MutexNap, irqs)
    \/ TestFull \/ StoreNode \/ Count \/ Swim \/ Peek \/ Prime
    \/ HandleVirtualTimer \/ Sink \/ ClockTick

SleepSpec == SleepInit /\ [][SleepNext]_sleepVars
-----------------------------------------------------------------------------
(* No call has done anything yet. *)
Settled == calls = <<>> \/ (Len(calls) = 1 /\ calls[1].op = "test")

(* Nothing ever falls out of the heap, and whenever no call is under way   *)
(* the timer is armed for the earliest deadline of all sleepers, whatever  *)
(* order the requests came and expired in.  What the interrupt takes is    *)
(* due, also when it comes inside of a call: nobody is woken too early.    *)
(* "the queue always has the earliest deadline first" (timer.c:96) ends    *)
(* where interrupts are enabled and the handler, or another request, comes *)
(* in between the store of a node and the end of _pq_swim or between       *)
(* pq_peek and the priming, fills the queue behind the test of items, or   *)
(* empties it in front of pq_peek.                                         *)
AlarmIsEarliest ==
    ~intruded =>
        /\ {pq[i] : i \in 1..items} = asleep /\ items = Cardinality(asleep)
        /\ Settled => /\ alarm = IF asleep = {} THEN Disarmed ELSE Min({d.priority : d \in asleep})
                      /\ asleep # {} => nodes[1].priority = alarm
        /\ TimerPending /\ ~Unprepared => items > 0 /\ nodes[1].priority <= now
=============================================================================
