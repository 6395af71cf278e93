---------------------------- MODULE PrivateMemory ----------------------------
(***************************************************************************)
(* What the address spaces promise to programs: a process has a memory of  *)
(* its own.  A write is seen by the writer only, fork gives the child a    *)
(* copy, and a page that was never touched gets some contents when it is   *)
(* first used.  The kernel may begin to serve an access and take several   *)
(* steps for it, but they change nothing: how pages are shared is not      *)
(* visible.                                                                *)
(***************************************************************************)
CONSTANTS
    Procs,     \* the processes
    Pages,     \* the pages of a user address space
    Values,    \* contents of a page
    Absent     \* of a page that was never touched

VARIABLES
    mem,       \* the contents of every page of every process
    live,      \* the processes that exist
    busy       \* the processes with an access that is not completed

Untouched == [v \in Pages |-> Absent]

Init ==
    /\ mem = [p \in Procs |-> Untouched]
    /\ \E p \in Procs : live = {p}
    /\ busy = {}

Begin(p) ==
    /\ p \in live
    /\ busy' = busy \cup {p}
    /\ UNCHANGED <<mem, live>>

Touch(p, v, x) ==
    /\ p \in live
    /\ mem[p][v] = Absent
    /\ mem' = [mem EXCEPT ![p][v] = x]
    /\ busy' = busy \cup {p}
    /\ UNCHANGED live

Read(p) ==
    /\ p \in live
    /\ busy' = busy \ {p}
    /\ UNCHANGED <<mem, live>>

Write(p, v, x) ==
    /\ p \in live
    /\ mem[p][v] # Absent
    /\ mem' = [mem EXCEPT ![p][v] = x]
    /\ busy' = busy \ {p}
    /\ UNCHANGED live

Fork(p, c) ==
    /\ p \in live \ busy
    /\ c \notin live
    /\ mem[c] = Untouched
    /\ mem' = [mem EXCEPT ![c] = mem[p]]
    /\ live' = live \cup {c}
    /\ UNCHANGED busy

\* A new program takes the place of the old one.
Exec(p, image) ==
    /\ p \in live \ busy
    /\ mem' = [mem EXCEPT ![p] = image]
    /\ UNCHANGED <<live, busy>>

Exit(p) ==
    /\ p \in live \ busy
    /\ mem' = [mem EXCEPT ![p] = Untouched]
    /\ live' = live \ {p}
    /\ UNCHANGED busy

Next ==
    \E p \in Procs :
        \/ Begin(p) \/ Read(p) \/ Exit(p)
        \/ \E v \in Pages, x \in Values : Touch(p, v, x) \/ Write(p, v, x)
        \/ \E c \in Procs : Fork(p, c)
        \/ \E image \in [Pages -> Values \cup {Absent}] : Exec(p, image)

Spec == Init /\ [][Next]_<<mem, live, busy>>
=============================================================================
