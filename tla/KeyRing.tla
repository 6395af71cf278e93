------------------------------- MODULE KeyRing -------------------------------
(***************************************************************************)
(* The ring of the keyboard pipe (kbd.c, pipe_read): head and tail are     *)
(* 64-bit counters that start at the address of the buffer and only grow;  *)
(* their difference is the number of unread bytes.  Both handlers run with *)
(* IRQs masked.  (Who waits for a key is the Scheduler's subject.)         *)
(***************************************************************************)
EXTENDS Integers, Sequences, FiniteSetsExt

CONSTANTS
    RingBytes,   \* ring_size, a power of 2
    Word,        \* 2^64, a multiple of the ring's size
    HalfWord,    \* 2^32: avail, to_read and count are cut to 32 bits
    BufAddress,  \* kbd_pipe.buf
    Counts,      \* the counts that readers pass
    MaxKeys      \* bound: keys pressed

ASSUME KeyRingAssumption ==
    /\ RingBytes \in Nat /\ RingBytes > 0 /\ HalfWord \in Nat /\ Word \in Nat
    /\ Word % RingBytes = 0 /\ HalfWord % RingBytes = 0
    /\ RingBytes < HalfWord /\ HalfWord <= Word /\ BufAddress \in 0..Word - 1
    /\ Counts \subseteq Nat

VARIABLES
    buf, head, tail,   \* kbd_pipe
    presses,           \* the number of keys pressed, dropped ones too
    accepted,          \* history: the keys that were stored
    delivered          \* history: what the readers got

ringVars == <<buf, head, tail, presses, accepted, delivered>>

RingInit ==
    /\ buf = [i \in 0..RingBytes - 1 |-> 0] /\ head = BufAddress /\ tail = BufAddress
    /\ presses = 0 /\ accepted = <<>> /\ delivered = <<>>

Occupancy == (head - tail) % Word

\* Mutant: one key too many is stored.
PressOverrun ==
    /\ presses < MaxKeys /\ presses' = presses + 1
    /\ IF Occupancy > RingBytes
       THEN UNCHANGED <<buf, head, accepted>>
       ELSE /\ buf' = [buf EXCEPT ![head % RingBytes] = presses]
            /\ head' = (head + 1) % Word
            /\ accepted' = Append(accepted, presses)
    /\ UNCHANGED <<tail, delivered>>

(* handle_keyboard_event; a key is known by its number. *)
Press ==
    /\ presses < MaxKeys /\ presses' = presses + 1
    /\ IF Occupancy >= RingBytes
       THEN UNCHANGED <<buf, head, accepted>>
       ELSE /\ buf' = [buf EXCEPT ![head % RingBytes] = presses]
            /\ head' = (head + 1) % Word
            /\ accepted' = Append(accepted, presses)
    /\ UNCHANGED <<tail, delivered>>

(* pipe_read once the ring is not empty: up to two copies, from the tail to *)
(* the end of the buffer and from its start.                                *)
PipeRead(count) ==
    LET avail  == Occupancy % HalfWord
        toRead == Min({avail, count % HalfWord})
        first  == Min({toRead, RingBytes - (tail % RingBytes)})
        chunk1 == [i \in 1..first |-> buf[(tail % RingBytes) + i - 1]]
        chunk2 == [i \in 1..toRead - first |-> buf[i - 1]]
    IN  /\ head # tail
        /\ delivered' = delivered \o chunk1 \o chunk2
        /\ tail' = (tail + toRead) % Word
        /\ UNCHANGED <<buf, head, presses, accepted>>

RingNext == Press \/ \E n \in Counts : PipeRead(n)

RingSpec == RingInit /\ [][RingNext]_ringVars
-----------------------------------------------------------------------------
(* Nothing that was stored is lost, repeated or overtaken, across the end  *)
(* of the buffer, when the counters wrap and when keys are dropped: what   *)
(* was read, followed by what the ring holds, is what was stored.          *)
KeysInOrder ==
    delivered \o [i \in 1..Occupancy |-> buf[(tail + i - 1) % RingBytes]] = accepted
=============================================================================
