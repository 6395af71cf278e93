---------------------------- MODULE PageAllocator ----------------------------
(***************************************************************************)
(* What the page allocator promises its callers: a buddy_alloc that is not *)
(* refused ends by handing out a block of the managed pages, of the order  *)
(* asked for, that overlaps no block still in use; buddy_free takes back   *)
(* one block and touches no other.                                         *)
(***************************************************************************)
EXTENDS Naturals

CONSTANTS
    First,     \* the first managed page
    End,       \* the page after the last one
    Orders,    \* the sizes of blocks
    Span,      \* pages of a block, by its order
    NoOrder    \* not an order

VARIABLES
    owned,     \* the order of the block in use that starts at a page
    want       \* the order that the running buddy_alloc was asked for

Region == First..(End - 1)

Overlaps(p, o, q, k) == p < q + Span[k] /\ q < p + Span[o]

Init ==
    /\ owned = [p \in 0..(End - 1) |-> NoOrder]
    /\ want = NoOrder

Request(o) ==
    /\ want = NoOrder
    /\ want' = o
    /\ UNCHANGED owned

Vend(p) ==
    /\ want # NoOrder
    /\ p + Span[want] <= End
    /\ \A q \in Region : owned[q] # NoOrder => ~Overlaps(p, want, q, owned[q])
    /\ owned' = [owned EXCEPT ![p] = want]
    /\ want' = NoOrder

Free(p) ==
    /\ want = NoOrder
    /\ owned[p] # NoOrder
    /\ owned' = [owned EXCEPT ![p] = NoOrder]
    /\ UNCHANGED want

Next ==
    \/ \E o \in Orders : Request(o)
    \/ \E p \in Region : Vend(p) \/ Free(p)

Spec == Init /\ [][Next]_<<owned, want>>
=============================================================================
