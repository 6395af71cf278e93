--------------------------- MODULE BuddyAllocator ---------------------------
(***************************************************************************)
(* The buddy page allocator (memory/paging.c): the page frame array, the   *)
(* free lists and the recursions that split and coalesce blocks.           *)
(*                                                                         *)
(* Granularity.  The kernel calls the allocator with IRQs masked.  One     *)
(* action is one call of a recursive function, or one turn of the loop     *)
(* that lays out the first blocks, so that the properties are stated of    *)
(* every intermediate state.  The field order of a frame is overloaded as  *)
(* in the code: the order of the block in a head page, the page number of  *)
(* the head in a tail page.                                                *)
(***************************************************************************)
EXTENDS Naturals, FiniteSets, LinkedList

CONSTANTS
    MaxOrder,  \* MAX_ORDER
    Span,      \* 1 << order
    Reserved   \* reserved_pages: the boot prefix that is not managed

\* Span holds the powers of two.  The prefix holds the kernel and the page
\* frame array, which are far more pages than there are orders: the number of
\* a managed page is never also an order.
ASSUME BuddyConstants ==
    /\ MaxOrder \in Nat
    /\ Span \in [0..MaxOrder -> Nat]
    /\ Span[0] = 1
    /\ \A o \in 1..MaxOrder : Span[o] = 2 * Span[o - 1]
    /\ \A o \in 0..MaxOrder : \E m \in 1..Span[MaxOrder] : Span[MaxOrder] = m * Span[o]
    /\ Reserved \in Nat
    /\ MaxOrder < Reserved
    /\ Reserved < Span[MaxOrder]

VARIABLES
    order,   \* frame_metadata[].order
    flags,   \* frame_metadata[].flags.bits.flags, a set of bits
    owner,   \* frame_metadata[].flags.bits.state
    list,    \* frame_metadata[].list and buddy_lists
    step,    \* the function that is running
    level,   \* its order: i of the layout loop, curr_order of _split_down
    arg      \* its argument: curr_pfn, req_order, or the page of coalesce_up

frames == <<order, flags, owner, list>>
vars   == <<frames, step, level, arg>>

NPages == Span[MaxOrder]
Orders == 0..MaxOrder
Pages  == 0..(NPages - 1)

\* &buddy_lists[o], a node of the lists beside the pages.
ListHead(o) == NPages + o
Nodes == 0..(NPages + MaxOrder)

Tails(p, o) == (p + 1)..(p + Span[o] - 1)

IsHead(p) == "HEAD" \in flags[p]
IsTail(p) == "TAIL" \in flags[p]

Return == step' = "idle" /\ level' = 0 /\ arg' = 0
-----------------------------------------------------------------------------
\* initialize_page_frame_array up to _initialize_buddy_allocator.
Init ==
    /\ order = [p \in Pages |-> 0]
    /\ flags = [p \in Pages |-> {}]
    /\ owner = [p \in Pages |-> IF p < Reserved THEN "RESERVED" ELSE "FREE"]
    /\ list = InitLists(Nodes)
    /\ step = "layout"
    /\ level = MaxOrder
    /\ arg = Reserved

\* One turn of the loop of _initialize_buddy_allocator.  Bit i of
\* available_pages is set exactly when the pages not laid out yet, which are
\* fewer than 2 << i, still hold a block of order i.  The code sets the state
\* of the tail pages to PAGE_BUDDY_TAIL, whose value is that of PAGE_BUDDY.
LayBlock ==
    /\ step = "layout"
    /\ LET fits == arg + Span[level] <= NPages IN
       /\ IF fits
          THEN /\ order' = [p \in Pages |->
                                IF p = arg THEN level
                                ELSE IF p \in Tails(arg, level) THEN arg
                                ELSE order[p]]
               /\ owner' = [p \in Pages |->
                                IF p = arg THEN "FREE"
                                ELSE IF p \in Tails(arg, level) THEN "BUDDY"
                                ELSE owner[p]]
               /\ flags' = [flags EXCEPT ![arg] = {"HEAD"}]
               /\ list' = ListAdd(list, arg, ListHead(level))
          ELSE UNCHANGED frames
       /\ IF level = 0
          THEN Return
          ELSE /\ level' = level - 1
               /\ arg' = IF fits THEN arg + Span[level] ELSE arg
               /\ UNCHANGED step

\* Mutant: the search starts one order too high.
RefusedAbove(o) == \A i \in Orders : o < i => ListEmpty(list, ListHead(i))

\* buddy_alloc finds no list with a block large enough and returns NULL.
Refused(o) == \A i \in Orders : o <= i => ListEmpty(list, ListHead(i))

\* buddy_alloc of a request whose size rounds up to 2^o pages.
Alloc(o) ==
    /\ step = "idle"
    /\ \/ /\ Refused(o)
          /\ UNCHANGED vars
       \/ \E i \in Orders :
             /\ o <= i
             /\ ~ListEmpty(list, ListHead(i))
             /\ \A j \in Orders : o <= j /\ j < i => ListEmpty(list, ListHead(j))
             /\ step' = "split" /\ level' = i /\ arg' = o
             /\ UNCHANGED frames

\* _split_down: halve the first block of the list; the lower half ends up
\* first in the list of the next order.
SplitDown ==
    LET pfn   == list.next[ListHead(level)]
        half  == level - 1
        buddy == pfn + Span[half]
    IN  /\ step = "split"
        /\ arg < level
        /\ list' = ListAdd(ListAdd(ListRemove(list, pfn), buddy, ListHead(half)),
                           pfn, ListHead(half))
        /\ order' = [p \in Pages |->
                        IF p \in {pfn, buddy} THEN half
                        ELSE IF p \in Tails(pfn, half) THEN pfn
                        ELSE IF p \in Tails(buddy, half) THEN buddy
                        ELSE order[p]]
        /\ flags' = [p \in Pages |->
                        IF p = buddy THEN {"HEAD"}
                        ELSE IF p \in Tails(pfn, half) \cup Tails(buddy, half)
                             THEN {"TAIL"} ELSE flags[p]]
        /\ owner' = [owner EXCEPT ![buddy] = "FREE"]
        /\ level' = half
        /\ UNCHANGED <<step, arg>>

\* Mutant: the block that is handed out stays on its list.
AllocLeavesLinked ==
    LET pfn == list.next[ListHead(level)] IN
    /\ step = "split"
    /\ arg = level
    /\ owner' = [owner EXCEPT ![pfn] = "BUDDY"]
    /\ Return
    /\ UNCHANGED <<order, flags, list>>

\* Mutant: the recursion of _split_down does not end.
AllocForever ==
    /\ step = "split"
    /\ arg = level
    /\ UNCHANGED vars

\* _split_down reached the order asked for; _alloc_and_return.
AllocAndReturn ==
    LET pfn == list.next[ListHead(level)] IN
    /\ step = "split"
    /\ arg = level
    /\ list' = ListRemove(list, pfn)
    /\ owner' = [p \in Pages |->
                    IF p = pfn \/ p \in Tails(pfn, level) THEN "BUDDY" ELSE owner[p]]
    /\ flags' = [p \in Pages |->
                    IF p = pfn THEN flags[p] \cup {"HEAD"}
                    ELSE IF p \in Tails(pfn, level) THEN {"TAIL"} ELSE flags[p]]
    /\ order' = [p \in Pages |-> IF p \in Tails(pfn, level) THEN pfn ELSE order[p]]
    /\ Return

\* Mutant: buddy_free does not coalesce.
FreeOnly(p) ==
    /\ step = "idle"
    /\ IsHead(p) /\ owner[p] # "FREE"
    /\ owner' = [owner EXCEPT ![p] = "FREE"]
    /\ list' = ListAdd(list, p, ListHead(order[p]))
    /\ UNCHANGED <<order, flags, step, level, arg>>

\* buddy_free of any page: a page that is not a head, or that is free
\* already, changes nothing.
Free(p) ==
    /\ step = "idle"
    /\ IF IsHead(p) /\ owner[p] # "FREE"
       THEN /\ owner' = [owner EXCEPT ![p] = "FREE"]
            /\ list' = ListAdd(list, p, ListHead(order[p]))
            /\ IF order[p] < MaxOrder
               THEN step' = "coalesce" /\ level' = 0 /\ arg' = p
               ELSE Return
            /\ UNCHANGED <<order, flags>>
       ELSE UNCHANGED vars

\* curr_pfn ^ (1 << block_order)
Buddy(p, o) == IF (p \div Span[o]) % 2 = 0 THEN p + Span[o] ELSE p - Span[o]

\* Mutant: the tail pages of the upper half keep their old head.
MergedOrderHeadOnly(prev, next, o) ==
    [order EXCEPT ![prev] = o + 1, ![next] = prev]

\* The field order of the frames when two blocks of order o are merged.
MergedOrder(prev, next, o) ==
    [p \in Pages |-> IF p = prev THEN o + 1
                     ELSE IF p = next \/ p \in Tails(next, o) THEN prev
                     ELSE order[p]]

\* coalesce_up: the buddy must have the same value in its field order and be
\* free; whether it is a head page is not tested.
CoalesceUp ==
    LET o     == order[arg]
        buddy == Buddy(arg, o)
        prev  == IF buddy < arg THEN buddy ELSE arg
        next  == IF buddy < arg THEN arg ELSE buddy
    IN  /\ step = "coalesce"
        /\ IF /\ order[prev] = order[next]
              /\ owner[prev] = "FREE" /\ owner[next] = "FREE"
           THEN /\ list' = ListAdd(ListRemove(ListRemove(list, prev), next),
                                   prev, ListHead(o + 1))
                /\ flags' = [flags EXCEPT ![next] = {"TAIL"}]
                /\ order' = MergedOrder(prev, next, o)
                /\ arg' = prev
                /\ UNCHANGED <<owner, step, level>>
           ELSE /\ Return
                /\ UNCHANGED frames

\* head_from_page, with NPages for NULL.
HeadFromPage(p) ==
    LET h == IF flags[p] = {"TAIL"} THEN order[p] ELSE p
    IN  IF IsHead(h) THEN h ELSE NPages

\* set_page_owner of a page, or of the head it leads to.  Its one caller,
\* _slab_alloc, passes the block it was just given: that is the guard.
SetPageOwner(p) ==
    LET h == IF IsTail(p) THEN order[p] ELSE p IN
    /\ step = "idle"
    /\ owner[h] = "BUDDY" /\ IsHead(h)
    /\ owner' = [owner EXCEPT ![h] = "SLAB"]
    /\ UNCHANGED <<order, flags, list, step, level, arg>>

Step == LayBlock \/ SplitDown \/ AllocAndReturn \/ CoalesceUp

Next ==
    \/ Step
    \/ \E o \in 0..(MaxOrder + 1) : Alloc(o)
    \/ \E p \in Pages : Free(p) \/ SetPageOwner(p)

Spec == Init /\ [][Next]_vars

\* A function that is running goes on.
Fairness == WF_vars(Step)
-----------------------------------------------------------------------------
TypeOK ==
    /\ order \in [Pages -> Nat]
    /\ flags \in [Pages -> SUBSET {"HEAD", "TAIL"}]
    /\ owner \in [Pages -> {"FREE", "BUDDY", "SLAB", "RESERVED"}]
    /\ list \in Lists(Nodes)
    /\ step \in {"layout", "idle", "split", "coalesce"}
    /\ level \in Orders
    /\ arg \in 0..NPages

\* Where the pages that are laid out end.
Laid == IF step = "layout" THEN arg ELSE NPages

\* The blocks tile the managed pages (check_structure of the tests), in every
\* intermediate state of a split or a merge: a head page is followed by the
\* other pages of its block, no two blocks overlap, and every page leads to
\* the head of the block it is in.
Tiling ==
    /\ \A p \in Pages : IsHead(p) =>
          /\ p >= Reserved
          /\ order[p] \in Orders
          /\ p + Span[order[p]] <= Laid
          /\ \A q \in Tails(p, order[p]) : ~IsHead(q) /\ order[q] = p
    /\ \A p \in Reserved..(Laid - 1) :
          ~IsHead(p) => IsHead(order[p]) /\ p \in Tails(order[p], order[order[p]])

OrderOf(n) == IF n < NPages THEN order[n] ELSE n - NPages

\* The free lists agree with the frames: next and prev are inverse of each
\* other, a page is linked exactly while it is the head of a free
\* block, and only into the list of its order.
FreeListsExact ==
    /\ RingOK(list, Nodes)
    /\ \A p \in Pages : Linked(list, p) <=> IsHead(p) /\ owner[p] = "FREE"
    /\ \A n \in Nodes : OrderOf(list.next[n]) = OrderOf(n)

\* An allocated block resolves: head_from_page of each of its pages is its
\* head.  (check_and_reap frees a kernel stack, and kfree a slab, through it.)
HeadOfAllocated ==
    \A p \in Pages : IsHead(p) /\ owner[p] # "FREE" =>
        \A q \in Tails(p, order[p]) \cup {p} : HeadFromPage(q) = p

\* The page frames and the free lists describe one and the same set of blocks,
\* in every intermediate state: the blocks tile the pages, the free ones are
\* listed by order, and the others are found from each of their pages.
PageFramesExact == TypeOK /\ Tiling /\ FreeListsExact /\ HeadOfAllocated

\* assert_fully_coalesced of the tests: between calls no free block has a
\* free buddy of its own order.
FullyCoalesced ==
    step = "idle" =>
        \A p \in Pages : IsHead(p) /\ owner[p] = "FREE" /\ order[p] < MaxOrder =>
            LET b == Buddy(p, order[p]) IN
            ~(IsHead(b) /\ owner[b] = "FREE" /\ order[b] = order[p])

\* exhaustion_is_exact of the tests: a request for one page is refused only
\* when every managed page is in a block that somebody holds.
ExhaustionExact ==
    step = "idle" /\ Refused(0) =>
        \A p \in Reserved..(NPages - 1) :
            \E h \in Reserved..p :
                IsHead(h) /\ owner[h] # "FREE" /\ p < h + Span[order[h]]

\* The recursions end: every call of the allocator returns.
CallsReturn == step # "idle" ~> step = "idle"

NoOrder == MaxOrder + 1
Owned == [p \in Pages |-> IF IsHead(p) /\ owner[p] # "FREE" THEN order[p] ELSE NoOrder]
Want  == IF step = "split" THEN arg ELSE NoOrder

Abstract == INSTANCE PageAllocator WITH First <- Reserved, End <- NPages,
                                        owned <- Owned, want <- Want

\* No page is vended twice: the allocator is a PageAllocator, and splitting
\* and coalescing are invisible to those who hold blocks.
NoDoubleVend == Abstract!Spec
=============================================================================
