--------------------------- MODULE SlabAllocator ---------------------------
(***************************************************************************)
(* kmalloc and kfree (memory/kmalloc.c): the caches of slabs, layered on   *)
(* the buddy allocator.                                                    *)
(*                                                                         *)
(* The buddy allocator is what PageAllocator promises: a block belongs to  *)
(* one holder at a time, and head_from_page leads from every page of a     *)
(* block to its head, so an object is a block and the number of a slot in  *)
(* it.  The kernel calls kmalloc and kfree with IRQs masked: one action is *)
(* one call.                                                               *)
(***************************************************************************)
EXTENDS Naturals, FiniteSets, LinkedList

CONSTANTS
    Blocks,   \* the blocks of pages that buddy_alloc can return
    Classes,  \* the caches, one per size of objects
    Total,    \* objects in a slab, by class
    Zeroed    \* bits of the bitmap that kmalloc zeroes in a new slab

\* kcaches[c].partial_slabs and kcaches[c].full_slabs
Partial(c) == <<"partial", c>>
Full(c)    == <<"full", c>>
ListHeads  == {Partial(c) : c \in Classes} \cup {Full(c) : c \in Classes}
SlabNodes      == Blocks \cup ListHeads

ASSUME SlabConstants ==
    /\ IsFiniteSet(Blocks)
    /\ Total \in [Classes -> Nat \ {0}]
    /\ Zeroed \in Nat
    /\ Blocks \cap ListHeads = {}

VARIABLES
    slabOwner,   \* get_page_owner of the block
    class,   \* slab->slab_order, while the block is a slab
    bitmap,  \* slab->bitmap, as the set of bits that are set
    inuse,   \* slab->inuse
    slabList,    \* slab->list and the lists of kcaches
    live,    \* the objects that kmalloc returned and nobody freed yet
    nulls,   \* the classes for which kmalloc returned NULL
    panicked \* panic(): no page for a new slab

slabVars == <<slabOwner, class, bitmap, inuse, slabList, live, nulls, panicked>>

SlotsOf(c) == 0..(Total[c] - 1)
-----------------------------------------------------------------------------
\* kheap_init, after initialize_page_frame_array.
SlabInit ==
    /\ slabOwner = [b \in Blocks |-> "FREE"]
    /\ class \in [Blocks -> Classes]
    /\ bitmap = [b \in Blocks |-> {}]
    /\ inuse = [b \in Blocks |-> 0]
    /\ slabList = InitLists(SlabNodes)
    /\ live = {}
    /\ nulls = {}
    /\ panicked = FALSE

FreeSlots(c, bits) == SlotsOf(c) \ bits

\* Mutant: a slab that is full stays on the partial list.
SettledStays(l, b, c, n) == l

\* The end of kmalloc: a slab that this allocation filled moves to the full
\* list.
Settled(l, b, c, n) ==
    IF n = Total[c] THEN ListAdd(ListRemove(l, b), b, Full(c)) ELSE l

\* _addr_from_slab and the end of kmalloc, for the slab b that is first on the
\* partial list of l, with bitmap bits and n objects in use: the lowest free
\* slot is taken; without one, kmalloc returns NULL.
Take(b, c, l, bits, n) ==
    LET free == FreeSlots(c, bits)
        got  == {i \in free : \A j \in free : i <= j}
    IN  /\ bitmap' = [bitmap EXCEPT ![b] = bits \cup got]
        /\ inuse' = [inuse EXCEPT ![b] = n + Cardinality(got)]
        /\ slabList' = Settled(l, b, c, n + Cardinality(got))
        /\ live' = live \cup {<<b, i>> : i \in got}
        /\ nulls' = IF got = {} THEN nulls \cup {c} ELSE nulls

\* _slab_alloc: buddy_alloc returned the block b, which becomes a slab.
SlabAlloc(b) ==
    /\ slabOwner[b] = "FREE"
    /\ slabOwner' = [slabOwner EXCEPT ![b] = "SLAB"]

\* kmalloc of a size of class c.  A new slab has what the page held before in
\* the bits that are not zeroed.
Kmalloc(c) ==
    /\ ~panicked
    /\ \/ /\ ~ListEmpty(slabList, Partial(c))
          /\ LET b == slabList.next[Partial(c)] IN Take(b, c, slabList, bitmap[b], inuse[b])
          /\ UNCHANGED <<slabOwner, class, panicked>>
       \/ /\ ListEmpty(slabList, Partial(c))
          /\ \E b \in Blocks, stale \in SUBSET (Zeroed..(Total[c] - 1)) :
                /\ SlabAlloc(b)
                /\ class' = [class EXCEPT ![b] = c]
                /\ Take(b, c, ListAdd(slabList, b, Partial(c)), stale, 0)
          /\ UNCHANGED panicked
       \/ /\ ListEmpty(slabList, Partial(c))
          /\ \A b \in Blocks : slabOwner[b] # "FREE"
          /\ panicked' = TRUE
          /\ UNCHANGED <<slabOwner, class, bitmap, inuse, slabList, live, nulls>>

\* Mutant: the slab that became empty is freed but not unlinked.
KfreeLeavesLinked(b, i) ==
    /\ ~panicked
    /\ slabOwner[b] = "SLAB" /\ <<b, i>> \in live
    /\ inuse[b] < Total[class[b]]
    /\ bitmap' = [bitmap EXCEPT ![b] = @ \ {i}]
    /\ inuse' = [inuse EXCEPT ![b] = @ - 1]
    /\ slabOwner' = [slabOwner EXCEPT ![b] = IF inuse[b] = 1 THEN "FREE" ELSE @]
    /\ live' = live \ {<<b, i>>}
    /\ UNCHANGED <<class, slabList, nulls, panicked>>

\* kfree and _slab_free of slot i of the slab b.  The caller holds the object,
\* or frees it again before anybody else has it: then its bit is clear, or its
\* page is free, and nothing happens.
Kfree(b, i) ==
    LET c     == class[b]
        moved == IF inuse[b] = Total[c]
                 THEN ListAdd(ListRemove(slabList, b), b, Partial(c)) ELSE slabList
    IN  /\ ~panicked
        /\ slabOwner[b] = "SLAB"
        /\ \/ /\ i \in SlotsOf(c) \ bitmap[b]
              /\ UNCHANGED slabVars
           \/ /\ <<b, i>> \in live
              /\ i \in bitmap[b]
              /\ bitmap' = [bitmap EXCEPT ![b] = @ \ {i}]
              /\ inuse' = [inuse EXCEPT ![b] = @ - 1]
              /\ IF inuse[b] = 1
                 THEN /\ slabList' = ListRemove(moved, b)
                      /\ slabOwner' = [slabOwner EXCEPT ![b] = "FREE"]
                 ELSE /\ slabList' = moved
                      /\ UNCHANGED slabOwner
              /\ live' = live \ {<<b, i>>}
              /\ UNCHANGED <<class, nulls, panicked>>

\* kmalloc of more than 2048 bytes: a block of its own (or NULL).
KmallocLarge(b) ==
    /\ ~panicked
    /\ slabOwner[b] = "FREE"
    /\ slabOwner' = [slabOwner EXCEPT ![b] = "BUDDY"]
    /\ UNCHANGED <<class, bitmap, inuse, slabList, live, nulls, panicked>>

\* kfree of a block that is not a slab: buddy_free.
KfreeLarge(b) ==
    /\ ~panicked
    /\ slabOwner[b] = "BUDDY"
    /\ slabOwner' = [slabOwner EXCEPT ![b] = "FREE"]
    /\ UNCHANGED <<class, bitmap, inuse, slabList, live, nulls, panicked>>

SlabNext ==
    \/ \E c \in Classes : Kmalloc(c)
    \/ \E b \in Blocks : \E i \in SlotsOf(class[b]) : Kfree(b, i)
    \/ \E b \in Blocks : KmallocLarge(b) \/ KfreeLarge(b)

SlabSpec == SlabInit /\ [][SlabNext]_slabVars
-----------------------------------------------------------------------------
LiveIn(b) == {i \in SlotsOf(class[b]) : <<b, i>> \in live}

SlabTypeOK ==
    /\ slabOwner \in [Blocks -> {"FREE", "SLAB", "BUDDY"}]
    /\ class \in [Blocks -> Classes]
    /\ \A b \in Blocks : slabOwner[b] = "SLAB" => bitmap[b] \subseteq SlotsOf(class[b])
    /\ inuse \in [Blocks -> Nat]
    /\ slabList \in Lists(SlabNodes)
    /\ nulls \subseteq Classes
    /\ panicked \in BOOLEAN

\* No object is vended twice and no slab is reclaimed under its objects: every
\* live object is a slot of a slab, its bit is set, and the slab counts
\* exactly its live objects.  This holds whatever the bits held that kmalloc
\* does not zero.
SlabCountsExact ==
    /\ \A o \in live : slabOwner[o[1]] = "SLAB" /\ o[2] \in SlotsOf(class[o[1]])
    /\ \A b \in Blocks : slabOwner[b] = "SLAB" =>
          LiveIn(b) \subseteq bitmap[b] /\ inuse[b] = Cardinality(LiveIn(b))

\* The list that a slab belongs on.
ListOf(n) ==
    IF n \in ListHeads THEN n
    ELSE IF inuse[n] = Total[class[n]] THEN Full(class[n]) ELSE Partial(class[n])

\* The state machine of the caches (test_slab.c): a block is linked exactly
\* while it is a slab, and on the list its count says, so no slab is on two
\* lists, a slab that was reclaimed is unlinked and a full one is not searched.
CacheListsExact ==
    /\ RingOK(slabList, SlabNodes)
    /\ \A b \in Blocks : Linked(slabList, b) <=> slabOwner[b] = "SLAB"
    /\ \A n \in SlabNodes : Linked(slabList, n) => ListOf(slabList.next[n]) = ListOf(n)

\* Bitmaps, counts and lists of the caches agree with what the callers hold.
SlabsExact == SlabTypeOK /\ SlabCountsExact /\ CacheListsExact

\* kmalloc has an object for every request it does not panic on, for the
\* classes whose bitmap it zeroes.
KmallocServes == \A c \in nulls : Zeroed < Total[c]
=============================================================================
