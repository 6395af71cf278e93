------------------------ MODULE SlabAllocator_proofs ------------------------
(***************************************************************************)
(* kmalloc vends no object twice, reclaims no slab under its objects and   *)
(* keeps every slab on the list that its count says, for every number of   *)
(* blocks and classes and every size of a slab; and a class whose bitmap   *)
(* is zeroed never returns NULL.                                           *)
(***************************************************************************)
EXTENDS SlabAllocator, LinkedList_proofs, FiniteSetTheorems, WellFoundedInduction

Slabs == {b \in Blocks : slabOwner[b] = "SLAB"}

\* The lists, with F for the blocks that are linked and f for the list that
\* every node belongs on.
ListInv(l, F, f) ==
    /\ l \in Lists(SlabNodes)
    /\ RingOK(l, SlabNodes)
    /\ Anchored(l, SlabNodes, ListHeads)
    /\ \A b \in Blocks : Linked(l, b) <=> b \in F
    /\ \A n \in SlabNodes : f[l.next[n]] = f[n]

\* ListOf, as a function of the nodes and for any counts and classes.
Labels(cls, cnt) ==
    [n \in SlabNodes |-> IF n \in ListHeads THEN n
                     ELSE IF cnt[n] = Total[cls[n]] THEN Full(cls[n]) ELSE Partial(cls[n])]

TypeInv ==
    /\ slabOwner \in [Blocks -> {"FREE", "SLAB", "BUDDY"}]
    /\ class \in [Blocks -> Classes]
    /\ bitmap \in [Blocks -> SUBSET Nat]
    /\ inuse \in [Blocks -> Nat]
    /\ live \subseteq Blocks \X Nat
    /\ nulls \subseteq Classes
    /\ panicked \in BOOLEAN

\* The slots of a block that the callers hold, slab or not.
Held(b) == {i \in Nat : <<b, i>> \in live}

\* A slab counts the slots that are held and their bits are set; and a bitmap
\* that was zeroed has no other bit set.
SlabOK(b) ==
    /\ bitmap[b] \subseteq SlotsOf(class[b])
    /\ Held(b) \subseteq bitmap[b]
    /\ inuse[b] = Cardinality(Held(b))
    /\ Total[class[b]] <= Zeroed => bitmap[b] = Held(b)

BlocksOK == \A b \in Blocks : IF slabOwner[b] = "SLAB" THEN SlabOK(b) ELSE Held(b) = {}

SInv ==
    /\ TypeInv
    /\ BlocksOK
    /\ ListInv(slabList, Slabs, Labels(class, inuse))
    /\ KmallocServes
-----------------------------------------------------------------------------
\* A set of natural numbers that is not empty has a least one.
LEMMA LeastExists ==
    ASSUME NEW S \in SUBSET Nat, S # {}
    PROVE  \E m \in S : \A k \in S : m <= k
<1>1. PICK m \in S : \A k \in S : ~(<<k, m>> \in OpToRel(<, Nat))
  BY WFMin, NatLessThanWellFounded, Zenon
<1>2. \A k \in S : ~(k < m)
  BY <1>1, Zenon DEF OpToRel
<1>. QED BY <1>2

\* The search for a free slot finds exactly one, if there is one.
LEMMA LowestFree ==
    ASSUME NEW c \in Classes, NEW bits \in SUBSET Nat
    PROVE  LET free == FreeSlots(c, bits)
               got  == {i \in free : \A j \in free : i <= j}
           IN  \/ free = {} /\ got = {} /\ Cardinality(got) = 0
               \/ \E i \in free : got = {i} /\ Cardinality(got) = 1
<1> DEFINE free == FreeSlots(c, bits)
           got  == {i \in free : \A j \in free : i <= j}
<1>1. free \in SUBSET Nat
  BY SlabConstants DEF FreeSlots, SlotsOf
<1>2. CASE free = {}
  BY <1>2, FS_EmptySet
<1>3. CASE free # {}
  <2>1. PICK m \in free : \A k \in free : m <= k
    BY <1>1, <1>3, LeastExists
  <2>2. got = {m}
    BY <1>1, <2>1
  <2>. QED BY <2>1, <2>2, FS_Singleton
<1>. QED BY <1>2, <1>3

LEMMA NodeFacts ==
    /\ Blocks \subseteq SlabNodes /\ ListHeads \subseteq SlabNodes
    /\ Blocks \cap ListHeads = {}
    /\ \A c \in Classes : Partial(c) \in ListHeads /\ Full(c) \in ListHeads
    /\ \A c, d : Partial(c) # Full(d)
    /\ \A c, d : Partial(c) = Partial(d) => c = d
    /\ \A n \in SlabNodes : n \in Blocks \/ n \in ListHeads
BY SlabConstants DEF SlabNodes, ListHeads, Partial, Full

\* A slab that joins the list of its label.
LEMMA JoinList ==
    ASSUME NEW l, NEW F, NEW f, ListInv(l, F, f),
           NEW b \in Blocks, b \notin F, NEW h \in ListHeads, f[b] = f[h]
    PROVE  ListInv(ListAdd(l, b, h), F \cup {b}, f)
<1> DEFINE k == ListAdd(l, b, h)
<1>1. /\ b \in SlabNodes /\ h \in SlabNodes /\ b # h /\ b \notin ListHeads
      /\ ListHeads \in SUBSET SlabNodes /\ l \in Lists(SlabNodes) /\ RingOK(l, SlabNodes)
      /\ ~Linked(l, b) /\ Anchored(l, SlabNodes, ListHeads)
  BY NodeFacts DEF ListInv
<1>2. /\ k \in Lists(SlabNodes) /\ RingOK(k, SlabNodes)
      /\ \A m \in SlabNodes \ {h} : Linked(k, m) <=> (m = b \/ Linked(l, m))
  BY <1>1, ListAddRing
<1>3. Anchored(k, SlabNodes, ListHeads)
  BY <1>1, ListAddAnchored
<1>4. \A n \in SlabNodes : f[k.next[n]] = f[n]
  BY <1>1, ListAddLabel DEF ListInv
<1>5. \A a \in Blocks : Linked(k, a) <=> a \in F \cup {b}
  BY <1>2, NodeFacts DEF ListInv
<1>. QED BY <1>2, <1>3, <1>4, <1>5 DEF ListInv

\* A slab that leaves its list.
LEMMA LeaveList ==
    ASSUME NEW l, NEW F, NEW f, ListInv(l, F, f), NEW b \in Blocks
    PROVE  ListInv(ListRemove(l, b), F \ {b}, f)
<1> DEFINE k == ListRemove(l, b)
<1>1. /\ b \in SlabNodes /\ b \notin ListHeads
      /\ ListHeads \in SUBSET SlabNodes /\ l \in Lists(SlabNodes) /\ RingOK(l, SlabNodes)
      /\ Anchored(l, SlabNodes, ListHeads)
  BY NodeFacts DEF ListInv
<1>2. k \in Lists(SlabNodes) /\ RingOK(k, SlabNodes) /\ ~Linked(k, b)
  BY <1>1, ListRemoveRing
<1>3. /\ Anchored(k, SlabNodes, ListHeads)
      /\ \A m \in SlabNodes \ (ListHeads \cup {b}) : Linked(k, m) <=> Linked(l, m)
  BY <1>1, ListRemoveAnchored
<1>4. \A n \in SlabNodes : f[k.next[n]] = f[n]
  BY <1>1, ListRemoveLabel DEF ListInv
<1>5. \A a \in Blocks : Linked(k, a) <=> a \in F \ {b}
  BY <1>2, <1>3, NodeFacts DEF ListInv
<1>. QED BY <1>2, <1>3, <1>4, <1>5 DEF ListInv

\* The label of a block that is on no list is nobody's business.
LEMMA Relabel ==
    ASSUME NEW l, NEW F, NEW f, NEW g, ListInv(l, F, f), NEW b \in Blocks, b \notin F,
           \A n \in SlabNodes \ {b} : g[n] = f[n]
    PROVE  ListInv(l, F, g)
<1>1. l.next \in [SlabNodes -> SlabNodes] /\ l.next[b] = b
  BY NodeFacts DEF ListInv, Lists, Linked
<1>2. \A n \in SlabNodes \ {b} : l.next[n] \in SlabNodes \ {b}
  BY <1>1, NodeFacts DEF ListInv, RingOK
<1>3. \A n \in SlabNodes : g[l.next[n]] = g[n]
  BY <1>1, <1>2 DEF ListInv
<1>. QED BY <1>3 DEF ListInv
-----------------------------------------------------------------------------
LEMMA SlotsFinite ==
    ASSUME NEW c \in Classes
    PROVE  /\ SlotsOf(c) \subseteq Nat /\ IsFiniteSet(SlotsOf(c)) /\ Total[c] \in Nat \ {0}
           /\ 0 \in SlotsOf(c)
<1>1. Total[c] \in Nat \ {0}
  BY SlabConstants
<1>2. IsFiniteSet(0..(Total[c] - 1))
  BY <1>1, FS_Interval
<1>. QED BY <1>1, <1>2 DEF SlotsOf

LEMMA SlotsSize ==
    ASSUME NEW c \in Classes
    PROVE  Cardinality(SlotsOf(c)) = Total[c]
<1>1. Total[c] \in Nat \ {0}
  BY SlabConstants
<1>2. \A k \in Int : Cardinality(0..k) = IF 0 > k THEN 0 ELSE k - 0 + 1
  BY FS_Interval, 0 \in Int, Zenon
<1>. QED BY <1>1, <1>2 DEF SlotsOf

\* The counts, in the words of the component.
LEMMA CountsExact ==
    ASSUME TypeInv, BlocksOK
    PROVE  /\ SlabCountsExact
           /\ \A b \in Blocks : slabOwner[b] = "SLAB" => bitmap[b] \subseteq SlotsOf(class[b])
<1>1. \A b \in Blocks : SlotsOf(class[b]) \subseteq Nat
  BY SlotsFinite DEF TypeInv
<1>2. \A b \in Blocks : slabOwner[b] = "SLAB" => SlabOK(b)
  BY DEF BlocksOK
<1>3. \A b \in Blocks : slabOwner[b] = "SLAB" => Held(b) = LiveIn(b)
  BY <1>1, <1>2 DEF SlabOK, Held, LiveIn
<1>4. ASSUME NEW o \in live PROVE slabOwner[o[1]] = "SLAB" /\ o[2] \in SlotsOf(class[o[1]])
  <2>1. o[1] \in Blocks /\ o[2] \in Nat /\ o = <<o[1], o[2]>>
    BY DEF TypeInv
  <2>2. o[2] \in Held(o[1])
    BY <2>1 DEF Held
  <2>. QED BY <2>1, <2>2 DEF SlabOK, BlocksOK
<1>. QED BY <1>2, <1>3, <1>4 DEF SlabOK, SlabCountsExact

\* The lists, in the words of the component.
LEMMA CacheLists ==
    ASSUME ListInv(slabList, Slabs, Labels(class, inuse))
    PROVE  CacheListsExact /\ slabList \in Lists(SlabNodes)
<1>1. slabList.next \in [SlabNodes -> SlabNodes]
  BY DEF ListInv, Lists
<1>2. \A n \in SlabNodes : Labels(class, inuse)[n] = ListOf(n)
  BY DEF Labels, ListOf
<1>3. \A n \in SlabNodes : ListOf(slabList.next[n]) = ListOf(n)
  BY <1>1, <1>2 DEF ListInv
<1>. QED BY <1>3 DEF ListInv, CacheListsExact, Slabs

LEMMA InitSInv == SlabInit => SInv
<1> SUFFICES ASSUME SlabInit PROVE SInv
  OBVIOUS
<1>1. TypeInv
  BY DEF SlabInit, TypeInv
<1>2. BlocksOK
  BY DEF SlabInit, BlocksOK, Held
<1>3. ListInv(slabList, Slabs, Labels(class, inuse))
  <2>1. slabList.next = [n \in SlabNodes |-> n] /\ slabList.prev = [n \in SlabNodes |-> n]
    BY DEF SlabInit, InitLists
  <2>2. slabList \in Lists(SlabNodes)
    BY DEF SlabInit, InitLists, Lists
  <2>3. Slabs = {}
    BY DEF Slabs, SlabInit
  <2>. QED BY <2>1, <2>2, <2>3, NodeFacts DEF ListInv, RingOK, Anchored, Linked
<1>. QED BY <1>1, <1>2, <1>3 DEF SlabInit, SInv, KmallocServes

\* _addr_from_slab and the end of kmalloc, whether the slab b was the first of
\* the partial list or is new.
LEMMA TakeStep ==
    ASSUME SInv, NEW b \in Blocks, NEW c \in Classes, NEW l,
           NEW bits \in SUBSET SlotsOf(c), NEW n \in Nat,
           Take(b, c, l, bits, n),
           slabOwner' = [slabOwner EXCEPT ![b] = "SLAB"],
           class' = [class EXCEPT ![b] = c],
           panicked' = panicked,
           ListInv(l, Slabs \cup {b}, [Labels(class, inuse) EXCEPT ![b] = Partial(c)]),
           Held(b) \subseteq bits, n = Cardinality(Held(b)), n # Total[c],
           Total[c] <= Zeroed => bits = Held(b)
    PROVE  SInv'
<1> DEFINE free == FreeSlots(c, bits)
           got  == {i \in free : \A j \in free : i <= j}
           m    == n + Cardinality(got)
           f    == [Labels(class, inuse) EXCEPT ![b] = Partial(c)]
           g    == [f EXCEPT ![b] = Full(c)]
<1>1. /\ bitmap' = [bitmap EXCEPT ![b] = bits \cup got]
      /\ inuse' = [inuse EXCEPT ![b] = m]
      /\ slabList' = Settled(l, b, c, m)
      /\ live' = live \cup {<<b, i>> : i \in got}
      /\ nulls' = IF got = {} THEN nulls \cup {c} ELSE nulls
  BY DEF Take
<1>2. \/ free = {} /\ got = {} /\ Cardinality(got) = 0
      \/ \E i \in free : got = {i} /\ Cardinality(got) = 1
  <2>1. bits \in SUBSET Nat
    BY SlotsFinite
  <2>. QED BY <2>1, LowestFree
<1>3. /\ SlotsOf(c) \subseteq Nat /\ IsFiniteSet(SlotsOf(c)) /\ got \subseteq SlotsOf(c) \ bits
      /\ free = SlotsOf(c) \ bits /\ Total[c] \in Nat /\ 0 \in SlotsOf(c)
  BY SlotsFinite DEF FreeSlots
<1>4. m \in Nat
  BY <1>2
<1>5. Held(b)' = Held(b) \cup got
  BY <1>1, <1>3 DEF Held
<1>6. \A a \in Blocks \ {b} : Held(a)' = Held(a)
  BY <1>1 DEF Held
<1>7. IsFiniteSet(Held(b)) /\ Held(b) \subseteq SlotsOf(c)
  BY <1>3, FS_Subset
<1>8. m = Cardinality(Held(b) \cup got)
  <2>1. CASE got = {}
    <3>1. Held(b) \cup got = Held(b) /\ Cardinality(got) = 0
      BY <2>1, FS_EmptySet
    <3>2. m = n
      BY <3>1
    <3> HIDE DEF m, got
    <3>. QED BY <3>1, <3>2
  <2>2. CASE \E i \in free : got = {i} /\ Cardinality(got) = 1
    <3>1. PICK i \in free : got = {i} /\ Cardinality(got) = 1
      BY <2>2
    <3>2. i \notin Held(b)
      BY <1>3, <3>1
    <3>3. Cardinality(Held(b) \cup {i}) = Cardinality(Held(b)) + 1
      BY <3>2, <1>7, FS_AddElement
    <3>4. Held(b) \cup got = Held(b) \cup {i}
      BY <3>1
    <3>. QED BY <3>1, <3>3, <3>4
  <2>. QED BY <1>2, <2>1, <2>2
<1>9. TypeInv'
  <2>1. got \subseteq Nat /\ bits \subseteq Nat
    BY <1>3
  <2>2. \A i \in got : <<b, i>> \in Blocks \X Nat
    BY <2>1
  <2>3. live' \subseteq Blocks \X Nat
    BY <1>1, <2>2 DEF SInv, TypeInv
  <2>. QED BY <1>1, <1>4, <2>1, <2>3 DEF SInv, TypeInv
<1>10. BlocksOK'
  <2>1. SlabOK(b)'
    <3>1. bitmap'[b] = bits \cup got /\ class'[b] = c /\ inuse'[b] = m
      BY <1>1 DEF SInv, TypeInv
    <3>. QED BY <3>1, <1>3, <1>5, <1>8 DEF SlabOK
  <2>2. ASSUME NEW a \in Blocks \ {b}
        PROVE  (IF slabOwner[a] = "SLAB" THEN SlabOK(a) ELSE Held(a) = {})'
    <3>1. /\ slabOwner'[a] = slabOwner[a] /\ bitmap'[a] = bitmap[a] /\ class'[a] = class[a]
          /\ inuse'[a] = inuse[a]
      BY <1>1 DEF SInv, TypeInv
    <3>. QED BY <3>1, <1>6 DEF SInv, BlocksOK, SlabOK
  <2>3. slabOwner'[b] = "SLAB"
    BY DEF SInv, TypeInv
  <2>. QED BY <2>1, <2>2, <2>3 DEF BlocksOK
<1>11. ListInv(slabList, Slabs, Labels(class, inuse))'
  <2>1. Slabs' = Slabs \cup {b}
    BY DEF SInv, TypeInv, Slabs
  <2>2. \A a \in SlabNodes : Labels(class', inuse')[a] = IF m = Total[c] THEN g[a] ELSE f[a]
    BY <1>1, NodeFacts DEF Labels, SInv, TypeInv
  <2>3. CASE m # Total[c]
    <3>1. slabList' = l
      BY <1>1, <2>3 DEF Settled
    <3>2. ListInv(l, Slabs \cup {b}, Labels(class', inuse'))
      <4>1. l.next \in [SlabNodes -> SlabNodes]
        BY DEF ListInv, Lists
      <4>. QED BY <4>1, <2>2, <2>3 DEF ListInv
    <3>. QED BY <3>1, <3>2, <2>1
  <2>4. CASE m = Total[c]
    <3>1. slabList' = ListAdd(ListRemove(l, b), b, Full(c))
      BY <1>1, <2>4 DEF Settled
    <3>2. ListInv(ListRemove(l, b), (Slabs \cup {b}) \ {b}, f)
      BY LeaveList
    <3>3. ListInv(ListRemove(l, b), (Slabs \cup {b}) \ {b}, Labels(class', inuse'))
      <4>1. \A a \in SlabNodes \ {b} : Labels(class', inuse')[a] = f[a]
        <5>1. \A a \in SlabNodes \ {b} : f[a] = Labels(class, inuse)[a]
          BY DEF Labels
        <5>2. \A a \in SlabNodes \ {b} : g[a] = Labels(class, inuse)[a]
          BY DEF Labels
        <5>. QED BY <2>2, <2>4, <5>1, <5>2
      <4>2. b \notin (Slabs \cup {b}) \ {b}
        OBVIOUS
      <4>. QED BY <3>2, <4>1, <4>2, Relabel
    <3>4. Full(c) \in ListHeads /\ Labels(class', inuse')[b] = Labels(class', inuse')[Full(c)]
      BY <1>1, NodeFacts, <2>4 DEF Labels, SInv, TypeInv
    <3>5. ListInv(slabList', ((Slabs \cup {b}) \ {b}) \cup {b}, Labels(class', inuse'))
      <4>1. b \notin (Slabs \cup {b}) \ {b}
        OBVIOUS
      <4>. QED BY <3>1, <3>3, <3>4, <4>1, JoinList
    <3>6. ((Slabs \cup {b}) \ {b}) \cup {b} = Slabs \cup {b}
      OBVIOUS
    <3>. QED BY <3>5, <3>6, <2>1
  <2>. QED BY <2>3, <2>4
<1>12. KmallocServes'
  <2>1. ASSUME got = {}, Total[c] <= Zeroed PROVE FALSE
    <3>1. Held(b) = SlotsOf(c)
      BY <2>1, <1>2, <1>3
    <3>2. Cardinality(SlotsOf(c)) = Total[c]
      BY SlotsSize
    <3>. QED BY <3>1, <3>2
  <2>. QED BY <2>1, <1>1, SlabConstants DEF SInv, KmallocServes
<1>. QED BY <1>9, <1>10, <1>11, <1>12 DEF SInv

\* Nothing of the invariant is about the panic.
LEMMA IdleKeepsSInv ==
    ASSUME SInv, UNCHANGED <<slabOwner, class, bitmap, inuse, slabList, live, nulls>>,
           panicked' \in BOOLEAN
    PROVE  SInv'
<1>1. \A b \in Blocks : Held(b)' = Held(b) /\ (SlabOK(b)' <=> SlabOK(b))
  BY DEF Held, SlabOK
<1>2. BlocksOK'
  BY <1>1 DEF SInv, BlocksOK
<1>3. TypeInv'
  BY DEF SInv, TypeInv
<1>4. Slabs' = Slabs
  BY DEF Slabs
<1>. QED BY <1>2, <1>3, <1>4 DEF SInv, ListInv, Labels, KmallocServes

LEMMA KmallocKeepsSInv ==
    ASSUME SInv, NEW c \in Classes, Kmalloc(c)
    PROVE  SInv'
<1> DEFINE f == Labels(class, inuse)
<1>1. /\ slabList \in Lists(SlabNodes) /\ RingOK(slabList, SlabNodes) /\ Anchored(slabList, SlabNodes, ListHeads)
      /\ Partial(c) \in SlabNodes /\ Partial(c) \in ListHeads /\ slabList.next \in [SlabNodes -> SlabNodes]
  BY NodeFacts DEF SInv, ListInv, Lists
<1>2. CASE /\ ~ListEmpty(slabList, Partial(c))
           /\ LET b == slabList.next[Partial(c)] IN Take(b, c, slabList, bitmap[b], inuse[b])
           /\ UNCHANGED <<slabOwner, class, panicked>>
  <2> DEFINE b == slabList.next[Partial(c)]
  <2>1. b \in SlabNodes /\ Linked(slabList, b) /\ f[b] = f[Partial(c)] /\ b # Partial(c)
    BY <1>1, <1>2, FirstLinked DEF SInv, ListInv
  <2>2. f[Partial(c)] = Partial(c)
    BY <1>1 DEF Labels
  <2>3. b \in Blocks
    BY <2>1, <2>2, NodeFacts DEF Labels
  <2>4. b \in Slabs /\ slabOwner[b] = "SLAB" /\ SlabOK(b)
    BY <2>1, <2>3 DEF SInv, ListInv, Slabs, BlocksOK
  <2>5. class[b] = c /\ inuse[b] # Total[c]
    BY <2>1, <2>2, <2>3, NodeFacts DEF Labels
  <2>6. [f EXCEPT ![b] = Partial(c)] = f
    BY <2>1, <2>2 DEF Labels
  <2>7. Slabs \cup {b} = Slabs
    BY <2>4
  <2>8. /\ slabOwner' = [slabOwner EXCEPT ![b] = "SLAB"] /\ class' = [class EXCEPT ![b] = c]
        /\ panicked' = panicked
    BY <1>2, <2>4, <2>5 DEF SInv, TypeInv
  <2>9. /\ bitmap[b] \in SUBSET SlotsOf(c) /\ inuse[b] \in Nat
        /\ Held(b) \subseteq bitmap[b] /\ inuse[b] = Cardinality(Held(b))
        /\ Total[c] <= Zeroed => bitmap[b] = Held(b)
    BY <2>3, <2>4, <2>5 DEF SlabOK, SInv, TypeInv
  <2>10. ListInv(slabList, Slabs \cup {b}, [f EXCEPT ![b] = Partial(c)])
    BY <2>6, <2>7 DEF SInv
  <2>11. Take(b, c, slabList, bitmap[b], inuse[b])
    BY <1>2
  <2> HIDE DEF b
  <2>. QED BY <2>3, <2>5, <2>8, <2>9, <2>10, <2>11, TakeStep
<1>3. ASSUME NEW b \in Blocks, NEW stale \in SUBSET (Zeroed..(Total[c] - 1)),
             SlabAlloc(b),
             class' = [class EXCEPT ![b] = c],
             Take(b, c, ListAdd(slabList, b, Partial(c)), stale, 0),
             UNCHANGED panicked
      PROVE  SInv'
  <2> DEFINE h == [f EXCEPT ![b] = Partial(c)]
  <2>1. slabOwner[b] = "FREE" /\ slabOwner' = [slabOwner EXCEPT ![b] = "SLAB"]
    BY <1>3 DEF SlabAlloc
  <2>2. Held(b) = {} /\ b \notin Slabs
    BY <2>1 DEF SInv, BlocksOK, Slabs
  <2>3. stale \in SUBSET SlotsOf(c) /\ (Total[c] <= Zeroed => stale = {})
    BY SlabConstants DEF SlotsOf
  <2>4. 0 # Total[c] /\ 0 \in Nat /\ 0 = Cardinality(Held(b))
    BY SlabConstants, <2>2, FS_EmptySet
  <2>5. ListInv(slabList, Slabs, h)
    <3>1. \A n \in SlabNodes \ {b} : h[n] = f[n]
      BY DEF Labels
    <3> HIDE DEF h
    <3>. QED BY <3>1, <2>2, Relabel DEF SInv
  <2>6. h[b] = h[Partial(c)]
    BY <1>1, NodeFacts DEF Labels
  <2>7. ListInv(ListAdd(slabList, b, Partial(c)), Slabs \cup {b}, h)
    <3> HIDE DEF h
    <3>. QED BY <2>2, <2>5, <2>6, <1>1, JoinList
  <2>. QED BY <1>3, <2>1, <2>2, <2>3, <2>4, <2>7, TakeStep
<1>4. CASE panicked' = TRUE /\ UNCHANGED <<slabOwner, class, bitmap, inuse, slabList, live, nulls>>
  BY <1>4, IdleKeepsSInv
<1>. QED BY <1>2, <1>3, <1>4 DEF Kmalloc

LEMMA KfreeKeepsSInv ==
    ASSUME SInv, NEW b \in Blocks, NEW i, Kfree(b, i)
    PROVE  SInv'
<1> DEFINE c     == class[b]
           f     == Labels(class, inuse)
           moved == IF inuse[b] = Total[c]
                    THEN ListAdd(ListRemove(slabList, b), b, Partial(c)) ELSE slabList
<1>1. CASE UNCHANGED slabVars
  BY <1>1, IdleKeepsSInv DEF slabVars, SInv, TypeInv
<1>2. CASE /\ slabOwner[b] = "SLAB" /\ <<b, i>> \in live /\ i \in bitmap[b]
           /\ bitmap' = [bitmap EXCEPT ![b] = @ \ {i}]
           /\ inuse' = [inuse EXCEPT ![b] = @ - 1]
           /\ IF inuse[b] = 1
              THEN /\ slabList' = ListRemove(moved, b)
                   /\ slabOwner' = [slabOwner EXCEPT ![b] = "FREE"]
              ELSE /\ slabList' = moved
                   /\ UNCHANGED slabOwner
           /\ live' = live \ {<<b, i>>}
           /\ UNCHANGED <<class, nulls, panicked>>
  <2>1. /\ c \in Classes /\ SlabOK(b) /\ b \in Slabs /\ SlotsOf(c) \subseteq Nat
        /\ IsFiniteSet(SlotsOf(c)) /\ Total[c] \in Nat \ {0} /\ inuse[b] \in Nat
    BY <1>2, SlotsFinite DEF SInv, TypeInv, BlocksOK, Slabs
  <2>2. i \in Held(b) /\ IsFiniteSet(Held(b)) /\ Held(b) \subseteq SlotsOf(c)
    BY <1>2, <2>1, FS_Subset DEF SlabOK, Held
  <2>3. Held(b)' = Held(b) \ {i} /\ \A a \in Blocks \ {b} : Held(a)' = Held(a)
    BY <1>2 DEF Held
  <2>4. Cardinality(Held(b) \ {i}) = inuse[b] - 1 /\ IsFiniteSet(Held(b) \ {i})
    BY <2>1, <2>2, FS_RemoveElement DEF SlabOK
  <2>5. inuse[b] - 1 \in Nat
    BY <2>4, FS_CardinalityType
  <2>6. inuse[b] = 1 => Held(b)' = {}
    BY <2>3, <2>4, FS_EmptySet
  <2>7. TypeInv'
    BY <1>2, <2>5 DEF SInv, TypeInv
  <2>8. BlocksOK'
    <3>1. SlabOK(b)'
      <4>1. bitmap'[b] = bitmap[b] \ {i} /\ class'[b] = c /\ inuse'[b] = inuse[b] - 1
        BY <1>2 DEF SInv, TypeInv
      <4>. QED BY <4>1, <2>1, <2>3, <2>4 DEF SlabOK
    <3>2. ASSUME NEW a \in Blocks \ {b}
          PROVE  (IF slabOwner[a] = "SLAB" THEN SlabOK(a) ELSE Held(a) = {})'
      <4>1. /\ slabOwner'[a] = slabOwner[a] /\ bitmap'[a] = bitmap[a] /\ class'[a] = class[a]
            /\ inuse'[a] = inuse[a]
        BY <1>2 DEF SInv, TypeInv
      <4>. QED BY <4>1, <2>3 DEF SInv, BlocksOK, SlabOK
    <3>3. slabOwner'[b] # "SLAB" => Held(b)' = {}
      BY <1>2, <2>6
    <3>. QED BY <3>1, <3>2, <3>3 DEF BlocksOK
  <2>9. ListInv(slabList, Slabs, Labels(class, inuse))'
    <3> DEFINE g == Labels(class', inuse')
    <3>1. \A n \in SlabNodes \ {b} : g[n] = f[n]
      BY <1>2 DEF Labels, SInv, TypeInv
    <3>2. inuse[b] <= Total[c]
      <4>1. Cardinality(Held(b)) <= Cardinality(SlotsOf(c))
        BY <2>1, <2>2, FS_Subset
      <4>. QED BY <4>1, <2>1, SlotsSize DEF SlabOK
    <3>3. g[b] = Partial(c) /\ Partial(c) \in ListHeads /\ g[Partial(c)] = Partial(c)
      BY <1>2, <2>1, <2>5, <3>2, NodeFacts DEF Labels, SInv, TypeInv
    <3>4. ListInv(moved, Slabs, g)
      <4>1. CASE inuse[b] = Total[c]
        <5>1. ListInv(ListRemove(slabList, b), Slabs \ {b}, f)
          BY LeaveList DEF SInv
        <5>2. ListInv(ListRemove(slabList, b), Slabs \ {b}, g)
          <6> HIDE DEF f, g
          <6>. QED BY <5>1, <3>1, b \notin Slabs \ {b}, Relabel
        <5>3. ListInv(ListAdd(ListRemove(slabList, b), b, Partial(c)), (Slabs \ {b}) \cup {b}, g)
          <6> HIDE DEF f, g
          <6>. QED BY <5>2, <3>3, b \notin Slabs \ {b}, JoinList
        <5>4. (Slabs \ {b}) \cup {b} = Slabs
          BY <2>1
        <5>. QED BY <4>1, <5>3, <5>4
      <4>2. CASE inuse[b] # Total[c]
        <5>1. f[b] = Partial(c)
          BY <4>2, NodeFacts DEF Labels
        <5>2. \A n \in SlabNodes : g[n] = f[n]
          BY <5>1, <3>1, <3>3
        <5>3. slabList.next \in [SlabNodes -> SlabNodes]
          BY DEF SInv, ListInv, Lists
        <5>. QED BY <4>2, <5>2, <5>3 DEF SInv, ListInv
      <4>. QED BY <4>1, <4>2
    <3>5. CASE inuse[b] = 1
      <4>1. ListInv(ListRemove(moved, b), Slabs \ {b}, g)
        <5> HIDE DEF moved, g
        <5>. QED BY <3>4, LeaveList
      <4>2. Slabs' = Slabs \ {b}
        BY <1>2, <3>5 DEF Slabs, SInv, TypeInv
      <4>. QED BY <1>2, <3>5, <4>1, <4>2
    <3>6. CASE inuse[b] # 1
      <4>1. Slabs' = Slabs /\ slabList' = moved
        BY <1>2, <3>6 DEF Slabs
      <4>. QED BY <3>4, <4>1
    <3>. QED BY <3>5, <3>6
  <2>10. KmallocServes'
    BY <1>2 DEF SInv, KmallocServes
  <2>. QED BY <2>7, <2>8, <2>9, <2>10 DEF SInv
<1>. QED BY <1>1, <1>2 DEF Kfree

\* A block of its own is on no list and holds no slot.
LEMMA LargeKeepsSInv ==
    ASSUME SInv, NEW b \in Blocks, KmallocLarge(b) \/ KfreeLarge(b)
    PROVE  SInv'
<1>1. /\ slabOwner[b] # "SLAB" /\ slabOwner'[b] # "SLAB"
      /\ slabOwner' \in [Blocks -> {"FREE", "SLAB", "BUDDY"}]
      /\ \A a \in Blocks \ {b} : slabOwner'[a] = slabOwner[a]
      /\ UNCHANGED <<class, bitmap, inuse, slabList, live, nulls, panicked>>
  BY DEF KmallocLarge, KfreeLarge, SInv, TypeInv
<1>2. Slabs' = Slabs
  BY <1>1 DEF Slabs
<1>3. TypeInv'
  BY <1>1 DEF SInv, TypeInv
<1>4. \A a \in Blocks : Held(a)' = Held(a) /\ (SlabOK(a)' <=> SlabOK(a))
  BY <1>1 DEF Held, SlabOK
<1>5. BlocksOK'
  BY <1>1, <1>4 DEF SInv, BlocksOK
<1>. QED BY <1>1, <1>2, <1>3, <1>5 DEF SInv, ListInv, Labels, KmallocServes

LEMMA SInvInductive == SInv /\ [SlabNext]_slabVars => SInv'
<1> SUFFICES ASSUME SInv, [SlabNext]_slabVars PROVE SInv'
  OBVIOUS
<1>1. CASE UNCHANGED slabVars
  BY <1>1, IdleKeepsSInv DEF slabVars, SInv, TypeInv
<1>. QED BY <1>1, KmallocKeepsSInv, KfreeKeepsSInv, LargeKeepsSInv DEF SlabNext

\* kmalloc vends no object twice, kfree reclaims no slab that has a live
\* object, and a slab is linked exactly once, on the list that its count says:
\* for every number of blocks, caches and objects in a slab, and whatever the
\* part of the bitmap held that kmalloc.c does not zero.
THEOREM SlabsCorrect == SlabSpec => []SlabsExact
<1>1. SInv => SlabsExact
  <2> SUFFICES ASSUME SInv PROVE SlabsExact
    OBVIOUS
  <2>1. CacheListsExact /\ slabList \in Lists(SlabNodes)
    BY CacheLists DEF SInv
  <2>2. /\ SlabCountsExact
        /\ \A b \in Blocks : slabOwner[b] = "SLAB" => bitmap[b] \subseteq SlotsOf(class[b])
    BY CountsExact DEF SInv
  <2>. QED BY <2>1, <2>2 DEF SlabsExact, SlabTypeOK, SInv, TypeInv
<1>. QED BY <1>1, InitSInv, SInvInductive, PTL DEF SlabSpec

\* kmalloc returns NULL for no class whose whole bitmap is zeroed, whatever
\* the calls before: the slab it takes from the partial list has a free slot.
THEOREM KmallocAlwaysServes == SlabSpec => []KmallocServes
<1>1. SInv => KmallocServes
  BY DEF SInv
<1>. QED BY <1>1, InitSInv, SInvInductive, PTL DEF SlabSpec
=============================================================================
