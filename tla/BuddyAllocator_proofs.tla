------------------------ MODULE BuddyAllocator_proofs ------------------------
(***************************************************************************)
(* The blocks of the buddy allocator tile the managed pages, its lists     *)
(* agree with the page frames, and it implements PageAllocator, for every  *)
(* number of orders and every size of the reserved prefix; and between     *)
(* calls no free block has a free buddy of its order.                      *)
(***************************************************************************)
EXTENDS BuddyAllocator, LinkedList_proofs

ListHeads == {ListHead(o) : o \in Orders}

Heads     == {p \in Pages : IsHead(p)}
FreeHeads == {p \in Heads : owner[p] = "FREE"}

\* Tiling, as a fact about the field order of the frames, a set of head pages
\* and the end of the pages that are laid out.
TileInv(ord, H, laid) ==
    /\ \A p \in H :
          /\ p >= Reserved
          /\ ord[p] \in Orders
          /\ p + Span[ord[p]] <= laid
          /\ \A q \in Tails(p, ord[p]) : q \notin H /\ ord[q] = p
    /\ \A p \in Reserved..(laid - 1) :
          p \notin H => ord[p] \in H /\ p \in Tails(ord[p], ord[ord[p]])

Label(ord, n) == IF n < NPages THEN ord[n] ELSE n - NPages

\* FreeListsExact, with F for the pages that are linked; moreover every linked
\* page is on the ring of a list head.
ListInv(l, ord, F) ==
    /\ l \in Lists(Nodes)
    /\ RingOK(l, Nodes)
    /\ Anchored(l, Nodes, ListHeads)
    /\ \A p \in Pages : Linked(l, p) <=> p \in F
    /\ \A n \in Nodes : Label(ord, l.next[n]) = Label(ord, n)

\* The flags tell heads from tails, and an allocated block has all its tails.
FlagsInv ==
    /\ \A p \in Heads : flags[p] = {"HEAD"}
    /\ \A p \in Pages : IsTail(p) => p >= Reserved /\ p < Laid
    /\ \A p \in Heads : owner[p] # "FREE" =>
          \A q \in Tails(p, order[p]) : flags[q] = {"TAIL"}

\* What the function that is running knows.
StepInv ==
    /\ step = "layout" => /\ Reserved <= arg /\ NPages < arg + 2 * Span[level]
                          /\ Heads = FreeHeads
    /\ step = "split" => arg <= level /\ ~ListEmpty(list, ListHead(level))
    /\ step = "coalesce" => arg \in FreeHeads

BInv ==
    /\ TypeOK
    /\ TileInv(order, Heads, Laid)
    /\ ListInv(list, order, FreeHeads)
    /\ \A p \in Pages : p < Reserved => owner[p] = "RESERVED"
    /\ FlagsInv
    /\ StepInv
-----------------------------------------------------------------------------
LEMMA SpanFacts ==
    /\ NPages \in Nat /\ NPages > 0 /\ MaxOrder \in Nat /\ MaxOrder \in Orders
    /\ Reserved \in Nat /\ Reserved < NPages /\ MaxOrder < Reserved
    /\ \A o \in Orders : Span[o] \in Nat /\ Span[o] >= 1
    /\ \A o \in Orders : o > 0 => o - 1 \in Orders /\ Span[o] = 2 * Span[o - 1]
    /\ \A o \in Orders : o < MaxOrder => o + 1 \in Orders /\ Span[o + 1] = 2 * Span[o]
    /\ Span[0] = 1
<1>2. /\ NPages \in Nat /\ NPages > 0 /\ MaxOrder \in Nat /\ MaxOrder \in Orders
      /\ Reserved \in Nat /\ Reserved < NPages /\ MaxOrder < Reserved /\ Span[0] = 1
  BY BuddyConstants DEF NPages, Orders
<1>3. ASSUME NEW o \in Orders PROVE Span[o] \in Nat /\ Span[o] >= 1
  <2>1. Span[o] \in Nat
    BY BuddyConstants DEF Orders
  <2>2. PICK m \in 1..NPages : NPages = m * Span[o]
    BY BuddyConstants DEF Orders, NPages
  <2>3. Span[o] # 0
    BY <1>2, <2>2
  <2>. QED BY <2>1, <2>3
<1>4. \A o \in Orders : o > 0 => o - 1 \in Orders /\ Span[o] = 2 * Span[o - 1]
  BY BuddyConstants DEF Orders
<1>5. \A o \in Orders : o < MaxOrder => o + 1 \in Orders /\ Span[o + 1] = 2 * Span[o]
  BY BuddyConstants DEF Orders
<1>. QED BY <1>2, <1>3, <1>4, <1>5

LEMMA Times == \A a, b, s \in Nat : a >= b => a * s >= b * s
OBVIOUS

LEMMA Quotient ==
    ASSUME NEW p \in Nat, NEW s \in Nat, s >= 1
    PROVE  p \div s \in Nat /\ (p \div s) * s <= p /\ p < (p \div s) * s + s
<1>1. p = s * (p \div s) + (p % s)
  OBVIOUS
<1>2. p % s >= 0 /\ p % s < s
  OBVIOUS
<1>3. p \div s \in Nat
  OBVIOUS
<1>. QED BY <1>1, <1>2, <1>3

\* The bit of the order of a block that ends at the end of memory is set.
LEMMA LastBlock ==
    ASSUME NEW p \in Nat, NEW s \in Nat, s >= 1, NEW m \in Nat,
           p + s = m * (2 * s)
    PROVE  (p \div s) % 2 # 0
<1> DEFINE d == p \div s
<1>1. d \in Nat /\ d * s <= p /\ p < d * s + s
  BY Quotient
<1> HIDE DEF d
<1>2. m >= 1
  OBVIOUS
<1>3. 2 * m \in Nat /\ p + s = (2 * m) * s
  OBVIOUS
<1>4. (d + 1) * s = d * s + s /\ (d + 2) * s = d * s + 2 * s /\ d + 1 \in Nat /\ d + 2 \in Nat
  BY <1>1
<1>5. ~(2 * m >= d + 2)
  BY <1>1, <1>3, <1>4, Times
<1>6. ~(d >= 2 * m)
  BY <1>1, <1>3, Times
<1>7. d = 2 * m - 1
  BY <1>1, <1>2, <1>5, <1>6
<1>8. d % 2 # 0
  BY <1>1, <1>2, <1>7
<1>. QED BY <1>8 DEF d

LEMMA Odd == \A d \in Nat : d % 2 # 0 => d >= 1
OBVIOUS

\* The same for the block below, and both for the buddy of a page.
LEMMA BuddyBit ==
    ASSUME NEW p \in Nat, NEW s \in Nat, s >= 1, NEW m \in Nat,
           p + s <= m * (2 * s)
    PROVE  IF (p \div s) % 2 = 0 THEN p + s < m * (2 * s) ELSE p >= s
<1>1. m * (2 * s) \in Nat
  OBVIOUS
<1>2. CASE (p \div s) % 2 = 0
  <2>1. p + s # m * (2 * s)
    BY <1>2, LastBlock
  <2>. QED BY <1>1, <1>2, <2>1
<1>3. CASE (p \div s) % 2 # 0
  <2> DEFINE d == p \div s
  <2>1. d \in Nat /\ d * s <= p
    BY Quotient
  <2>2. d % 2 # 0
    BY <1>3
  <2> HIDE DEF d
  <2>3. d >= 1
    BY <2>1, <2>2, Odd
  <2>4. d * s >= 1 * s
    BY <2>1, <2>3, Times
  <2>5. p >= s
    BY <2>1, <2>4
  <2>. QED BY <1>3, <2>5
<1>. QED BY <1>2, <1>3

\* The buddy that coalesce_up computes is always a frame of the array.
LEMMA BuddyInRange ==
    ASSUME NEW o \in Orders, o < MaxOrder, NEW p \in Pages,
           p + Span[o] <= NPages
    PROVE  /\ Buddy(p, o) \in Pages
           /\ Buddy(p, o) = p + Span[o] \/ Buddy(p, o) = p - Span[o]
<1>1. /\ NPages \in Nat /\ NPages > 0 /\ Span[o] \in Nat /\ Span[o] >= 1
      /\ Span[o + 1] = 2 * Span[o] /\ o + 1 \in Orders
  BY SpanFacts
<1>2. p \in Nat /\ p < NPages
  BY <1>1 DEF Pages
<1>3. PICK m \in 1..NPages : NPages = m * (2 * Span[o])
  BY <1>1, BuddyConstants DEF NPages, Orders
<1>4. m \in Nat /\ p + Span[o] <= m * (2 * Span[o])
  BY <1>1, <1>3
<1>5. IF (p \div Span[o]) % 2 = 0 THEN p + Span[o] < m * (2 * Span[o]) ELSE p >= Span[o]
  BY <1>1, <1>2, <1>4, BuddyBit
<1>6. Buddy(p, o) = IF (p \div Span[o]) % 2 = 0 THEN p + Span[o] ELSE p - Span[o]
  BY DEF Buddy
<1>7. CASE Buddy(p, o) = p + Span[o] /\ p + Span[o] < NPages
  BY <1>1, <1>2, <1>7 DEF Pages
<1>8. CASE Buddy(p, o) = p - Span[o] /\ p >= Span[o]
  BY <1>1, <1>2, <1>8 DEF Pages
<1>. QED BY <1>3, <1>5, <1>6, <1>7, <1>8, Zenon
-----------------------------------------------------------------------------
\* Lists: what list_add, list_remove and a change of the field order do.

LEMMA NodeFacts ==
    /\ Pages \subseteq Nodes /\ ListHeads \subseteq Nodes
    /\ \A p \in Pages : p \notin ListHeads /\ p \in Nat /\ p < NPages
    /\ \A n \in Nodes : n \notin Pages => n \in ListHeads /\ n >= NPages /\ n - NPages \in Orders
    /\ \A o \in Orders : ListHead(o) \in ListHeads /\ ~(ListHead(o) < NPages)
                         /\ ListHead(o) - NPages = o
<1>1. NPages \in Nat /\ NPages > 0 /\ MaxOrder \in Nat
  BY SpanFacts
<1>2. Pages \subseteq Nodes /\ ListHeads \subseteq Nodes
  BY <1>1 DEF Pages, Nodes, ListHeads, ListHead, Orders
<1>3. \A p \in Pages : p \notin ListHeads /\ p \in Nat /\ p < NPages
  BY <1>1 DEF Pages, ListHeads, ListHead, Orders
<1>4. ASSUME NEW n \in Nodes, n \notin Pages
      PROVE  n \in ListHeads /\ n >= NPages /\ n - NPages \in Orders
  <2>1. n >= NPages /\ n - NPages \in Orders
    BY <1>1, <1>4 DEF Pages, Nodes, Orders
  <2>2. n = ListHead(n - NPages)
    BY <1>1, <2>1 DEF ListHead, Orders, Nodes
  <2>. QED BY <2>1, <2>2 DEF ListHeads
<1>5. \A o \in Orders : ListHead(o) \in ListHeads /\ ~(ListHead(o) < NPages)
                         /\ ListHead(o) - NPages = o
  BY <1>1 DEF ListHeads, ListHead, Orders
<1>. QED BY <1>2, <1>3, <1>4, <1>5

LEMMA ListInvAdd ==
    ASSUME NEW l, NEW ord, NEW F, ListInv(l, ord, F),
           NEW p \in Pages, p \notin F, NEW o \in Orders, ord[p] = o
    PROVE  /\ ListInv(ListAdd(l, p, ListHead(o)), ord, F \cup {p})
           /\ ~ListEmpty(ListAdd(l, p, ListHead(o)), ListHead(o))
           /\ ListAdd(l, p, ListHead(o)).next[ListHead(o)] = p
<1> DEFINE h == ListHead(o)
           k == ListAdd(l, p, h)
           f == [n \in Nodes |-> Label(ord, n)]
<1>1. p \in Nodes /\ h \in Nodes /\ h \in ListHeads /\ p \notin ListHeads /\ p # h
      /\ ListHeads \in SUBSET Nodes /\ Pages \subseteq Nodes
  BY NodeFacts
<1>2. l \in Lists(Nodes) /\ RingOK(l, Nodes) /\ ~Linked(l, p)
      /\ Anchored(l, Nodes, ListHeads)
  BY DEF ListInv
<1>3. f[p] = f[h] /\ \A m \in Nodes : f[l.next[m]] = f[m]
  <2>1. \A m \in Nodes : l.next[m] \in Nodes
    BY <1>2 DEF Lists
  <2>2. Label(ord, h) = o /\ Label(ord, p) = o
    BY NodeFacts DEF Label
  <2>. QED BY <1>1, <2>1, <2>2 DEF ListInv
<1> HIDE DEF f, h
<1>4. /\ k \in Lists(Nodes) /\ RingOK(k, Nodes) /\ k.next[h] = p
      /\ \A m \in Nodes \ {h} : Linked(k, m) <=> (m = p \/ Linked(l, m))
  BY <1>1, <1>2, ListAddRing
<1>5. Anchored(k, Nodes, ListHeads)
  BY <1>1, <1>2, ListAddAnchored
<1>6. \A m \in Nodes : f[k.next[m]] = f[m]
  BY <1>1, <1>2, <1>3, ListAddLabel
<1>7. \A q \in Pages : Linked(k, q) <=> q \in F \cup {p}
  <2>1. \A q \in Pages : q # h /\ q \in Nodes
    BY <1>1, NodeFacts
  <2>. QED BY <1>4, <2>1 DEF ListInv
<1>8. \A m \in Nodes : Label(ord, k.next[m]) = Label(ord, m)
  <2>1. \A m \in Nodes : k.next[m] \in Nodes
    BY <1>4 DEF Lists
  <2>. QED BY <1>6, <2>1 DEF f
<1>9. ~ListEmpty(k, h)
  BY <1>1, <1>4 DEF ListEmpty
<1>. QED BY <1>4, <1>5, <1>7, <1>8, <1>9 DEF ListInv, h

LEMMA ListInvRemove ==
    ASSUME NEW l, NEW ord, NEW F, ListInv(l, ord, F), NEW p \in Pages
    PROVE  ListInv(ListRemove(l, p), ord, F \ {p})
<1> DEFINE k == ListRemove(l, p)
           f == [n \in Nodes |-> Label(ord, n)]
<1>1. p \in Nodes /\ p \notin ListHeads /\ ListHeads \in SUBSET Nodes /\ Pages \subseteq Nodes
      /\ \A q \in Pages : q \notin ListHeads
  BY NodeFacts
<1>2. l \in Lists(Nodes) /\ RingOK(l, Nodes) /\ Anchored(l, Nodes, ListHeads)
  BY DEF ListInv
<1>3. \A m \in Nodes : f[l.next[m]] = f[m]
  <2>1. \A m \in Nodes : l.next[m] \in Nodes
    BY <1>2 DEF Lists
  <2>. QED BY <2>1 DEF ListInv
<1> HIDE DEF f
<1>4. k \in Lists(Nodes) /\ RingOK(k, Nodes) /\ ~Linked(k, p)
  BY <1>1, <1>2, ListRemoveRing
<1>5. /\ Anchored(k, Nodes, ListHeads)
      /\ \A m \in Nodes \ (ListHeads \cup {p}) : Linked(k, m) <=> Linked(l, m)
  BY <1>1, <1>2, ListRemoveAnchored
<1>6. \A m \in Nodes : f[k.next[m]] = f[m]
  BY <1>1, <1>2, <1>3, ListRemoveLabel
<1>7. \A q \in Pages : Linked(k, q) <=> q \in F \ {p}
  BY <1>1, <1>4, <1>5 DEF ListInv
<1>8. \A m \in Nodes : Label(ord, k.next[m]) = Label(ord, m)
  <2>1. \A m \in Nodes : k.next[m] \in Nodes
    BY <1>4 DEF Lists
  <2>. QED BY <1>6, <2>1 DEF f
<1>. QED BY <1>4, <1>5, <1>7, <1>8 DEF ListInv

\* Only linked pages need to keep their order.
LEMMA ListInvRelabel ==
    ASSUME NEW l, NEW ord, NEW F, ListInv(l, ord, F), NEW ord2,
           \A p \in Pages : p \in F => ord2[p] = ord[p]
    PROVE  ListInv(l, ord2, F)
<1>1. SUFFICES ASSUME NEW n \in Nodes PROVE Label(ord2, l.next[n]) = Label(ord2, n)
  BY DEF ListInv
<1>2. l.next[n] \in Nodes /\ l.prev[l.next[n]] = n /\ Label(ord, l.next[n]) = Label(ord, n)
  BY DEF ListInv, Lists, RingOK
<1>3. CASE l.next[n] = n
  BY <1>3
<1>4. CASE l.next[n] # n
  <2>1. ASSUME NEW m \in Nodes, m = n \/ m = l.next[n]
        PROVE  Label(ord2, m) = Label(ord, m)
    <3>1. l.next[m] # m
      BY <1>2, <1>4, <2>1 DEF ListInv, RingOK
    <3>2. CASE m \in Pages
      BY <3>1, <3>2 DEF ListInv, Linked, Label
    <3>3. CASE m \notin Pages
      <4>1. m >= NPages /\ NPages \in Nat /\ m \in Nat
        BY <3>3, NodeFacts, SpanFacts DEF Nodes
      <4>2. ~(m < NPages)
        BY <4>1
      <4>. QED BY <4>2 DEF Label
    <3>. QED BY <3>2, <3>3
  <2>. QED BY <1>2, <2>1
<1>. QED BY <1>3, <1>4

\* The first block of a list that is not empty is a free block of its order.
LEMMA ListInvFirst ==
    ASSUME NEW l, NEW ord, NEW F, ListInv(l, ord, F), NEW o \in Orders,
           ord \in [Pages -> Nat], ~ListEmpty(l, ListHead(o))
    PROVE  /\ l.next[ListHead(o)] \in Pages
           /\ l.next[ListHead(o)] \in F
           /\ ord[l.next[ListHead(o)]] = o
<1> DEFINE h == ListHead(o)
           p == l.next[h]
<1>1. h \in Nodes /\ Label(ord, h) = o
  BY NodeFacts DEF Label
<1>2. l \in Lists(Nodes) /\ RingOK(l, Nodes)
  BY DEF ListInv
<1>3. p \in Nodes /\ p # h /\ Linked(l, p)
  BY <1>1, <1>2, FirstLinked
<1>4. Label(ord, p) = o
  BY <1>1 DEF ListInv
<1>5. p \in Pages
  <2>1. SUFFICES ASSUME p \notin Pages PROVE FALSE
    OBVIOUS
  <2>2. p >= NPages /\ NPages \in Nat /\ p \in Nat
    BY <1>3, <2>1, NodeFacts, SpanFacts DEF Nodes
  <2>3. p - NPages = o
    BY <1>4, <2>2 DEF Label
  <2>4. p = NPages + o
    BY <2>2, <2>3 DEF Orders
  <2>. QED BY <1>3, <2>4 DEF ListHead
<1>6. ord[p] = o
  <2>1. p < NPages
    BY <1>5, NodeFacts
  <2>. QED BY <1>4, <2>1 DEF Label
<1>. QED BY <1>3, <1>5, <1>6 DEF ListInv

\* If all lists are empty then nothing is linked.
LEMMA ListInvEmpty ==
    ASSUME NEW l, NEW ord, NEW F, ListInv(l, ord, F),
           \A o \in Orders : ListEmpty(l, ListHead(o))
    PROVE  \A p \in Pages : p \notin F
<1> DEFINE S == Pages
<1>1. \A h \in ListHeads : l.next[h] = h
  BY DEF ListHeads, ListEmpty
<1>2. ASSUME NEW p \in Pages PROVE l.next[p] \in Pages
  <2>1. p \in Nodes /\ p \notin ListHeads
    BY NodeFacts
  <2>2. l.next[p] \in Nodes /\ l.prev[l.next[p]] = p
    BY <2>1 DEF ListInv, Lists, RingOK
  <2>3. l.next[p] \notin ListHeads
    <3>1. SUFFICES ASSUME l.next[p] \in ListHeads PROVE FALSE
      OBVIOUS
    <3>2. l.next[l.next[p]] = l.next[p]
      BY <1>1, <3>1
    <3>3. l.prev[l.next[l.next[p]]] = l.next[p]
      BY <2>2 DEF ListInv, RingOK
    <3>4. l.next[p] = p
      BY <2>2, <3>2, <3>3
    <3>. QED BY <2>1, <3>1, <3>4
  <2>. QED BY <2>2, <2>3, NodeFacts
<1>3. Pages \in SUBSET Nodes /\ Pages \cap ListHeads = {}
  BY NodeFacts
<1>4. \A p \in Pages : ~Linked(l, p)
  BY <1>2, <1>3 DEF ListInv, Anchored
<1>. QED BY <1>4 DEF ListInv
-----------------------------------------------------------------------------
\* Blocks: what splitting, merging and laying out do to a tiling.

LEMMA InPages == \A q : q \in Pages <=> q \in Nat /\ q < NPages
BY SpanFacts DEF Pages

LEMMA TailFacts ==
    ASSUME NEW p \in Nat, NEW o \in Orders
    PROVE  \A q : q \in Tails(p, o) <=> q \in Nat /\ p < q /\ q < p + Span[o]
BY SpanFacts DEF Tails

LEMMA TailsInPages ==
    ASSUME NEW p \in Pages, NEW o \in Orders, p + Span[o] <= NPages
    PROVE  \A q \in Tails(p, o) : q \in Pages
<1>1. p \in Nat /\ NPages \in Nat /\ Span[o] \in Nat
  BY InPages, SpanFacts
<1>2. \A q \in Tails(p, o) : q \in Nat /\ q < NPages
  BY <1>1, TailFacts
<1>. QED BY <1>2, InPages

\* Two blocks do not overlap.
LEMMA TileDisjoint ==
    ASSUME NEW ord, NEW H \in SUBSET Pages, NEW laid \in Nat, TileInv(ord, H, laid),
           NEW p \in H, NEW q \in H, p # q
    PROVE  p + Span[ord[p]] <= q \/ q + Span[ord[q]] <= p
<1>1. p \in Nat /\ q \in Nat
  BY NodeFacts
<1>2. ord[p] \in Orders /\ ord[q] \in Orders
  BY DEF TileInv
<1>3. Span[ord[p]] \in Nat /\ Span[ord[q]] \in Nat
  BY <1>2, SpanFacts
<1>4. ~(p < q /\ q < p + Span[ord[p]])
  BY <1>1, <1>2, TailFacts DEF TileInv
<1>5. ~(q < p /\ p < q + Span[ord[q]])
  BY <1>1, <1>2, TailFacts DEF TileInv
<1>. QED BY <1>1, <1>3, <1>4, <1>5

\* The field order when the block at b is split and c is its upper half.
OrderSplit(ord, b, c, half) ==
    [p \in Pages |-> IF p \in {b, c} THEN half
                     ELSE IF p \in Tails(b, half) THEN b
                     ELSE IF p \in Tails(c, half) THEN c
                     ELSE ord[p]]

LEMMA TileSplit ==
    ASSUME NEW ord \in [Pages -> Nat], NEW H \in SUBSET Pages, TileInv(ord, H, NPages),
           NEW b \in H, NEW half \in Orders, ord[b] = half + 1,
           NEW c \in Nat, c = b + Span[half]
    PROVE  /\ c \in Pages /\ c \notin H /\ c >= Reserved
           /\ \A q : q \in Tails(b, ord[b]) <=> q \in Tails(b, half) \/ q \in Tails(c, half) \/ q = c
           /\ TileInv(OrderSplit(ord, b, c, half), H \cup {c}, NPages)
<1> DEFINE ord2 == OrderSplit(ord, b, c, half)
<1>0. \A p \in Pages : ord2[p] = IF p \in {b, c} THEN half
                                   ELSE IF p \in Tails(b, half) THEN b
                                   ELSE IF p \in Tails(c, half) THEN c
                                   ELSE ord[p]
  BY DEF OrderSplit
<1> HIDE DEF ord2
<1>1. ord[b] \in Orders /\ b >= Reserved /\ b + Span[ord[b]] <= NPages
      /\ \A q \in Tails(b, ord[b]) : q \notin H /\ ord[q] = b
  BY DEF TileInv
<1>2. half \in Orders /\ Span[ord[b]] = 2 * Span[half] /\ Span[half] \in Nat /\ Span[half] >= 1
  <2>1. half < MaxOrder
    BY <1>1, SpanFacts DEF Orders
  <2>. QED BY <2>1, SpanFacts
<1>3. b \in Nat /\ NPages \in Nat /\ Reserved \in Nat
  BY NodeFacts, SpanFacts
<1>4. c \in Pages /\ c \in Nat /\ c >= Reserved
  <2>1. c \in Nat /\ c < NPages /\ c >= Reserved
    BY <1>1, <1>2, <1>3
  <2>. QED BY <2>1, InPages
<1>5. /\ \A q : q \in Tails(b, half) <=> q \in Nat /\ b < q /\ q < c
      /\ \A q : q \in Tails(c, half) <=> q \in Nat /\ c < q /\ q < c + Span[half]
      /\ \A q : q \in Tails(b, ord[b]) <=> q \in Nat /\ b < q /\ q < c + Span[half]
  BY <1>1, <1>2, <1>3, <1>4, TailFacts
<1>6. \A q : q \in Tails(b, ord[b]) <=> q \in Tails(b, half) \/ q \in Tails(c, half) \/ q = c
  BY <1>2, <1>3, <1>4, <1>5
<1>7. c \notin H /\ b # c /\ c \in Tails(b, ord[b])
  BY <1>1, <1>2, <1>3, <1>6
<1>8. \A p \in Pages : p \notin Tails(b, ord[b]) /\ p # b => ord2[p] = ord[p]
  BY <1>0, <1>6
<1>9. b \notin Tails(c, half) /\ c \notin Tails(b, half) /\ b \notin Tails(b, half)
  BY <1>2, <1>3, <1>4, <1>5
<1>10. \A q \in Tails(b, half) : q \in Pages /\ ord2[q] = b /\ q \notin H \cup {c}
  <2>1. \A q \in Tails(b, half) : q \in Pages
    BY <1>3, <1>4, <1>5 DEF Pages
  <2>. QED BY <1>0, <1>1, <1>6, <1>9, <2>1
<1>11. \A q \in Tails(c, half) : q \in Pages /\ ord2[q] = c /\ q \notin H \cup {c}
  <2>1. \A q \in Tails(c, half) : q \in Pages /\ q \notin Tails(b, half) /\ q # c /\ q # b
    <3>1. c + Span[half] <= NPages
      BY <1>1, <1>2, <1>3
    <3>2. \A q \in Tails(c, half) : q \in Nat /\ q < NPages
      BY <1>2, <1>3, <1>4, <1>5, <3>1
    <3>3. \A q \in Tails(c, half) : q \notin Tails(b, half) /\ q # c /\ q # b
      BY <1>2, <1>3, <1>4, <1>5
    <3>. QED BY <3>2, <3>3, InPages
  <2>. QED BY <1>0, <1>1, <1>6, <2>1
<1>12. ord2[b] = half /\ ord2[c] = half
  BY <1>0, <1>4
<1>13. ASSUME NEW p \in H \cup {c}
       PROVE  /\ p >= Reserved /\ ord2[p] \in Orders /\ p + Span[ord2[p]] <= NPages
              /\ \A q \in Tails(p, ord2[p]) : q \notin H \cup {c} /\ ord2[q] = p
  <2>1. CASE p = b
    BY <1>1, <1>2, <1>3, <1>10, <1>12, <2>1
  <2>2. CASE p = c
    BY <1>1, <1>2, <1>3, <1>4, <1>11, <1>12, <2>2
  <2>3. CASE p \in H /\ p # b
    <3>1. ord2[p] = ord[p]
      BY <1>1, <1>8, <2>3
    <3>2. p >= Reserved /\ ord[p] \in Orders /\ p + Span[ord[p]] <= NPages
          /\ \A q \in Tails(p, ord[p]) : q \notin H /\ ord[q] = p
      BY <2>3 DEF TileInv
    <3>3. \A q \in Tails(p, ord[p]) : q \in Pages
      BY <2>3, <3>2, TailsInPages
    <3>4. \A q \in Tails(p, ord[p]) : q # b /\ q \notin Tails(b, ord[b])
      BY <1>1, <2>3, <3>2
    <3>5. \A q \in Tails(p, ord[p]) : q # c /\ ord2[q] = p
      BY <1>7, <1>8, <3>2, <3>3, <3>4
    <3>. QED BY <3>1, <3>2, <3>5
  <2>. QED BY <2>1, <2>2, <2>3
<1>14. ASSUME NEW p \in Reserved..(NPages - 1), p \notin H \cup {c}
       PROVE  ord2[p] \in H \cup {c} /\ p \in Tails(ord2[p], ord2[ord2[p]])
  <2>1. p \in Pages
    BY <1>3 DEF Pages
  <2>2. ord[p] \in H /\ p \in Tails(ord[p], ord[ord[p]])
    BY <1>14 DEF TileInv
  <2>3. CASE ord[p] = b
    <3>1. p \in Tails(b, half) \/ p \in Tails(c, half)
      BY <1>6, <1>14, <2>2, <2>3
    <3>. QED BY <1>10, <1>11, <1>12, <3>1
  <2>4. CASE ord[p] # b
    <3>1. p # b /\ p \notin Tails(b, ord[b])
      BY <1>1, <1>14, <2>4
    <3>2. ord2[p] = ord[p]
      BY <1>8, <2>1, <3>1
    <3>3. ord[p] \in Pages /\ ord[p] \notin Tails(b, ord[b])
      BY <1>1, <2>2
    <3>4. ord2[ord[p]] = ord[ord[p]]
      BY <1>8, <2>4, <3>3
    <3>. QED BY <2>2, <3>2, <3>4
  <2>. QED BY <2>3, <2>4
<1>15. TileInv(ord2, H \cup {c}, NPages)
  BY <1>13, <1>14 DEF TileInv
<1>. QED BY <1>2, <1>4, <1>6, <1>7, <1>15 DEF ord2

\* The field order when the blocks of order o at b and c are merged.
OrderMerged(ord, b, c, o) ==
    [p \in Pages |-> IF p = b THEN o + 1
                     ELSE IF p = c \/ p \in Tails(c, o) THEN b
                     ELSE ord[p]]

LEMMA TileMerge ==
    ASSUME NEW ord \in [Pages -> Nat], NEW H \in SUBSET Pages, TileInv(ord, H, NPages),
           NEW b \in H, NEW c \in H, NEW o, o = ord[b], o = ord[c], o < MaxOrder,
           c = b + Span[o]
    PROVE  TileInv(OrderMerged(ord, b, c, o), H \ {c}, NPages)
<1> DEFINE ord2 == OrderMerged(ord, b, c, o)
<1>0. \A p \in Pages : ord2[p] = IF p = b THEN o + 1
                                   ELSE IF p = c \/ p \in Tails(c, o) THEN b
                                   ELSE ord[p]
  BY DEF OrderMerged
<1> HIDE DEF ord2
<1>1. /\ o \in Orders /\ b >= Reserved
      /\ \A q \in Tails(b, o) : q \notin H /\ ord[q] = b
      /\ \A q \in Tails(c, o) : q \notin H /\ ord[q] = c
      /\ c + Span[o] <= NPages
  <2>1. ord[b] \in Orders /\ b >= Reserved /\ \A q \in Tails(b, ord[b]) : q \notin H /\ ord[q] = b
    BY DEF TileInv
  <2>2. c + Span[ord[c]] <= NPages /\ \A q \in Tails(c, ord[c]) : q \notin H /\ ord[q] = c
    BY DEF TileInv
  <2>. QED BY <2>1, <2>2
<1>2. o + 1 \in Orders /\ Span[o + 1] = 2 * Span[o] /\ Span[o] \in Nat /\ Span[o] >= 1
  BY <1>1, SpanFacts
<1>3. b \in Nat /\ c \in Nat /\ NPages \in Nat /\ Reserved \in Nat /\ b \in Pages /\ c \in Pages
  BY NodeFacts, SpanFacts
<1>4. /\ \A q : q \in Tails(b, o) <=> q \in Nat /\ b < q /\ q < c
      /\ \A q : q \in Tails(c, o) <=> q \in Nat /\ c < q /\ q < c + Span[o]
      /\ \A q : q \in Tails(b, o + 1) <=> q \in Nat /\ b < q /\ q < c + Span[o]
  BY <1>1, <1>2, <1>3, TailFacts
<1>5. /\ \A q : q \in Tails(b, o + 1) <=> q \in Tails(b, o) \/ q = c \/ q \in Tails(c, o)
      /\ b # c /\ b \notin Tails(b, o + 1)
  BY <1>2, <1>3, <1>4
<1>6. \A p \in Pages : p # b /\ p \notin Tails(b, o + 1) => ord2[p] = ord[p]
  BY <1>0, <1>5
<1>7. ord2[b] = o + 1
  BY <1>0, <1>3
<1>8. \A q \in Tails(b, o + 1) : q \in Pages /\ q \notin H \ {c} /\ ord2[q] = b
  <2>1. \A q \in Tails(b, o + 1) : q \in Pages /\ q # b
    <3>1. \A q \in Tails(b, o + 1) : q \in Nat /\ q < NPages /\ q # b
      BY <1>1, <1>2, <1>3, <1>4
    <3>. QED BY <3>1, InPages
  <2>2. \A q \in Tails(b, o) : q # c /\ q \notin Tails(c, o)
    BY <1>3, <1>4
  <2>. QED BY <1>0, <1>1, <1>5, <2>1, <2>2
<1>9. ASSUME NEW p \in H \ {c}
      PROVE  /\ p >= Reserved /\ ord2[p] \in Orders /\ p + Span[ord2[p]] <= NPages
             /\ \A q \in Tails(p, ord2[p]) : q \notin H \ {c} /\ ord2[q] = p
  <2>1. CASE p = b
    <3>1. b + Span[o + 1] <= NPages
      BY <1>1, <1>2, <1>3
    <3>. QED BY <1>1, <1>2, <1>7, <1>8, <2>1, <3>1
  <2>2. CASE p # b
    <3>1. p \in Pages /\ p \notin Tails(b, o + 1)
      BY <1>1, <1>5
    <3>2. ord2[p] = ord[p]
      BY <1>6, <2>2, <3>1
    <3>3. p >= Reserved /\ ord[p] \in Orders /\ p + Span[ord[p]] <= NPages
          /\ \A q \in Tails(p, ord[p]) : q \notin H /\ ord[q] = p
      BY DEF TileInv
    <3>4. \A q \in Tails(p, ord[p]) : q \in Pages
      BY <3>1, <3>3, TailsInPages
    <3>5. \A q \in Tails(p, ord[p]) : q # b /\ q \notin Tails(b, o + 1)
      BY <1>1, <1>5, <2>2, <3>3
    <3>6. \A q \in Tails(p, ord[p]) : ord2[q] = p
      BY <1>6, <3>3, <3>4, <3>5
    <3>. QED BY <3>2, <3>3, <3>6
  <2>. QED BY <2>1, <2>2
<1>10. ASSUME NEW p \in Reserved..(NPages - 1), p \notin H \ {c}
       PROVE  ord2[p] \in H \ {c} /\ p \in Tails(ord2[p], ord2[ord2[p]])
  <2>1. p \in Pages
    BY <1>3 DEF Pages
  <2>2. CASE p \in Tails(b, o + 1)
    BY <1>5, <1>7, <1>8, <2>2
  <2>3. CASE p \notin Tails(b, o + 1)
    <3>1. p \notin H
      BY <1>5, <1>10, <2>3
    <3>2. ord[p] \in H /\ p \in Tails(ord[p], ord[ord[p]])
      BY <3>1 DEF TileInv
    <3>3. p # b /\ ord2[p] = ord[p]
      BY <1>6, <2>1, <2>3, <3>1
    <3>4. ord[p] # b /\ ord[p] # c
      BY <1>5, <2>3, <3>2
    <3>5. ord[p] \in Pages /\ ord[p] \notin Tails(b, o + 1)
      BY <1>1, <1>5, <3>2, <3>4
    <3>6. ord2[ord[p]] = ord[ord[p]]
      BY <1>6, <3>4, <3>5
    <3>. QED BY <3>2, <3>3, <3>4, <3>6
  <2>. QED BY <2>2, <2>3
<1>11. TileInv(ord2, H \ {c}, NPages)
  BY <1>9, <1>10 DEF TileInv
<1>. QED BY <1>11 DEF ord2

\* The field order when a block of order o is laid out at page laid.
OrderLaid(ord, laid, o) ==
    [p \in Pages |-> IF p = laid THEN o
                     ELSE IF p \in Tails(laid, o) THEN laid ELSE ord[p]]

LEMMA TileLay ==
    ASSUME NEW ord \in [Pages -> Nat], NEW H \in SUBSET Pages, NEW laid \in Nat,
           Reserved <= laid, TileInv(ord, H, laid), NEW o \in Orders,
           laid + Span[o] <= NPages
    PROVE  /\ laid \in Pages /\ laid \notin H
           /\ TileInv(OrderLaid(ord, laid, o), H \cup {laid}, laid + Span[o])
<1> DEFINE ord2 == OrderLaid(ord, laid, o)
<1>0. \A p \in Pages : ord2[p] = IF p = laid THEN o
                                   ELSE IF p \in Tails(laid, o) THEN laid
                                   ELSE ord[p]
  BY DEF OrderLaid
<1> HIDE DEF ord2
<1>1. Span[o] \in Nat /\ Span[o] >= 1 /\ NPages \in Nat /\ Reserved \in Nat
  BY SpanFacts
<1>2. laid \in Pages
  BY <1>1 DEF Pages
<1>3. \A p \in H : p \in Nat /\ p < laid /\ p \in Pages
  <2>1. TAKE p \in H
  <2>2. ord[p] \in Orders /\ p + Span[ord[p]] <= laid
    BY DEF TileInv
  <2>3. Span[ord[p]] \in Nat /\ Span[ord[p]] >= 1 /\ p \in Nat
    BY <2>2, SpanFacts, NodeFacts
  <2>. QED BY <2>2, <2>3
<1>4. \A q : q \in Tails(laid, o) <=> q \in Nat /\ laid < q /\ q < laid + Span[o]
  BY TailFacts
<1>5. \A p \in Pages : p < laid => ord2[p] = ord[p]
  BY <1>0, <1>1, <1>4
<1>6. ord2[laid] = o /\ \A q \in Tails(laid, o) : q \in Pages /\ ord2[q] = laid
  BY <1>0, <1>1, <1>2, <1>4 DEF Pages
<1>7. ASSUME NEW p \in H \cup {laid}
      PROVE  /\ p >= Reserved /\ ord2[p] \in Orders /\ p + Span[ord2[p]] <= laid + Span[o]
             /\ \A q \in Tails(p, ord2[p]) : q \notin H \cup {laid} /\ ord2[q] = p
  <2>1. CASE p = laid
    BY <1>1, <1>3, <1>4, <1>6, <2>1
  <2>2. CASE p \in H
    <3>1. p >= Reserved /\ ord[p] \in Orders /\ p + Span[ord[p]] <= laid
          /\ \A q \in Tails(p, ord[p]) : q \notin H /\ ord[q] = p
      BY <2>2 DEF TileInv
    <3>2. ord2[p] = ord[p] /\ p \in Nat
      BY <1>3, <1>5, <2>2
    <3>3. Span[ord[p]] \in Nat /\ p + Span[ord[p]] <= laid + Span[o]
      <4>1. Span[ord[p]] \in Nat
        BY <3>1, SpanFacts
      <4>. QED BY <1>1, <3>1, <3>2, <4>1
    <3>4. \A q \in Tails(p, ord[p]) : q \in Pages /\ q < laid
      <4>1. \A q \in Tails(p, ord[p]) : q \in Nat /\ q < laid
        BY <3>1, <3>2, <3>3, TailFacts
      <4>2. laid < NPages
        BY <1>1
      <4>3. \A q \in Tails(p, ord[p]) : q < NPages
        BY <1>1, <4>1, <4>2
      <4>. QED BY <4>1, <4>3, InPages
    <3>5. \A q \in Tails(p, ord[p]) : q # laid
      BY <3>1, <3>2, <3>3, <3>4, InPages
    <3>6. \A q \in Tails(p, ord[p]) : q \notin H \cup {laid} /\ ord2[q] = p
      BY <1>5, <3>1, <3>4, <3>5
    <3>. QED BY <3>1, <3>2, <3>3, <3>6
  <2>. QED BY <2>1, <2>2
<1>8. ASSUME NEW p \in Reserved..((laid + Span[o]) - 1), p \notin H \cup {laid}
      PROVE  ord2[p] \in H \cup {laid} /\ p \in Tails(ord2[p], ord2[ord2[p]])
  <2>1. CASE p < laid
    <3>1. p \in Reserved..(laid - 1)
      BY <1>1, <2>1
    <3>2. ord[p] \in H /\ p \in Tails(ord[p], ord[ord[p]])
      BY <1>8, <3>1 DEF TileInv
    <3>3. ord2[p] = ord[p] /\ ord2[ord[p]] = ord[ord[p]]
      <4>1. p \in Pages
        <5>1. p \in Nat /\ p < NPages
          BY <1>1, <3>1
        <5>. QED BY <5>1, InPages
      <4>2. ord[p] \in Pages /\ ord[p] < laid
        BY <1>3, <3>2, Zenon
      <4>. QED BY <1>5, <2>1, <4>1, <4>2, Zenon
    <3>. QED BY <3>2, <3>3
  <2>2. CASE p > laid
    BY <1>1, <1>4, <1>6, <2>2
  <2>3. p < laid \/ p > laid
    BY <1>1, <1>8
  <2>. QED BY <2>1, <2>2, <2>3
<1>9. laid \notin H
  BY <1>3
<1>10. TileInv(ord2, H \cup {laid}, laid + Span[o])
  <2> DEFINE H2 == H \cup {laid}
             L2 == laid + Span[o]
  <2>1. \A p \in H2 :
           /\ p >= Reserved /\ ord2[p] \in Orders /\ p + Span[ord2[p]] <= L2
           /\ \A q \in Tails(p, ord2[p]) : q \notin H2 /\ ord2[q] = p
    BY <1>7
  <2>2. \A p \in Reserved..(L2 - 1) :
           p \notin H2 => ord2[p] \in H2 /\ p \in Tails(ord2[p], ord2[ord2[p]])
    BY <1>8
  <2> HIDE DEF H2, L2
  <2>3. TileInv(ord2, H2, L2)
    BY <2>1, <2>2 DEF TileInv
  <2>. QED BY <2>3 DEF H2, L2
<1>. QED BY <1>2, <1>9, <1>10 DEF ord2
-----------------------------------------------------------------------------
\* The invariant holds initially and every action preserves it.

LEMMA InitBInv == Init => BInv
<1> SUFFICES ASSUME Init PROVE BInv
  OBVIOUS
<1>1. NPages \in Nat /\ NPages > 0 /\ MaxOrder \in Nat /\ MaxOrder \in Orders
      /\ Reserved \in Nat /\ Reserved < NPages
  BY SpanFacts
<1>2. Heads = {} /\ FreeHeads = {}
  BY DEF Init, Heads, FreeHeads, IsHead
<1>3. list \in Lists(Nodes) /\ \A n \in Nodes : list.next[n] = n /\ list.prev[n] = n
  BY DEF Init, InitLists, Lists
<1>4. TypeOK
  BY <1>1, <1>3 DEF Init, TypeOK
<1>5. TileInv(order, Heads, Laid)
  BY <1>1, <1>2 DEF TileInv, Laid, Init
<1>6. ListInv(list, order, FreeHeads)
  <2>1. \A n \in Nodes : ~Linked(list, n)
    BY <1>3 DEF Linked
  <2>2. Anchored(list, Nodes, ListHeads)
    BY <2>1 DEF Anchored
  <2>3. Pages \subseteq Nodes
    BY NodeFacts
  <2>. QED BY <1>2, <1>3, <2>1, <2>2, <2>3 DEF ListInv, RingOK
<1>7. FlagsInv
  BY <1>2 DEF FlagsInv, Init, IsTail
<1>8. StepInv
  <2>1. NPages < Reserved + 2 * Span[MaxOrder]
    BY <1>1 DEF NPages
  <2>. QED BY <1>1, <1>2, <2>1 DEF StepInv, Init
<1>9. \A p \in Pages : p < Reserved => owner[p] = "RESERVED"
  BY DEF Init
<1>. QED BY <1>4, <1>5, <1>6, <1>7, <1>8, <1>9 DEF BInv

\* What the proofs of the actions use of the types.
LEMMA BFacts ==
    ASSUME BInv
    PROVE  /\ order \in [Pages -> Nat] /\ flags \in [Pages -> SUBSET {"HEAD", "TAIL"}]
           /\ owner \in [Pages -> {"FREE", "BUDDY", "SLAB", "RESERVED"}]
           /\ level \in Orders /\ level \in Nat /\ arg \in Nat /\ arg <= NPages
           /\ step \in {"layout", "idle", "split", "coalesce"}
           /\ Heads \in SUBSET Pages /\ FreeHeads \in SUBSET Heads
           /\ NPages \in Nat /\ NPages > 0 /\ Reserved \in Nat /\ MaxOrder \in Nat
           /\ 0 \in Orders
BY SpanFacts DEF BInv, TypeOK, Heads, FreeHeads, Orders

\* A frame is a head after a step according to the flags it then has.
LEMMA HeadsNext ==
    ASSUME NEW H \in SUBSET Pages, \A p \in Pages : "HEAD" \in flags'[p] <=> p \in H
    PROVE  Heads' = H
BY DEF Heads, IsHead

LEMMA FreeHeadsNext ==
    ASSUME NEW F \in SUBSET Pages,
           \A p \in Pages : "HEAD" \in flags'[p] /\ owner'[p] = "FREE" <=> p \in F
    PROVE  FreeHeads' = F
BY DEF FreeHeads, Heads, IsHead

\* The blocks in use do not change when no head page that is not free does.
LEMMA OwnedSame ==
    ASSUME \A p \in Pages : \/ /\ flags'[p] = flags[p] /\ owner'[p] = owner[p]
                               /\ order'[p] = order[p]
                            \/ /\ ~IsHead(p) \/ owner[p] = "FREE"
                               /\ "HEAD" \notin flags'[p] \/ owner'[p] = "FREE"
    PROVE  Owned' = Owned
BY DEF Owned, IsHead, NoOrder

\* What the functions do to the free blocks and to their orders.
Lays ==
    IF arg + Span[level] <= NPages
    THEN /\ FreeHeads' = FreeHeads \cup {arg} /\ order'[arg] = level
         /\ \A p \in FreeHeads : p # arg /\ order'[p] = order[p]
    ELSE FreeHeads' = FreeHeads /\ order' = order

Splits(pfn) ==
    /\ list'.next[ListHead(level - 1)] = pfn
    /\ \E b \in Pages : /\ FreeHeads' = FreeHeads \cup {b}
                        /\ order'[b] = level - 1 /\ order'[pfn] = level - 1
                        /\ \A p \in FreeHeads : p # b /\ (p # pfn => order'[p] = order[p])

Vends(pfn) == FreeHeads' = FreeHeads \ {pfn} /\ order' = order

Merges ==
    \E prev, next \in FreeHeads :
        /\ prev # next /\ arg \in {prev, next} /\ arg' = prev
        /\ FreeHeads' = FreeHeads \ {next}
        /\ \A p \in FreeHeads : p # prev /\ p # next => order'[p] = order[p]

LEMMA LayBlockInv == BInv /\ LayBlock => BInv' /\ Owned' = Owned /\ Lays
<1> SUFFICES ASSUME BInv, LayBlock PROVE BInv' /\ Owned' = Owned /\ Lays
  OBVIOUS
<1> USE BFacts
<1>1. step = "layout" /\ Reserved <= arg /\ NPages < arg + 2 * Span[level] /\ Heads = FreeHeads
      /\ Laid = arg
  BY DEF LayBlock, BInv, StepInv, Laid
<1>2. Span[level] \in Nat /\ Span[level] >= 1 /\ Span[0] = 1
      /\ (level > 0 => level - 1 \in Orders /\ Span[level] = 2 * Span[level - 1])
  BY SpanFacts
<1>3. CASE arg + Span[level] <= NPages
  <2> DEFINE top == arg + Span[level]
  <2>1. /\ \A p \in Pages : order'[p] = IF p = arg THEN level
                                         ELSE IF p \in Tails(arg, level) THEN arg
                                         ELSE order[p]
        /\ \A p \in Pages : owner'[p] = IF p = arg THEN "FREE"
                                         ELSE IF p \in Tails(arg, level) THEN "BUDDY"
                                         ELSE owner[p]
        /\ flags' = [flags EXCEPT ![arg] = {"HEAD"}]
        /\ list' = ListAdd(list, arg, ListHead(level))
        /\ order' = [p \in Pages |-> order'[p]] /\ owner' = [p \in Pages |-> owner'[p]]
    BY <1>3 DEF LayBlock
  <2>2. /\ level = 0 => step' = "idle" /\ level' = 0 /\ arg' = 0
        /\ level # 0 => step' = "layout" /\ level' = level - 1 /\ arg' = top
    BY <1>1, <1>3 DEF LayBlock, Return
  <2>3. TileInv(order, Heads, arg)
    BY <1>1 DEF BInv
  <2>4. arg \in Pages /\ arg \notin Heads /\ TileInv(order', Heads \cup {arg}, top)
    <3>1. order' = OrderLaid(order, arg, level)
      BY <1>3 DEF LayBlock, OrderLaid
    <3>. QED BY <1>1, <1>3, <2>3, <3>1, TileLay
  <2>5. \A p \in Heads : p # arg /\ p \notin Tails(arg, level)
    <3>1. TAKE p \in Heads
    <3>2. order[p] \in Orders /\ p + Span[order[p]] <= arg
      BY <2>3 DEF TileInv
    <3>3. p \in Nat /\ Span[order[p]] \in Nat
      BY <3>2, SpanFacts, NodeFacts
    <3>4. p <= arg
      BY <3>2, <3>3
    <3>. QED BY <2>4, <3>3, <3>4, TailFacts
  <2>6. \A p \in Pages : "HEAD" \in flags'[p] <=> p \in Heads \cup {arg}
    BY <2>1, <2>4 DEF Heads, IsHead
  <2>7. Heads' = Heads \cup {arg}
    <3>1. Heads \cup {arg} \in SUBSET Pages
      BY <2>4
    <3>. QED BY <2>6, <3>1, HeadsNext, Zenon
  <2>8. FreeHeads' = FreeHeads \cup {arg}
    <3>1. \A p \in Heads : owner'[p] = owner[p]
      BY <2>1, <2>5
    <3>2. owner'[arg] = "FREE"
      BY <2>1, <2>4
    <3>3. \A p \in Pages : "HEAD" \in flags'[p] /\ owner'[p] = "FREE" <=> p \in FreeHeads \cup {arg}
      BY <2>4, <2>6, <3>1, <3>2 DEF FreeHeads
    <3>4. FreeHeads \cup {arg} \in SUBSET Pages
      BY <2>4 DEF FreeHeads, Heads
    <3>. QED BY <3>3, <3>4, FreeHeadsNext, Zenon
  <2>9. Laid' = top
    <3>1. CASE level = 0
      BY <1>1, <1>2, <1>3, <2>2, <3>1 DEF Laid
    <3>2. CASE level # 0
      BY <2>2, <3>2 DEF Laid
    <3>. QED BY <3>1, <3>2
  <2>10. ListInv(list', order', FreeHeads')
    <3>1. ListInv(list, order', FreeHeads)
      BY <2>1, <2>5, ListInvRelabel DEF BInv
    <3>2. arg \notin FreeHeads /\ order'[arg] = level
      BY <2>1, <2>4
    <3>. QED BY <2>1, <2>4, <2>8, <3>1, <3>2, ListInvAdd
  <2>11. TypeOK'
    <3>1. order' \in [Pages -> Nat]
      BY <2>1 DEF Orders
    <3>2. owner' \in [Pages -> {"FREE", "BUDDY", "SLAB", "RESERVED"}]
      BY <2>1
    <3>3. flags' \in [Pages -> SUBSET {"HEAD", "TAIL"}]
      BY <2>1
    <3>4. level' \in Orders /\ arg' \in 0..NPages /\ step' \in {"layout", "idle"}
      BY <1>2, <1>3, <2>2
    <3>. QED BY <2>10, <3>1, <3>2, <3>3, <3>4 DEF TypeOK, ListInv
  <2>12. \A p \in Pages : p < Reserved => owner'[p] = "RESERVED"
    <3>1. \A p \in Pages : p < Reserved => p # arg /\ p \notin Tails(arg, level)
      BY <1>1, TailFacts, NodeFacts
    <3>. QED BY <2>1, <3>1 DEF BInv
  <2>13. FlagsInv'
    <3>1. \A p \in Pages : p # arg => flags'[p] = flags[p]
      BY <2>1
    <3>2. flags'[arg] = {"HEAD"}
      BY <2>1, <2>4
    <3>3. \A p \in Heads' : flags'[p] = {"HEAD"}
      BY <2>7, <3>1, <3>2 DEF BInv, FlagsInv
    <3>4. \A p \in Pages : "TAIL" \in flags'[p] => p >= Reserved /\ p < top
      <4>1. TAKE p \in Pages
      <4>2. HAVE "TAIL" \in flags'[p]
      <4>3. p # arg /\ "TAIL" \in flags[p]
        BY <3>1, <3>2, <4>2
      <4>4. p >= Reserved /\ p < arg
        BY <1>1, <4>3 DEF BInv, FlagsInv, IsTail
      <4>. QED BY <1>2, <4>4, NodeFacts
    <3>5. \A p \in Heads' : owner'[p] = "FREE"
      BY <1>1, <2>7, <2>8 DEF FreeHeads
    <3>. QED BY <2>9, <3>3, <3>4, <3>5 DEF FlagsInv, IsTail
  <2>14. StepInv'
    <3>1. CASE level = 0
      BY <2>2, <3>1 DEF StepInv
    <3>2. CASE level # 0
      <4>1. Reserved <= top /\ NPages < top + 2 * Span[level - 1]
        BY <1>1, <1>2, <3>2
      <4>2. Heads' = FreeHeads'
        BY <1>1, <2>7, <2>8
      <4>. QED BY <2>2, <3>2, <4>1, <4>2 DEF StepInv
    <3>. QED BY <3>1, <3>2
  <2>15. Owned' = Owned
    <3>1. \A p \in Tails(arg, level) : p \notin Heads /\ p # arg
      BY <2>5, TailFacts
    <3>2. owner'[arg] = "FREE" /\ ~IsHead(arg)
      BY <2>1, <2>4 DEF Heads
    <3>3. \A p \in Pages : p \in Tails(arg, level) => ~IsHead(p) /\ "HEAD" \notin flags'[p]
      BY <2>6, <3>1 DEF Heads
    <3>4. \A p \in Pages : p # arg /\ p \notin Tails(arg, level) =>
              flags'[p] = flags[p] /\ owner'[p] = owner[p] /\ order'[p] = order[p]
      BY <2>1
    <3>. QED BY <3>2, <3>3, <3>4, OwnedSame
  <2>16. Lays
    <3>1. order'[arg] = level
      BY <2>1, <2>4
    <3>2. \A p \in FreeHeads : p # arg /\ order'[p] = order[p]
      BY <2>1, <2>5
    <3>. QED BY <1>3, <2>8, <3>1, <3>2 DEF Lays
  <2>. QED BY <2>4, <2>7, <2>9, <2>10, <2>11, <2>12, <2>13, <2>14, <2>15, <2>16 DEF BInv
<1>4. CASE ~(arg + Span[level] <= NPages)
  <2>1. UNCHANGED frames
    BY <1>4 DEF LayBlock
  <2>2. /\ level = 0 => step' = "idle" /\ level' = 0 /\ arg' = 0
        /\ level # 0 => step' = "layout" /\ level' = level - 1 /\ arg' = arg
    BY <1>1, <1>4 DEF LayBlock, Return
  <2>3. Heads' = Heads /\ FreeHeads' = FreeHeads
    BY <2>1 DEF frames, Heads, FreeHeads, IsHead
  <2>4. Laid' = arg
    <3>1. CASE level = 0
      BY <1>1, <1>2, <1>4, <2>2, <3>1 DEF Laid
    <3>2. CASE level # 0
      BY <2>2, <3>2 DEF Laid
    <3>. QED BY <3>1, <3>2
  <2>5. TypeOK'
    <3>1. level' \in Orders /\ arg' \in 0..NPages /\ step' \in {"layout", "idle"}
      BY <1>2, <2>2
    <3>. QED BY <2>1, <3>1 DEF TypeOK, BInv, frames
  <2>6. FlagsInv'
    BY <1>1, <2>1, <2>3, <2>4 DEF FlagsInv, BInv, frames, IsTail
  <2>7. StepInv'
    <3>1. CASE level = 0
      BY <2>2, <3>1 DEF StepInv
    <3>2. CASE level # 0
      <4>1. NPages < arg + 2 * Span[level - 1]
        BY <1>1, <1>2, <1>4, <3>2
      <4>. QED BY <1>1, <2>2, <2>3, <3>2, <4>1 DEF StepInv
    <3>. QED BY <3>1, <3>2
  <2>8. Owned' = Owned
    BY <2>1, OwnedSame DEF frames
  <2>9. Lays
    BY <1>4, <2>1, <2>3 DEF Lays, frames
  <2>. QED BY <1>1, <2>1, <2>3, <2>4, <2>5, <2>6, <2>7, <2>8, <2>9 DEF BInv, frames
<1>. QED BY <1>3, <1>4

\* A step that leaves the frames alone, after the layout.
LEMMA FramesSame ==
    ASSUME BInv, UNCHANGED frames, step # "layout",
           step' \in {"idle", "split", "coalesce"}, level' \in Orders, arg' \in 0..NPages,
           StepInv'
    PROVE  BInv'
<1>1. Heads' = Heads /\ FreeHeads' = FreeHeads
  BY DEF frames, Heads, FreeHeads, IsHead
<1>2. Laid' = Laid
  BY DEF Laid
<1>3. TypeOK'
  BY DEF TypeOK, BInv, frames
<1>4. FlagsInv'
  BY <1>1, <1>2 DEF FlagsInv, BInv, frames, IsTail
<1>. QED BY <1>1, <1>2, <1>3, <1>4 DEF BInv, frames

LEMMA AllocInv ==
    ASSUME BInv, NEW o \in 0..(MaxOrder + 1), Alloc(o)
    PROVE  BInv'
<1> USE BFacts
<1>1. CASE UNCHANGED vars
  BY <1>1 DEF BInv, vars, frames, TypeOK, TileInv, ListInv, FlagsInv, StepInv, Heads,
              FreeHeads, Laid, IsHead, IsTail
<1>2. ASSUME NEW i \in Orders, o <= i, ~ListEmpty(list, ListHead(i)),
             step' = "split", level' = i, arg' = o, UNCHANGED frames, step = "idle"
      PROVE  BInv'
  <2>1. arg' \in 0..NPages
    <3>1. MaxOrder < NPages /\ i \in Nat /\ i <= MaxOrder
      BY SpanFacts DEF Orders
    <3>. QED BY <1>2, <3>1
  <2>2. StepInv'
    BY <1>2 DEF StepInv, frames
  <2>. QED BY <1>2, <2>1, <2>2, FramesSame
<1>. QED BY <1>1, <1>2 DEF Alloc

\* The block that _split_down and _alloc_and_return take.
LEMMA FirstBlock ==
    ASSUME BInv, step = "split", NEW pfn, pfn = list.next[ListHead(level)]
    PROVE  /\ pfn \in Pages /\ pfn \in FreeHeads /\ pfn \in Heads /\ order[pfn] = level
           /\ "HEAD" \in flags[pfn] /\ owner[pfn] = "FREE" /\ pfn \in Nat /\ pfn >= Reserved
           /\ TileInv(order, Heads, NPages)
           /\ \A q \in Tails(pfn, level) : q \in Pages /\ q \notin Heads /\ order[q] = pfn
                                           /\ q >= Reserved
<1> USE BFacts
<1>1. pfn \in Pages /\ pfn \in FreeHeads /\ order[pfn] = level
  BY ListInvFirst DEF BInv, StepInv
<1>2. pfn \in Heads /\ "HEAD" \in flags[pfn] /\ owner[pfn] = "FREE"
  BY <1>1 DEF FreeHeads, Heads, IsHead
<1>3. TileInv(order, Heads, NPages)
  BY DEF BInv, Laid
<1>4. pfn >= Reserved /\ pfn + Span[level] <= NPages
      /\ \A q \in Tails(pfn, level) : q \notin Heads /\ order[q] = pfn
  BY <1>1, <1>2, <1>3 DEF TileInv
<1>5. \A q \in Tails(pfn, level) : q \in Pages
  BY <1>1, <1>4, TailsInPages
<1>6. pfn \in Nat
  BY <1>1, NodeFacts
<1>7. \A q \in Tails(pfn, level) : q >= Reserved
  BY <1>4, <1>6, TailFacts
<1>. QED BY <1>1, <1>2, <1>3, <1>4, <1>5, <1>6, <1>7

LEMMA SplitDownInv ==
    BInv /\ SplitDown => BInv' /\ Owned' = Owned /\ Splits(list.next[ListHead(level)])
<1> SUFFICES ASSUME BInv, SplitDown
             PROVE  BInv' /\ Owned' = Owned /\ Splits(list.next[ListHead(level)])
  OBVIOUS
<1> USE BFacts
<1> DEFINE pfn   == list.next[ListHead(level)]
           half  == level - 1
           buddy == pfn + Span[half]
           block == Tails(pfn, level)
<1>1. step = "split" /\ arg < level /\ step' = "split" /\ level' = half /\ arg' = arg
  BY DEF SplitDown
<1>2. list' = ListAdd(ListAdd(ListRemove(list, pfn), buddy, ListHead(half)),
                      pfn, ListHead(half))
  BY DEF SplitDown
<1>3. /\ order' = OrderSplit(order, pfn, buddy, half)
      /\ owner' = [owner EXCEPT ![buddy] = "FREE"]
      /\ flags' = [p \in Pages |->
                      IF p = buddy THEN {"HEAD"}
                      ELSE IF p \in Tails(pfn, half) \cup Tails(buddy, half)
                           THEN {"TAIL"} ELSE flags[p]]
  BY DEF SplitDown, OrderSplit
<1>4. /\ pfn \in Pages /\ pfn \in FreeHeads /\ pfn \in Heads /\ order[pfn] = level
      /\ "HEAD" \in flags[pfn] /\ owner[pfn] = "FREE" /\ pfn \in Nat /\ pfn >= Reserved
      /\ TileInv(order, Heads, NPages)
      /\ \A q \in block : q \in Pages /\ q \notin Heads /\ order[q] = pfn /\ q >= Reserved
  BY <1>1, FirstBlock
<1> HIDE DEF pfn
<1>5. /\ half \in Orders /\ buddy \in Pages /\ buddy \notin Heads /\ buddy >= Reserved
      /\ \A q : q \in block <=> q \in Tails(pfn, half) \/ q \in Tails(buddy, half) \/ q = buddy
      /\ TileInv(order', Heads \cup {buddy}, NPages)
  <2>1. half \in Orders /\ order[pfn] = half + 1
    BY <1>1, <1>4, SpanFacts
  <2>2. pfn \in Heads /\ TileInv(order, Heads, NPages) /\ Heads \in SUBSET Pages
    BY <1>4
  <2>3. buddy = pfn + Span[half] /\ buddy \in Nat
    BY <1>4, <2>1, SpanFacts
  <2> HIDE DEF half, buddy
  <2>4. order \in [Pages -> Nat]
    OBVIOUS
  <2>5. TileInv(OrderSplit(order, pfn, buddy, half), Heads \cup {buddy}, NPages)
    BY ONLY <2>1, <2>2, <2>3, <2>4, TileSplit
  <2>6. buddy \in Pages /\ buddy \notin Heads /\ buddy >= Reserved
    BY ONLY <2>1, <2>2, <2>3, <2>4, <2>5, TileSplit
  <2>7. \A q : q \in Tails(pfn, order[pfn]) <=>
                 q \in Tails(pfn, half) \/ q \in Tails(buddy, half) \/ q = buddy
    BY ONLY <2>1, <2>2, <2>3, <2>4, <2>5, TileSplit
  <2>. QED BY <1>3, <1>4, <2>1, <2>5, <2>6, <2>7
<1>6. pfn # buddy /\ half \in Nat
  BY <1>4, <1>5 DEF Orders
<1> HIDE DEF half, buddy
<1>7. /\ \A p \in Pages : p \in {pfn, buddy} => order'[p] = half
      /\ \A p \in Pages : p # pfn /\ p \notin block => order'[p] = order[p]
      /\ order' \in [Pages -> Nat]
  <2>1. \A p \in Pages : order'[p] = IF p \in {pfn, buddy} THEN half
                                     ELSE IF p \in Tails(pfn, half) THEN pfn
                                     ELSE IF p \in Tails(buddy, half) THEN buddy
                                     ELSE order[p]
    BY <1>3 DEF OrderSplit
  <2>2. buddy \in Nat
    BY <1>5, NodeFacts
  <2>3. \A p \in Pages : order'[p] \in Nat
    BY <1>4, <1>6, <2>1, <2>2
  <2>4. order' \in [Pages -> Nat]
    BY <1>3, <2>3 DEF OrderSplit
  <2>. QED BY <1>5, <2>1, <2>4
<1>8. \A p \in Pages : /\ p = buddy => flags'[p] = {"HEAD"}
                       /\ p \in block /\ p # buddy => flags'[p] = {"TAIL"}
                       /\ p \notin block => flags'[p] = flags[p]
  BY <1>3, <1>5
<1>9. pfn \notin block
  BY <1>4
<1>10. \A p \in Pages : "HEAD" \in flags'[p] <=> p \in Heads \cup {buddy}
  <2>1. TAKE p \in Pages
  <2>2. CASE p = buddy
    BY <1>8, <2>2
  <2>3. CASE p \in block /\ p # buddy
    BY <1>4, <1>8, <2>3
  <2>4. CASE p \notin block
    BY <1>5, <1>8, <2>4 DEF Heads, IsHead
  <2>. QED BY <2>2, <2>3, <2>4
<1>11. Heads' = Heads \cup {buddy}
  <2>1. Heads \cup {buddy} \in SUBSET Pages
    BY <1>5
  <2>. QED BY <1>10, <2>1, HeadsNext, Zenon
<1>12. FreeHeads' = FreeHeads \cup {buddy}
  <2>1. \A p \in Pages : "HEAD" \in flags'[p] /\ owner'[p] = "FREE" <=> p \in FreeHeads \cup {buddy}
    BY <1>3, <1>5, <1>10 DEF FreeHeads
  <2>2. FreeHeads \cup {buddy} \in SUBSET Pages
    BY <1>5
  <2>. QED BY <2>1, <2>2, FreeHeadsNext, Zenon
<1>13. /\ ListInv(list', order', FreeHeads') /\ ~ListEmpty(list', ListHead(half))
       /\ list'.next[ListHead(half)] = pfn
  <2> DEFINE l1 == ListRemove(list, pfn)
             l2 == ListAdd(l1, buddy, ListHead(half))
  <2>1. ListInv(l1, order, FreeHeads \ {pfn})
    BY <1>4, ListInvRemove DEF BInv
  <2>2. \A p \in Pages : p \in FreeHeads \ {pfn} => order'[p] = order[p]
    <3>1. \A p \in FreeHeads : p \notin block
      BY <1>4
    <3>. QED BY <1>7, <3>1
  <2> HIDE DEF l1
  <2>3. ListInv(l1, order', FreeHeads \ {pfn})
    BY <2>1, <2>2, ListInvRelabel
  <2>4. ListInv(l2, order', (FreeHeads \ {pfn}) \cup {buddy})
    <3>1. buddy \notin FreeHeads \ {pfn} /\ order'[buddy] = half
      BY <1>5, <1>7
    <3>. QED BY <1>5, <2>3, <3>1, ListInvAdd
  <2>5. /\ ListInv(ListAdd(l2, pfn, ListHead(half)), order',
                   ((FreeHeads \ {pfn}) \cup {buddy}) \cup {pfn})
        /\ ~ListEmpty(ListAdd(l2, pfn, ListHead(half)), ListHead(half))
        /\ ListAdd(l2, pfn, ListHead(half)).next[ListHead(half)] = pfn
    <3> HIDE DEF l2
    <3>1. pfn \notin (FreeHeads \ {pfn}) \cup {buddy} /\ order'[pfn] = half
      BY <1>4, <1>6, <1>7
    <3>. QED BY <1>4, <1>5, <2>4, <3>1, ListInvAdd
  <2>6. ((FreeHeads \ {pfn}) \cup {buddy}) \cup {pfn} = FreeHeads'
    BY <1>4, <1>12
  <2>. QED BY <1>2, <2>5, <2>6 DEF l1
<1>14. TypeOK'
  <2>1. flags' \in [Pages -> SUBSET {"HEAD", "TAIL"}]
    BY <1>3
  <2>2. owner' \in [Pages -> {"FREE", "BUDDY", "SLAB", "RESERVED"}]
    BY <1>3
  <2>. QED BY <1>1, <1>5, <1>7, <1>13, <2>1, <2>2 DEF TypeOK, ListInv
<1>15. Laid' = NPages /\ Laid = NPages
  BY <1>1 DEF Laid
<1>16. FlagsInv'
  <2>1. \A p \in Heads' : flags'[p] = {"HEAD"}
    <3>1. \A p \in Heads : p \notin block /\ flags[p] = {"HEAD"}
      BY <1>4 DEF BInv, FlagsInv
    <3>. QED BY <1>5, <1>8, <1>11, <3>1
  <2>2. \A p \in Pages : "TAIL" \in flags'[p] => p >= Reserved /\ p < NPages
    <3>1. \A p \in Pages : p < NPages
      BY NodeFacts
    <3>. QED BY <1>4, <1>5, <1>8, <1>15, <3>1 DEF BInv, FlagsInv, IsTail
  <2>3. ASSUME NEW p \in Heads', owner'[p] # "FREE", NEW q \in Tails(p, order'[p])
        PROVE  flags'[q] = {"TAIL"}
    <3>1. p \in Heads /\ p # buddy /\ p \notin block /\ p # pfn /\ owner[p] # "FREE"
      BY <1>3, <1>4, <1>5, <1>11, <2>3
    <3>2. order'[p] = order[p]
      BY <1>7, <3>1
    <3>3. q \in Tails(p, order[p])
      BY <2>3, <3>2
    <3>4. flags[q] = {"TAIL"} /\ order[q] = p /\ order[p] \in Orders
          /\ p + Span[order[p]] <= NPages
      BY <1>4, <3>1, <3>3 DEF BInv, FlagsInv, TileInv
    <3>5. q \in Pages
      BY <3>1, <3>3, <3>4, TailsInPages
    <3>6. q \notin block
      BY <1>4, <3>1, <3>4
    <3>. QED BY <1>8, <3>4, <3>5, <3>6
  <2>. QED BY <1>15, <2>1, <2>2, <2>3 DEF FlagsInv, IsTail
<1>17. StepInv'
  <2>1. arg <= half
    BY <1>1 DEF half
  <2>. QED BY <1>1, <1>13, <2>1 DEF StepInv
<1>18. \A p \in Pages : p < Reserved => owner'[p] = "RESERVED"
  <2>1. \A p \in Pages : p < Reserved => p # buddy
    BY <1>5, NodeFacts
  <2>. QED BY <1>3, <2>1 DEF BInv
<1>19. Owned' = Owned
  <2>1. \A p \in Pages : p \in block => ~IsHead(p)
    BY <1>4 DEF Heads
  <2>2. \A p \in Pages : p # pfn /\ p \notin block =>
            flags'[p] = flags[p] /\ owner'[p] = owner[p] /\ order'[p] = order[p]
    BY <1>3, <1>5, <1>7, <1>8
  <2>3. \A p \in Pages : p \in block => "HEAD" \notin flags'[p] \/ owner'[p] = "FREE"
    BY <1>3, <1>8
  <2>4. owner'[pfn] = "FREE"
    BY <1>3, <1>4
  <2>. QED BY <1>4, <2>1, <2>2, <2>3, <2>4, OwnedSame
<1>20. Splits(pfn)
  <2>1. order'[buddy] = half /\ order'[pfn] = half
    BY <1>4, <1>5, <1>7
  <2>2. \A p \in FreeHeads : p # buddy /\ (p # pfn => order'[p] = order[p])
    BY <1>4, <1>5, <1>7
  <2>. QED BY <1>5, <1>12, <1>13, <2>1, <2>2 DEF Splits, half
<1>. QED BY <1>5, <1>11, <1>13, <1>14, <1>15, <1>16, <1>17, <1>18, <1>19, <1>20 DEF BInv, pfn

LEMMA AllocAndReturnInv ==
    BInv /\ AllocAndReturn => BInv' /\ Vends(list.next[ListHead(level)])
<1> SUFFICES ASSUME BInv, AllocAndReturn
             PROVE  BInv' /\ Vends(list.next[ListHead(level)])
  OBVIOUS
<1> USE BFacts
<1> DEFINE pfn   == list.next[ListHead(level)]
           block == Tails(pfn, level)
<1>1. step = "split" /\ step' = "idle" /\ level' = 0 /\ arg' = 0 /\ list' = ListRemove(list, pfn)
  BY DEF AllocAndReturn, Return
<1>2. /\ owner' = [p \in Pages |-> IF p = pfn \/ p \in block THEN "BUDDY" ELSE owner[p]]
      /\ flags' = [p \in Pages |-> IF p = pfn THEN flags[p] \cup {"HEAD"}
                                   ELSE IF p \in block THEN {"TAIL"} ELSE flags[p]]
      /\ order' = [p \in Pages |-> IF p \in block THEN pfn ELSE order[p]]
  BY DEF AllocAndReturn
<1>3. /\ pfn \in Pages /\ pfn \in FreeHeads /\ pfn \in Heads /\ order[pfn] = level
      /\ "HEAD" \in flags[pfn] /\ owner[pfn] = "FREE" /\ pfn \in Nat /\ pfn >= Reserved
      /\ TileInv(order, Heads, NPages)
      /\ \A q \in block : q \in Pages /\ q \notin Heads /\ order[q] = pfn /\ q >= Reserved
  BY <1>1, FirstBlock
<1> HIDE DEF pfn
<1>4. order' = order
  <2>1. \A p \in Pages : order'[p] = order[p]
    BY <1>2, <1>3
  <2>. QED BY <1>2, <2>1
<1>5. pfn \notin block /\ flags[pfn] = {"HEAD"}
  BY <1>3 DEF BInv, FlagsInv
<1>6. \A p \in Pages : /\ p \in block => flags'[p] = {"TAIL"}
                       /\ p \notin block => flags'[p] = flags[p]
  BY <1>2, <1>5
<1>7. \A p \in Pages : "HEAD" \in flags'[p] <=> p \in Heads
  <2>1. TAKE p \in Pages
  <2>2. CASE p \in block
    BY <1>3, <1>6, <2>2
  <2>3. CASE p \notin block
    BY <1>6, <2>3 DEF Heads, IsHead
  <2>. QED BY <2>2, <2>3
<1>8. Heads' = Heads
  BY <1>7, HeadsNext
<1>9. FreeHeads' = FreeHeads \ {pfn}
  <2>1. \A p \in Heads : owner'[p] = IF p = pfn THEN "BUDDY" ELSE owner[p]
    BY <1>2, <1>3
  <2>2. \A p \in Pages : "HEAD" \in flags'[p] /\ owner'[p] = "FREE" <=> p \in FreeHeads \ {pfn}
    BY <1>7, <2>1 DEF FreeHeads
  <2>3. FreeHeads \ {pfn} \in SUBSET Pages
    OBVIOUS
  <2>. QED BY <2>2, <2>3, FreeHeadsNext, Zenon
<1>10. ListInv(list', order', FreeHeads')
  BY <1>1, <1>3, <1>4, <1>9, ListInvRemove DEF BInv
<1>11. TypeOK'
  <2>1. flags' \in [Pages -> SUBSET {"HEAD", "TAIL"}]
    BY <1>2
  <2>2. owner' \in [Pages -> {"FREE", "BUDDY", "SLAB", "RESERVED"}]
    BY <1>2
  <2>. QED BY <1>1, <1>4, <1>10, <2>1, <2>2 DEF TypeOK, ListInv
<1>12. Laid' = NPages /\ Laid = NPages
  BY <1>1 DEF Laid
<1>13. FlagsInv'
  <2>1. \A p \in Heads' : flags'[p] = {"HEAD"}
    BY <1>3, <1>6, <1>8 DEF BInv, FlagsInv
  <2>2. \A p \in Pages : "TAIL" \in flags'[p] => p >= Reserved /\ p < NPages
    <3>1. \A p \in Pages : p < NPages
      BY NodeFacts
    <3>. QED BY <1>3, <1>6, <1>12, <3>1 DEF BInv, FlagsInv, IsTail
  <2>3. ASSUME NEW p \in Heads, owner'[p] # "FREE", NEW q \in Tails(p, order[p])
        PROVE  flags'[q] = {"TAIL"}
    <3>1. order[p] \in Orders /\ p + Span[order[p]] <= NPages /\ order[q] = p
      BY <1>3, <2>3 DEF TileInv
    <3>2. q \in Pages
      BY <2>3, <3>1, TailsInPages
    <3>3. CASE p = pfn
      BY <1>3, <1>6, <2>3, <3>2, <3>3
    <3>4. CASE p # pfn
      <4>1. owner[p] # "FREE" /\ q \notin block
        BY <1>2, <1>3, <2>3, <3>1, <3>4
      <4>2. flags[q] = {"TAIL"}
        BY <2>3, <4>1 DEF BInv, FlagsInv
      <4>. QED BY <1>6, <3>2, <4>1, <4>2
    <3>. QED BY <3>3, <3>4
  <2>. QED BY <1>4, <1>8, <1>12, <2>1, <2>2, <2>3 DEF FlagsInv, IsTail
<1>14. StepInv'
  BY <1>1 DEF StepInv
<1>15. \A p \in Pages : p < Reserved => owner'[p] = "RESERVED"
  <2>1. \A p \in Pages : p < Reserved => p # pfn /\ p \notin block
    BY <1>3, NodeFacts
  <2>. QED BY <1>2, <2>1 DEF BInv
<1>16. Vends(pfn)
  BY <1>4, <1>9 DEF Vends
<1>. QED BY <1>3, <1>4, <1>8, <1>10, <1>11, <1>12, <1>13, <1>14, <1>15, <1>16 DEF BInv, pfn

LEMMA FreeInv ==
    ASSUME BInv, NEW p \in Pages, Free(p)
    PROVE  BInv'
<1> USE BFacts
<1>1. CASE UNCHANGED vars
  BY <1>1 DEF BInv, vars, frames, TypeOK, TileInv, ListInv, FlagsInv, StepInv, Heads,
              FreeHeads, Laid, IsHead, IsTail
<1>2. CASE IsHead(p) /\ owner[p] # "FREE"
  <2>1. /\ step = "idle" /\ order' = order /\ flags' = flags
        /\ owner' = [owner EXCEPT ![p] = "FREE"]
        /\ list' = ListAdd(list, p, ListHead(order[p]))
        /\ \/ step' = "coalesce" /\ level' = 0 /\ arg' = p
           \/ step' = "idle" /\ level' = 0 /\ arg' = 0
    BY <1>2 DEF Free, Return
  <2>2. p \in Heads /\ p \notin FreeHeads
    BY <1>2 DEF Heads, FreeHeads
  <2>3. Laid = NPages /\ Laid' = NPages
    BY <2>1 DEF Laid
  <2>4. order[p] \in Orders /\ p >= Reserved
    BY <2>2 DEF BInv, TileInv
  <2>5. Heads' = Heads
    BY <2>1 DEF Heads, IsHead
  <2>6. FreeHeads' = FreeHeads \cup {p}
    <3>1. \A q \in Pages : owner'[q] = "FREE" <=> q = p \/ owner[q] = "FREE"
      BY <2>1
    <3>. QED BY <2>2, <2>5, <3>1 DEF FreeHeads
  <2>7. ListInv(list', order', FreeHeads')
    BY <2>1, <2>2, <2>4, <2>6, ListInvAdd DEF BInv
  <2>8. TypeOK'
    <3>1. arg' \in 0..NPages
      BY <2>1, NodeFacts
    <3>. QED BY <2>1, <2>7, <3>1 DEF TypeOK, BInv, ListInv
  <2>9. FlagsInv'
    <3>1. \A q \in Heads : owner'[q] # "FREE" => owner[q] # "FREE"
      BY <2>1
    <3>. QED BY <2>1, <2>3, <2>5, <3>1 DEF BInv, FlagsInv, IsTail
  <2>10. StepInv'
    BY <2>1, <2>6 DEF StepInv
  <2>11. \A q \in Pages : q < Reserved => owner'[q] = "RESERVED"
    <3>1. \A q \in Pages : q < Reserved => q # p
      BY <2>4, NodeFacts
    <3>. QED BY <2>1, <3>1 DEF BInv
  <2>. QED BY <2>1, <2>3, <2>5, <2>7, <2>8, <2>9, <2>10, <2>11 DEF BInv
<1>. QED BY <1>1, <1>2 DEF Free

LEMMA SetPageOwnerInv ==
    ASSUME BInv, NEW p \in Pages, SetPageOwner(p)
    PROVE  BInv'
<1> USE BFacts
<1> DEFINE h == IF IsTail(p) THEN order[p] ELSE p
<1>1. /\ step = "idle" /\ owner[h] = "BUDDY" /\ owner' = [owner EXCEPT ![h] = "SLAB"]
      /\ UNCHANGED <<order, flags, list, step, level, arg>>
  BY DEF SetPageOwner
<1>2. Laid = NPages /\ Laid' = NPages /\ Heads' = Heads
  BY <1>1 DEF Laid, Heads, IsHead
<1>3. h \in Pages
  <2>1. CASE ~IsTail(p)
    BY <2>1
  <2>2. CASE IsTail(p)
    <3>1. p >= Reserved /\ p < NPages /\ flags[p] # {"HEAD"}
      BY <1>2, <2>2 DEF BInv, FlagsInv, IsTail
    <3>2. p \in Reserved..(NPages - 1) /\ p \notin Heads
      BY <3>1, NodeFacts DEF BInv, FlagsInv
    <3>3. order[p] \in Heads
      BY <1>2, <3>2 DEF BInv, TileInv
    <3>. QED BY <2>2, <3>3
  <2>. QED BY <2>1, <2>2
<1> HIDE DEF h
<1>4. \A q \in Pages : /\ owner'[q] = "FREE" <=> owner[q] = "FREE"
                       /\ owner[q] = "RESERVED" => owner'[q] = "RESERVED"
  BY <1>1, <1>3
<1>5. FreeHeads' = FreeHeads
  BY <1>2, <1>4 DEF FreeHeads
<1>6. TypeOK'
  BY <1>1, <1>3 DEF TypeOK, BInv
<1>7. FlagsInv'
  BY <1>1, <1>2, <1>4 DEF FlagsInv, BInv, IsTail
<1>8. StepInv'
  BY <1>1 DEF StepInv
<1>. QED BY <1>1, <1>2, <1>4, <1>5, <1>6, <1>7, <1>8 DEF BInv

\* The page that coalesce_up works on, and its buddy.
LEMMA CoalesceFacts ==
    ASSUME BInv, step = "coalesce", NEW o, o = order[arg], NEW b, b = Buddy(arg, o)
    PROVE  /\ arg \in Heads /\ arg \in FreeHeads /\ arg \in Pages /\ owner[arg] = "FREE"
           /\ o \in Orders /\ o \in Nat /\ o < MaxOrder /\ b \in Pages
           /\ b = arg + Span[o] \/ b = arg - Span[o]
           /\ order[b] = o /\ owner[b] = "FREE" => b \in FreeHeads
<1> USE BFacts
<1>1. arg \in FreeHeads /\ arg \in Heads /\ arg \in Pages /\ owner[arg] = "FREE"
  BY DEF BInv, StepInv, FreeHeads
<1>2. TileInv(order, Heads, NPages)
  BY DEF BInv, Laid
<1>3. order[arg] \in Orders /\ arg >= Reserved /\ arg + Span[order[arg]] <= NPages
  BY <1>1, <1>2 DEF TileInv
<1>4. o \in Orders /\ o \in Nat /\ o < MaxOrder
  <2>1. o \in Orders /\ o \in Nat /\ o <= MaxOrder
    BY <1>3 DEF Orders
  <2>2. arg > 0
    BY <1>3, SpanFacts
  <2>3. arg + Span[o] <= Span[MaxOrder] /\ Span[o] \in Nat
    BY <1>3, SpanFacts DEF NPages
  <2>4. o # MaxOrder
    BY <2>2, <2>3
  <2>. QED BY <2>1, <2>4
<1>5. b \in Pages /\ (b = arg + Span[o] \/ b = arg - Span[o])
  BY <1>1, <1>3, <1>4, BuddyInRange
<1>6. ASSUME order[b] = o, owner[b] = "FREE" PROVE b \in FreeHeads
  <2>1. b >= Reserved /\ b < NPages /\ b \in Nat
    BY <1>5, <1>6, NodeFacts DEF BInv
  <2>2. b \in Heads
    <3>1. SUFFICES ASSUME b \notin Heads PROVE FALSE
      OBVIOUS
    <3>2. order[b] \in Heads
      BY <1>2, <2>1, <3>1 DEF TileInv
    <3>3. order[b] >= Reserved
      BY <1>2, <3>2 DEF TileInv
    <3>. QED BY <1>4, <1>6, <3>3, SpanFacts
  <2>. QED BY <1>6, <2>2 DEF FreeHeads
<1>. QED BY <1>1, <1>4, <1>5, <1>6

LEMMA CoalesceUpInv ==
    BInv /\ CoalesceUp => BInv' /\ Owned' = Owned /\ (step' = "coalesce" => Merges)
<1> SUFFICES ASSUME BInv, CoalesceUp
             PROVE  BInv' /\ Owned' = Owned /\ (step' = "coalesce" => Merges)
  OBVIOUS
<1> USE BFacts
<1> DEFINE o     == order[arg]
           buddy == Buddy(arg, o)
           prev  == IF buddy < arg THEN buddy ELSE arg
           next  == IF buddy < arg THEN arg ELSE buddy
<1>1. step = "coalesce"
  BY DEF CoalesceUp
<1>2. /\ arg \in Heads /\ arg \in FreeHeads /\ arg \in Pages /\ owner[arg] = "FREE"
      /\ o \in Orders /\ o \in Nat /\ o < MaxOrder /\ buddy \in Pages
      /\ buddy = arg + Span[o] \/ buddy = arg - Span[o]
      /\ order[buddy] = o /\ owner[buddy] = "FREE" => buddy \in FreeHeads
  BY <1>1, CoalesceFacts
<1>3. CASE ~(order[prev] = order[next] /\ owner[prev] = "FREE" /\ owner[next] = "FREE")
  <2>1. step' = "idle" /\ level' = 0 /\ arg' = 0 /\ UNCHANGED frames
    BY <1>3 DEF CoalesceUp, Return
  <2>2. StepInv'
    BY <2>1 DEF StepInv
  <2>3. Owned' = Owned
    BY <2>1, OwnedSame DEF frames
  <2>. QED BY <1>1, <2>1, <2>2, <2>3, FramesSame
<1>4. CASE order[prev] = order[next] /\ owner[prev] = "FREE" /\ owner[next] = "FREE"
  <2>1. /\ list' = ListAdd(ListRemove(ListRemove(list, prev), next), prev, ListHead(o + 1))
        /\ flags' = [flags EXCEPT ![next] = {"TAIL"}]
        /\ order' = OrderMerged(order, prev, next, o)
        /\ arg' = prev /\ owner' = owner /\ step' = step /\ level' = level
    BY <1>4 DEF CoalesceUp, MergedOrder, OrderMerged
  <2>2. buddy \in FreeHeads
    BY <1>2, <1>4
  <2>3. /\ prev \in FreeHeads /\ next \in FreeHeads
        /\ order[prev] = o /\ order[next] = o
    BY <1>2, <1>4, <2>2
  <2>4. next = prev + Span[o] /\ prev # next
    <3>1. Span[o] \in Nat /\ Span[o] >= 1 /\ buddy \in Nat
      BY <1>2, SpanFacts, NodeFacts
    <3> HIDE DEF o, buddy
    <3>. QED BY <1>2, <3>1
  <2> HIDE DEF prev, next, o, buddy
  <2>5. prev \in Heads /\ next \in Heads /\ prev \in Pages /\ next \in Pages
    BY <2>3
  <2>6. TileInv(order, Heads, NPages) /\ Laid = NPages /\ Laid' = NPages
    BY <1>1, <2>1 DEF BInv, Laid
  <2>7. TileInv(order', Heads \ {next}, NPages)
    <3>1. order \in [Pages -> Nat] /\ Heads \in SUBSET Pages
      OBVIOUS
    <3>2. TileInv(OrderMerged(order, prev, next, o), Heads \ {next}, NPages)
      BY ONLY <1>2, <2>3, <2>4, <2>5, <2>6, <3>1, TileMerge
    <3>. QED BY <2>1, <3>2
  <2>8. \A p \in Pages : "HEAD" \in flags'[p] <=> p \in Heads \ {next}
    BY <2>1, <2>5 DEF Heads, IsHead
  <2>9. Heads' = Heads \ {next}
    <3>1. Heads \ {next} \in SUBSET Pages
      OBVIOUS
    <3>. QED BY <2>8, <3>1, HeadsNext, Zenon
  <2>10. FreeHeads' = FreeHeads \ {next}
    BY <2>1, <2>9 DEF FreeHeads
  <2>11. /\ o + 1 \in Orders /\ o + 1 \in Nat /\ order'[prev] = o + 1
         /\ order' \in [Pages -> Nat]
         /\ \A p \in Heads : p # prev /\ p # next => order'[p] = order[p]
         /\ \A p \in Pages : order[p] \in Heads /\ order[p] # next /\ p \notin Heads =>
                order'[p] = order[p]
    <3>1. \A p \in Pages : order'[p] = IF p = prev THEN o + 1
                                       ELSE IF p = next \/ p \in Tails(next, o) THEN prev
                                       ELSE order[p]
      BY <2>1 DEF OrderMerged
    <3>2. o + 1 \in Orders /\ o + 1 \in Nat
      BY <1>2, SpanFacts
    <3>3. \A q \in Tails(next, o) : q \notin Heads /\ order[q] = next
      BY <2>3, <2>5, <2>6 DEF TileInv
    <3>4. prev \in Nat
      BY <2>5, NodeFacts
    <3>5. \A p \in Pages : order'[p] \in Nat
      BY <3>1, <3>2, <3>4
    <3>6. order' \in [Pages -> Nat]
      BY <2>1, <3>5 DEF OrderMerged
    <3>. QED BY <2>5, <3>1, <3>2, <3>3, <3>6
  <2>12. ListInv(list', order', FreeHeads')
    <3> DEFINE l1 == ListRemove(list, prev)
               l2 == ListRemove(l1, next)
               F  == (FreeHeads \ {prev}) \ {next}
    <3>1. ListInv(l1, order, FreeHeads \ {prev})
      BY <2>5, ListInvRemove DEF BInv
    <3>2. ListInv(l2, order, F)
      <4> HIDE DEF l1
      <4>. QED BY <2>5, <3>1, ListInvRemove
    <3> HIDE DEF l2
    <3>3. ListInv(l2, order', F)
      <4>1. \A p \in Pages : p \in F => order'[p] = order[p]
        BY <2>11
      <4> HIDE DEF F
      <4>. QED BY <3>2, <4>1, ListInvRelabel
    <3>4. prev \notin F
      OBVIOUS
    <3>5. F \cup {prev} = FreeHeads'
      BY <2>3, <2>4, <2>10
    <3> HIDE DEF F
    <3>6. ListInv(ListAdd(l2, prev, ListHead(o + 1)), order', F \cup {prev})
      BY <2>5, <2>11, <3>3, <3>4, ListInvAdd
    <3>. QED BY <2>1, <3>5, <3>6 DEF l2
  <2>13. TypeOK'
    <3>1. flags' \in [Pages -> SUBSET {"HEAD", "TAIL"}]
      BY <2>1
    <3>2. arg' \in 0..NPages
      BY <2>1, <2>5, NodeFacts
    <3>. QED BY <2>1, <2>11, <2>12, <3>1, <3>2 DEF TypeOK, BInv, ListInv
  <2>14. FlagsInv'
    <3>1. \A p \in Pages : p # next => flags'[p] = flags[p]
      BY <2>1
    <3>2. \A p \in Heads' : flags'[p] = {"HEAD"}
      BY <2>9, <3>1 DEF BInv, FlagsInv
    <3>3. next >= Reserved
      BY <2>5, <2>6 DEF TileInv
    <3>4. \A p \in Pages : "TAIL" \in flags'[p] => p >= Reserved /\ p < NPages
      <4>1. \A p \in Pages : p < NPages
        BY NodeFacts
      <4>. QED BY <2>6, <3>1, <3>3, <4>1 DEF BInv, FlagsInv, IsTail
    <3>5. ASSUME NEW p \in Heads', owner'[p] # "FREE", NEW q \in Tails(p, order'[p])
          PROVE  flags'[q] = {"TAIL"}
      <4>1. p \in Heads /\ p # next /\ owner[p] # "FREE"
        BY <2>1, <2>9, <3>5
      <4>2. p # prev
        BY <2>3, <4>1 DEF FreeHeads
      <4>3. order'[p] = order[p]
        BY <2>11, <4>1, <4>2
      <4>4. q \in Tails(p, order[p])
        BY <3>5, <4>3
      <4>5. order[p] \in Orders /\ p + Span[order[p]] <= NPages /\ q \notin Heads
        BY <2>6, <4>1, <4>4 DEF TileInv
      <4>6. q \in Pages /\ q # next
        BY <2>5, <4>1, <4>4, <4>5, TailsInPages
      <4>7. flags[q] = {"TAIL"}
        BY <4>1, <4>4 DEF BInv, FlagsInv
      <4>. QED BY <3>1, <4>6, <4>7
    <3>. QED BY <2>6, <3>2, <3>4, <3>5 DEF FlagsInv, IsTail
  <2>15. StepInv'
    BY <1>1, <2>1, <2>3, <2>4, <2>10 DEF StepInv
  <2>16. Owned' = Owned
    <3>1. owner[prev] = "FREE" /\ owner[next] = "FREE" /\ owner' = owner
      BY <2>1, <2>3 DEF FreeHeads
    <3>2. \A p \in Pages : p # next => flags'[p] = flags[p]
      BY <2>1
    <3>3. \A p \in Pages : IsHead(p) /\ p # prev /\ p # next => order'[p] = order[p]
      BY <2>11 DEF Heads
    <3>. QED BY <3>1, <3>2, <3>3, OwnedSame DEF IsHead
  <2>17. Merges
    <3>1. arg \in {prev, next}
      BY DEF prev, next
    <3>2. \A p \in FreeHeads : p # prev /\ p # next => order'[p] = order[p]
      BY <2>11
    <3>. QED BY <2>1, <2>3, <2>4, <2>10, <3>1, <3>2 DEF Merges
  <2>. QED BY <2>1, <2>6, <2>7, <2>9, <2>12, <2>13, <2>14, <2>15, <2>16, <2>17 DEF BInv
<1>. QED BY <1>3, <1>4

LEMMA BInvStep == BInv /\ [Next]_vars => BInv'
<1> SUFFICES ASSUME BInv, [Next]_vars PROVE BInv'
  OBVIOUS
<1>1. CASE UNCHANGED vars
  BY <1>1 DEF BInv, vars, frames, TypeOK, TileInv, ListInv, FlagsInv, StepInv, Heads,
              FreeHeads, Laid, IsHead, IsTail
<1>2. CASE Step
  BY <1>2, LayBlockInv, SplitDownInv, AllocAndReturnInv, CoalesceUpInv DEF Step
<1>3. CASE \E o \in 0..(MaxOrder + 1) : Alloc(o)
  BY <1>3, AllocInv
<1>4. CASE \E p \in Pages : Free(p) \/ SetPageOwner(p)
  BY <1>4, FreeInv, SetPageOwnerInv
<1>. QED BY <1>1, <1>2, <1>3, <1>4 DEF Next

LEMMA BInvHolds == Spec => []BInv
BY InitBInv, BInvStep, PTL DEF Spec
-----------------------------------------------------------------------------
\* The state of the allocator is well typed.
THEOREM BuddyTypeCorrect == Spec => []TypeOK
<1>1. BInv => TypeOK
  BY DEF BInv
<1>. QED BY <1>1, BInvHolds, PTL

\* The blocks tile the managed pages in every intermediate state of the
\* layout, a split or a merge.
THEOREM BlocksTile == Spec => []Tiling
<1>1. ASSUME BInv PROVE Tiling
  <2>1. TileInv(order, Heads, Laid) /\ Heads \in SUBSET Pages
    BY <1>1, BFacts DEF BInv
  <2>2. \A p \in Pages : IsHead(p) <=> p \in Heads
    BY DEF Heads
  <2>3. ASSUME NEW p \in Heads
        PROVE  /\ p >= Reserved /\ order[p] \in Orders /\ p + Span[order[p]] <= Laid
               /\ \A q \in Tails(p, order[p]) : ~IsHead(q) /\ order[q] = p
    <3>1. p >= Reserved /\ order[p] \in Orders /\ p + Span[order[p]] <= Laid
          /\ \A q \in Tails(p, order[p]) : q \notin Heads /\ order[q] = p
      BY <2>1, <2>3 DEF TileInv
    <3>2. p + Span[order[p]] <= NPages
      <4>1. Laid \in Nat /\ Laid <= NPages /\ NPages \in Nat
        BY <1>1, BFacts DEF Laid
      <4>2. p \in Nat /\ Span[order[p]] \in Nat
        BY <2>1, <3>1, NodeFacts, SpanFacts
      <4>. QED BY <3>1, <4>1, <4>2
    <3>3. \A q \in Tails(p, order[p]) : q \in Pages
      BY <2>1, <3>1, <3>2, TailsInPages
    <3>. QED BY <2>2, <3>1, <3>3
  <2>4. \A p \in Reserved..(Laid - 1) :
           p \in Heads \/ (order[p] \in Heads /\ p \in Tails(order[p], order[order[p]]))
    BY <2>1 DEF TileInv
  <2>5. \A p \in Reserved..(Laid - 1) :
           ~IsHead(p) => IsHead(order[p]) /\ p \in Tails(order[p], order[order[p]])
    BY <2>1, <2>2, <2>4
  <2>. QED BY <2>2, <2>3, <2>5 DEF Tiling
<1>. QED BY <1>1, BInvHolds, PTL

\* The free lists hold exactly the free blocks, each on the list of its order.
THEOREM FreeListsCorrect == Spec => []FreeListsExact
<1>1. ASSUME BInv PROVE FreeListsExact
  <2>1. ListInv(list, order, FreeHeads)
    BY <1>1 DEF BInv
  <2>2. \A p \in Pages : p \in FreeHeads <=> IsHead(p) /\ owner[p] = "FREE"
    BY DEF FreeHeads, Heads
  <2>3. \A n : OrderOf(n) = Label(order, n)
    BY DEF OrderOf, Label
  <2>. QED BY <2>1, <2>2, <2>3 DEF FreeListsExact, ListInv
<1>. QED BY <1>1, BInvHolds, PTL

\* Every page of an allocated block leads head_from_page to the block's head.
THEOREM AllocatedPagesResolve == Spec => []HeadOfAllocated
<1>1. ASSUME BInv PROVE HeadOfAllocated
  <2>1. SUFFICES ASSUME NEW p \in Pages, IsHead(p), owner[p] # "FREE",
                        NEW q \in Tails(p, order[p]) \cup {p}
                 PROVE  HeadFromPage(q) = p
    BY DEF HeadOfAllocated
  <2>2. p \in Heads /\ flags[p] = {"HEAD"}
    BY <1>1, <2>1 DEF Heads, BInv, FlagsInv
  <2>3. CASE q = p
    BY <2>1, <2>2, <2>3 DEF HeadFromPage
  <2>4. CASE q \in Tails(p, order[p])
    <3>1. flags[q] = {"TAIL"}
      BY <1>1, <2>1, <2>2, <2>4 DEF BInv, FlagsInv
    <3>2. order[q] = p
      BY <1>1, <2>2, <2>4 DEF BInv, TileInv
    <3>. QED BY <2>1, <3>1, <3>2 DEF HeadFromPage
  <2>. QED BY <2>1, <2>3, <2>4
<1>. QED BY <1>1, BInvHolds, PTL

\* The page frames and the free lists describe the same blocks, whatever is
\* allocated, split, freed and merged.
THEOREM PageFramesCorrect == Spec => []PageFramesExact
<1>1. TypeOK /\ Tiling /\ FreeListsExact /\ HeadOfAllocated => PageFramesExact
  BY DEF PageFramesExact
<1>. QED BY <1>1, BuddyTypeCorrect, BlocksTile, FreeListsCorrect, AllocatedPagesResolve, PTL

\* A request for one page is refused only when no managed page is free.
THEOREM ExhaustionIsExact == Spec => []ExhaustionExact
<1>1. ASSUME BInv PROVE ExhaustionExact
  <2>1. SUFFICES ASSUME step = "idle", Refused(0), NEW p \in Reserved..(NPages - 1)
                 PROVE  \E h \in Reserved..p :
                            IsHead(h) /\ owner[h] # "FREE" /\ p < h + Span[order[h]]
    BY DEF ExhaustionExact
  <2>2. Reserved \in Nat /\ NPages \in Nat /\ p \in Nat /\ p < NPages /\ Reserved <= p
    BY <2>1, SpanFacts
  <2>3. p \in Pages
    BY <2>2, InPages
  <2>4. TileInv(order, Heads, NPages) /\ Heads \in SUBSET Pages
    BY <1>1, <2>1, BFacts DEF BInv, Laid
  <2>5. \A o \in Orders : ListEmpty(list, ListHead(o))
    BY <2>1 DEF Refused, Orders
  <2>6. \A q \in Pages : q \notin FreeHeads
    BY <1>1, <2>5, ListInvEmpty DEF BInv
  <2>7. \A h \in Heads : IsHead(h) /\ owner[h] # "FREE"
    BY <2>4, <2>6 DEF FreeHeads, Heads
  <2>8. CASE p \in Heads
    <3>1. order[p] \in Orders
      BY <2>4, <2>8 DEF TileInv
    <3>2. p < p + Span[order[p]]
      <4>1. Span[order[p]] \in Nat /\ Span[order[p]] >= 1
        BY <3>1, SpanFacts
      <4>. QED BY <2>2, <4>1
    <3>. QED BY <2>2, <2>7, <2>8, <3>2
  <2>9. CASE p \notin Heads
    <3>1. order[p] \in Heads /\ p \in Tails(order[p], order[order[p]])
      BY <2>1, <2>4, <2>9 DEF TileInv
    <3>2. order[order[p]] \in Orders /\ order[p] >= Reserved
      BY <2>4, <3>1 DEF TileInv
    <3>3. order[p] \in Nat
      BY <2>4, <3>1, NodeFacts
    <3>4. order[p] < p /\ p < order[p] + Span[order[order[p]]]
      BY <3>1, <3>2, <3>3, TailFacts
    <3>5. order[p] \in Reserved..p
      BY <2>2, <3>2, <3>3, <3>4
    <3>. QED BY <2>7, <3>1, <3>4, <3>5
  <2>. QED BY <2>8, <2>9
<1>. QED BY <1>1, BInvHolds, PTL
-----------------------------------------------------------------------------
\* Frees coalesce.

\* No block of F has its buddy in F, at the same order.
Coalesced(ord, F) ==
    \A p, q \in F : ord[p] < MaxOrder /\ ord[q] = ord[p] => q # Buddy(p, ord[p])

\* The same, but for the block x.
CoalescedBut(ord, F, x) ==
    \A p, q \in F : p # x /\ q # x /\ ord[p] < MaxOrder /\ ord[q] = ord[p] =>
                       q # Buddy(p, ord[p])

\* What is coalesced while a function runs: the layout makes blocks of
\* decreasing orders; a split works on a block whose buddy may be free and
\* leaves no block of the orders it goes through; a merge has only the block
\* it works on left to look at.
CoInv ==
    /\ step = "layout" => \A p, q \in FreeHeads : /\ level < order[p]
                                                  /\ order[p] = order[q] => p = q
    /\ step = "idle" => Coalesced(order, FreeHeads)
    /\ step = "split" =>
          /\ CoalescedBut(order, FreeHeads, list.next[ListHead(level)])
          /\ \A p \in FreeHeads : ~(arg <= order[p] /\ order[p] < level)
    /\ step = "coalesce" => CoalescedBut(order, FreeHeads, arg)

\* A block of the free list o is a block of order o, and the list has all of
\* them: there is none when the list is empty.
LEMMA ListInvNone ==
    ASSUME NEW l, NEW ord, NEW F, ListInv(l, ord, F), NEW o \in Orders,
           ListEmpty(l, ListHead(o))
    PROVE  \A p \in Pages : p \in F => ord[p] # o
<1> DEFINE S == {p \in Pages : ord[p] = o}
<1>1. l.next[ListHead(o)] = ListHead(o)
  BY DEF ListEmpty
<1>2. ASSUME NEW p \in S PROVE l.next[p] \in S
  <2>1. p \in Nodes /\ p \notin ListHeads /\ p \in Pages /\ p < NPages
    BY <1>2, NodeFacts
  <2>2. l.next[p] \in Nodes /\ l.prev[l.next[p]] = p
    BY <2>1 DEF ListInv, Lists, RingOK
  <2>3. Label(ord, l.next[p]) = o
    <3>1. Label(ord, l.next[p]) = Label(ord, p)
      BY <2>1 DEF ListInv
    <3>. QED BY <1>2, <2>1, <3>1 DEF Label
  <2>4. CASE l.next[p] \in Pages
    <3>1. l.next[p] < NPages
      BY <2>4, NodeFacts
    <3>. QED BY <2>3, <2>4, <3>1 DEF Label
  <2>5. CASE l.next[p] \notin Pages
    <3>1. l.next[p] = ListHead(o)
      <4>1. l.next[p] >= NPages /\ NPages \in Nat /\ l.next[p] \in Nat
        BY <2>2, <2>5, NodeFacts, SpanFacts DEF Nodes
      <4>2. l.next[p] - NPages = o
        BY <2>3, <4>1 DEF Label
      <4>3. l.next[p] = NPages + o
        BY <4>1, <4>2 DEF Orders
      <4>. QED BY <4>3 DEF ListHead
    <3>2. l.prev[l.next[l.next[p]]] = l.next[p]
      BY <2>2 DEF ListInv, RingOK
    <3>3. l.next[p] = p
      BY <1>1, <2>2, <3>1, <3>2
    <3>. QED BY <2>1, <2>5, <3>3
  <2>. QED BY <2>4, <2>5
<1>3. S \in SUBSET Nodes /\ S \cap ListHeads = {}
  BY NodeFacts
<1>4. \A p \in S : ~Linked(l, p)
  BY <1>2, <1>3 DEF ListInv, Anchored
<1>. QED BY <1>4 DEF ListInv

\* The bit that Buddy inverts: the next block of its size has the other one.
LEMMA QuotientNext ==
    ASSUME NEW p \in Nat, NEW s \in Nat, s >= 1
    PROVE  (p + s) \div s = (p \div s) + 1
<1> DEFINE d == p \div s
           e == (p + s) \div s
<1>1. d \in Nat /\ d * s <= p /\ p < d * s + s
  BY Quotient
<1>2. p + s \in Nat
  OBVIOUS
<1>3. e \in Nat /\ e * s <= p + s /\ p + s < e * s + s
  BY <1>2, Quotient
<1> HIDE DEF d, e
<1>4. (d + 1) * s = d * s + s /\ (d + 2) * s = d * s + 2 * s /\ d + 1 \in Nat /\ d + 2 \in Nat
      /\ (e + 1) * s = e * s + s /\ e + 1 \in Nat
  BY <1>1, <1>3
<1>5. ~(e >= d + 2)
  BY <1>1, <1>3, <1>4, Times
<1>6. ~(d >= e)
  <2>1. SUFFICES ASSUME d >= e PROVE FALSE
    OBVIOUS
  <2>2. d + 1 >= e + 1
    BY <1>1, <1>3, <2>1
  <2>3. (d + 1) * s >= (e + 1) * s
    BY <1>4, <2>2, Times
  <2>. QED BY <1>1, <1>3, <1>4, <2>3
<1>7. e = d + 1
  BY <1>1, <1>3, <1>5, <1>6
<1>. QED BY <1>7 DEF d, e

LEMMA Parity == \A d \in Nat : d % 2 = 0 <=> (d + 1) % 2 # 0
OBVIOUS

\* The buddy of the buddy of a block is the block.
LEMMA BuddyOfBuddy ==
    ASSUME NEW o \in Orders, o < MaxOrder, NEW p \in Pages, p + Span[o] <= NPages
    PROVE  Buddy(Buddy(p, o), o) = p /\ Buddy(p, o) # p
<1> DEFINE s == Span[o]
           b == Buddy(p, o)
<1>1. s \in Nat /\ s >= 1 /\ p \in Nat
  BY SpanFacts, InPages
<1>2. b \in Nat /\ (b = p + s \/ b = p - s)
  BY BuddyInRange, InPages
<1>3. p \div s \in Nat /\ b \div s \in Nat
  BY <1>1, <1>2, Quotient
<1>4. b = IF (p \div s) % 2 = 0 THEN p + s ELSE p - s
  BY DEF Buddy
<1>5. Buddy(b, o) = IF (b \div s) % 2 = 0 THEN b + s ELSE b - s
  BY DEF Buddy
<1> HIDE DEF b, s
<1>6. CASE (p \div s) % 2 = 0
  <2>1. b = p + s
    BY <1>4, <1>6
  <2>2. b \div s = (p \div s) + 1
    BY <1>1, <2>1, QuotientNext
  <2>3. (b \div s) % 2 # 0
    BY <1>3, <1>6, <2>2, Parity
  <2>4. Buddy(b, o) = b - s
    BY <1>5, <2>3
  <2>. QED BY <1>1, <2>1, <2>4 DEF b, s
<1>7. CASE (p \div s) % 2 # 0
  <2>1. b = p - s
    BY <1>4, <1>7
  <2>2. b + s = p
    BY <1>1, <2>1
  <2>3. p \div s = (b \div s) + 1
    BY <1>1, <1>2, <2>2, QuotientNext
  <2>4. (b \div s) % 2 = 0
    BY <1>3, <1>7, <2>3, Parity
  <2>5. Buddy(b, o) = b + s
    BY <1>5, <2>4
  <2>. QED BY <1>1, <2>1, <2>2, <2>5 DEF b, s
<1>. QED BY <1>6, <1>7

\* The same for the free blocks of the allocator.
LEMMA FreeBuddy ==
    ASSUME BInv, NEW p \in FreeHeads, order[p] < MaxOrder
    PROVE  Buddy(Buddy(p, order[p]), order[p]) = p /\ Buddy(p, order[p]) # p
<1> USE BFacts
<1>1. Laid \in Nat /\ Laid <= NPages
  BY DEF Laid
<1>2. order[p] \in Orders /\ p + Span[order[p]] <= Laid
  BY DEF BInv, TileInv
<1>3. p \in Pages /\ p \in Nat /\ Span[order[p]] \in Nat
  BY <1>2, NodeFacts, SpanFacts
<1>4. p + Span[order[p]] <= NPages
  BY <1>1, <1>2, <1>3
<1>. QED BY <1>2, <1>3, <1>4, BuddyOfBuddy

\* No block is its own buddy.
OtherBuddy ==
    \A p \in FreeHeads : /\ order[p] \in Nat
                         /\ order[p] < MaxOrder => Buddy(p, order[p]) # p

LEMMA BuddyIsOther == BInv => OtherBuddy
BY BFacts, FreeBuddy DEF OtherBuddy

\* Blocks of distinct orders are no buddies.
LEMMA LayBlockCo == BInv /\ CoInv /\ LayBlock => CoInv'
<1> SUFFICES ASSUME BInv, CoInv, LayBlock PROVE CoInv'
  OBVIOUS
<1> USE BFacts
<1>1. step = "layout" /\ Lays /\ BInv'
  BY LayBlockInv DEF LayBlock
<1>2. /\ level = 0 => step' = "idle"
      /\ level # 0 => step' = "layout" /\ level' = level - 1
  BY <1>1 DEF LayBlock, Return
<1>3. \A p, q \in FreeHeads : level < order[p] /\ (order[p] = order[q] => p = q)
  BY <1>1 DEF CoInv
<1>4. \A p \in FreeHeads : order[p] \in Nat
  OBVIOUS
<1>5. \A p, q \in FreeHeads' : level <= order'[p] /\ (order'[p] = order'[q] => p = q)
  <2>1. CASE arg + Span[level] <= NPages
    <3>1. /\ FreeHeads' = FreeHeads \cup {arg} /\ order'[arg] = level
          /\ \A p \in FreeHeads : p # arg /\ order'[p] = order[p]
      BY <1>1, <2>1 DEF Lays
    <3>2. \A p \in FreeHeads : level <= order[p] /\ order[p] # level
      BY <1>3, <1>4
    <3>. QED BY <1>3, <3>1, <3>2
  <2>2. CASE ~(arg + Span[level] <= NPages)
    <3>1. FreeHeads' = FreeHeads /\ order' = order
      BY <1>1, <2>2 DEF Lays
    <3>2. \A p \in FreeHeads : level <= order[p]
      BY <1>3, <1>4
    <3>. QED BY <1>3, <3>1, <3>2
  <2>. QED BY <2>1, <2>2
<1>6. OtherBuddy'
  BY <1>1, BuddyIsOther, PTL
<1>7. CASE level = 0
  <2>1. \A p \in FreeHeads' : order'[p] < MaxOrder => Buddy(p, order'[p]) # p
    BY <1>6 DEF OtherBuddy
  <2>2. Coalesced(order', FreeHeads')
    BY <1>5, <2>1 DEF Coalesced
  <2>. QED BY <1>2, <1>7, <2>2 DEF CoInv
<1>8. CASE level # 0
  <2>1. \A n \in Nat : level <= n => level - 1 < n
    OBVIOUS
  <2>2. \A p \in FreeHeads' : order'[p] \in Nat
    BY <1>6 DEF OtherBuddy
  <2>3. \A p \in FreeHeads' : level' < order'[p]
    <3>1. \A p \in FreeHeads' : level - 1 < order'[p]
      BY <1>5, <2>1, <2>2, Zenon
    <3>. QED BY <1>2, <1>8, <3>1, Zenon
  <2>. QED BY <1>2, <1>5, <1>8, <2>3 DEF CoInv
<1>. QED BY <1>7, <1>8

\* The search of buddy_alloc passes only empty lists.
LEMMA AllocCo ==
    ASSUME BInv, CoInv, NEW o \in 0..(MaxOrder + 1), Alloc(o)
    PROVE  CoInv'
<1> USE BFacts
<1>1. CASE UNCHANGED vars
  BY <1>1 DEF CoInv, vars, frames, Heads, FreeHeads, IsHead
<1>2. ASSUME NEW i \in Orders, step = "idle",
             \A j \in Orders : o <= j /\ j < i => ListEmpty(list, ListHead(j)),
             step' = "split", level' = i, arg' = o, UNCHANGED frames
      PROVE  CoInv'
  <2>1. FreeHeads' = FreeHeads /\ order' = order /\ list' = list
    BY <1>2 DEF frames, Heads, FreeHeads, IsHead
  <2>2. Coalesced(order, FreeHeads)
    BY <1>2 DEF CoInv
  <2>3. CoalescedBut(order, FreeHeads, list.next[ListHead(i)])
    BY <2>2 DEF Coalesced, CoalescedBut
  <2>4. ASSUME NEW p \in FreeHeads, o <= order[p], order[p] < i PROVE FALSE
    <3>1. order[p] \in Orders
      BY DEF BInv, TileInv
    <3>2. ListEmpty(list, ListHead(order[p]))
      BY <1>2, <2>4, <3>1
    <3>. QED BY <3>1, <3>2, ListInvNone DEF BInv
  <2>. QED BY <1>2, <2>1, <2>3, <2>4 DEF CoInv
<1>. QED BY <1>1, <1>2 DEF Alloc

\* The halves of a block are the only blocks of their order, and the lower
\* one is the block that is split next or handed out.
LEMMA SplitDownCo == BInv /\ CoInv /\ SplitDown => CoInv'
<1> SUFFICES ASSUME BInv, CoInv, SplitDown PROVE CoInv'
  OBVIOUS
<1> USE BFacts
<1>1. PICK pfn : pfn = list.next[ListHead(level)]
  OBVIOUS
<1>2. Splits(pfn) /\ BInv'
  BY <1>1, SplitDownInv
<1>3. /\ step = "split" /\ arg < level /\ step' = "split"
      /\ level' = level - 1 /\ arg' = arg
  BY DEF SplitDown
<1>4. /\ CoalescedBut(order, FreeHeads, pfn)
      /\ \A p \in FreeHeads : ~(arg <= order[p] /\ order[p] < level)
  BY <1>1, <1>3 DEF CoInv
<1>5. PICK b \in Pages : /\ FreeHeads' = FreeHeads \cup {b}
                         /\ order'[b] = level - 1 /\ order'[pfn] = level - 1
                         /\ \A p \in FreeHeads : p # b /\ (p # pfn => order'[p] = order[p])
  BY <1>2 DEF Splits
<1>6. list'.next[ListHead(level')] = pfn
  BY <1>2, <1>3 DEF Splits
<1>7. level - 1 \in Nat /\ arg <= level - 1 /\ level - 1 < level
  BY <1>3
<1>8. \A p \in FreeHeads : p # pfn => order'[p] # level - 1
  <2>1. \A p \in FreeHeads : order[p] # level - 1
    BY <1>4, <1>7
  <2>. QED BY <1>5, <2>1
<1>9. CoalescedBut(order', FreeHeads', pfn)
  <2>1. SUFFICES ASSUME NEW p \in FreeHeads', NEW q \in FreeHeads', p # pfn, q # pfn,
                        order'[p] < MaxOrder, order'[q] = order'[p]
                 PROVE  q # Buddy(p, order'[p])
    BY DEF CoalescedBut
  <2>2. CASE p = b
    <3>1. q = b
      BY <1>5, <1>8, <2>1, <2>2
    <3>2. Buddy(p, order'[p]) # p
      <4>1. OtherBuddy'
        BY <1>2, BuddyIsOther, PTL
      <4>. QED BY <2>1, <4>1 DEF OtherBuddy
    <3>. QED BY <2>2, <3>1, <3>2
  <2>3. CASE p # b
    <3>1. p \in FreeHeads /\ order'[p] # level - 1
      BY <1>5, <1>8, <2>1, <2>3
    <3>2. q \in FreeHeads
      BY <1>5, <2>1, <3>1
    <3>. QED BY <1>4, <1>5, <2>1, <3>1, <3>2 DEF CoalescedBut
  <2>. QED BY <2>2, <2>3
<1>10. ASSUME NEW p \in FreeHeads', arg <= order'[p], order'[p] < level - 1 PROVE FALSE
  <2>1. p # b /\ p # pfn
    BY <1>5, <1>7, <1>10
  <2>2. p \in FreeHeads /\ order'[p] = order[p]
    BY <1>5, <1>10, <2>1
  <2>3. order[p] \in Nat /\ level - 1 < level
    BY <1>7, <2>2
  <2>4. arg <= order[p] /\ order[p] < level - 1
    BY <1>10, <2>2, Zenon
  <2>5. order[p] < level
    BY <2>3, <2>4
  <2>. QED BY <1>4, <2>2, <2>4, <2>5
<1>. QED BY <1>3, <1>6, <1>9, <1>10 DEF CoInv

\* The block that is handed out is the only one whose buddy may be free.
LEMMA AllocAndReturnCo == BInv /\ CoInv /\ AllocAndReturn => CoInv'
<1> SUFFICES ASSUME BInv, CoInv, AllocAndReturn PROVE CoInv'
  OBVIOUS
<1>1. PICK pfn : pfn = list.next[ListHead(level)]
  OBVIOUS
<1>2. step = "split" /\ step' = "idle"
  BY DEF AllocAndReturn, Return
<1>3. FreeHeads' = FreeHeads \ {pfn} /\ order' = order
  BY <1>1, AllocAndReturnInv DEF Vends
<1>4. CoalescedBut(order, FreeHeads, pfn)
  BY <1>1, <1>2 DEF CoInv
<1>5. Coalesced(order', FreeHeads')
  BY <1>3, <1>4 DEF Coalesced, CoalescedBut
<1>. QED BY <1>2, <1>5 DEF CoInv

\* Only the block that is freed can now have a free buddy.
LEMMA FreeCo ==
    ASSUME BInv, CoInv, NEW p \in Pages, Free(p)
    PROVE  CoInv'
<1> USE BFacts
<1>1. CASE UNCHANGED vars
  BY <1>1 DEF CoInv, vars, frames, Heads, FreeHeads, IsHead
<1>2. CASE IsHead(p) /\ owner[p] # "FREE"
  <2>1. /\ step = "idle" /\ order' = order /\ flags' = flags
        /\ owner' = [owner EXCEPT ![p] = "FREE"]
        /\ IF order[p] < MaxOrder THEN step' = "coalesce" /\ arg' = p ELSE step' = "idle"
    BY <1>2 DEF Free, Return
  <2>2. FreeHeads' = FreeHeads \cup {p}
    <3>1. \A q \in Pages : owner'[q] = "FREE" <=> q = p \/ owner[q] = "FREE"
      BY <2>1
    <3>. QED BY <1>2, <2>1, <3>1 DEF FreeHeads, Heads, IsHead
  <2>3. Coalesced(order, FreeHeads)
    BY <2>1 DEF CoInv
  <2>4. CASE order[p] < MaxOrder
    <3>1. CoalescedBut(order', FreeHeads', p)
      BY <2>1, <2>2, <2>3 DEF Coalesced, CoalescedBut
    <3>. QED BY <2>1, <2>4, <3>1 DEF CoInv
  <2>5. CASE ~(order[p] < MaxOrder)
    <3>1. Coalesced(order', FreeHeads')
      BY <2>1, <2>2, <2>3, <2>5 DEF Coalesced
    <3>. QED BY <2>1, <2>5, <3>1 DEF CoInv
  <2>. QED BY <2>4, <2>5
<1>. QED BY <1>1, <1>2 DEF Free

\* A merge leaves the merged block to look at; coalesce_up stops when that
\* block has no free buddy, and no other block has that block for a buddy.
LEMMA CoalesceUpCo == BInv /\ CoInv /\ CoalesceUp => CoInv'
<1> SUFFICES ASSUME BInv, CoInv, CoalesceUp PROVE CoInv'
  OBVIOUS
<1> USE BFacts
<1>1. step = "coalesce" /\ CoalescedBut(order, FreeHeads, arg) /\ arg \in FreeHeads
  BY DEF CoalesceUp, CoInv, BInv, StepInv
<1>2. CASE step' = "coalesce"
  <2>1. PICK prev, next \in FreeHeads :
            /\ prev # next /\ arg \in {prev, next} /\ arg' = prev
            /\ FreeHeads' = FreeHeads \ {next}
            /\ \A p \in FreeHeads : p # prev /\ p # next => order'[p] = order[p]
    BY <1>2, CoalesceUpInv DEF Merges
  <2>2. CoalescedBut(order', FreeHeads', prev)
    BY <1>1, <2>1 DEF CoalescedBut
  <2>. QED BY <1>2, <2>1, <2>2 DEF CoInv
<1>3. CASE step' # "coalesce"
  <2> DEFINE o     == order[arg]
             buddy == Buddy(arg, o)
  <2>1. step' = "idle" /\ UNCHANGED frames
        /\ ~(order[buddy] = order[arg] /\ owner[buddy] = "FREE" /\ owner[arg] = "FREE")
    BY <1>1, <1>3 DEF CoalesceUp, Return
  <2>2. FreeHeads' = FreeHeads /\ order' = order
    BY <2>1 DEF frames, Heads, FreeHeads, IsHead
  <2>3. owner[arg] = "FREE" /\ \A q \in FreeHeads : owner[q] = "FREE"
    BY <1>1 DEF FreeHeads
  <2>4. \A q \in FreeHeads : order[q] = order[arg] => q # Buddy(arg, order[arg])
    BY <2>1, <2>3
  <2>5. ASSUME NEW p \in FreeHeads, order[p] < MaxOrder, order[p] = order[arg]
        PROVE  arg # Buddy(p, order[p])
    <3>1. Buddy(Buddy(p, order[p]), order[p]) = p
      BY <2>5, FreeBuddy
    <3>. QED BY <2>4, <2>5, <3>1
  <2>6. Coalesced(order, FreeHeads)
    BY <1>1, <2>4, <2>5 DEF Coalesced, CoalescedBut
  <2>. QED BY <2>1, <2>2, <2>6 DEF CoInv
<1>. QED BY <1>2, <1>3

LEMMA SetPageOwnerCo ==
    ASSUME BInv, CoInv, NEW p \in Pages, SetPageOwner(p)
    PROVE  CoInv'
<1> USE BFacts
<1> DEFINE h == IF IsTail(p) THEN order[p] ELSE p
<1>1. /\ step = "idle" /\ owner[h] = "BUDDY" /\ owner' = [owner EXCEPT ![h] = "SLAB"]
      /\ UNCHANGED <<order, flags, list, step, level, arg>>
  BY DEF SetPageOwner
<1> HIDE DEF h
<1>2. \A q \in Pages : owner'[q] = "FREE" <=> owner[q] = "FREE"
  BY <1>1
<1>3. FreeHeads' = FreeHeads
  BY <1>1, <1>2 DEF FreeHeads, Heads, IsHead
<1>. QED BY <1>1, <1>3 DEF CoInv

LEMMA CoInvStep == BInv /\ CoInv /\ [Next]_vars => CoInv'
<1> SUFFICES ASSUME BInv, CoInv, [Next]_vars PROVE CoInv'
  OBVIOUS
<1>1. CASE UNCHANGED vars
  BY <1>1 DEF CoInv, vars, frames, Heads, FreeHeads, IsHead
<1>2. CASE Step
  BY <1>2, LayBlockCo, SplitDownCo, AllocAndReturnCo, CoalesceUpCo DEF Step
<1>3. CASE \E o \in 0..(MaxOrder + 1) : Alloc(o)
  BY <1>3, AllocCo
<1>4. CASE \E p \in Pages : Free(p) \/ SetPageOwner(p)
  BY <1>4, FreeCo, SetPageOwnerCo
<1>. QED BY <1>1, <1>2, <1>3, <1>4 DEF Next

\* Between calls no free block has a free buddy of its own order: every free
\* is merged as far as it goes, whatever was allocated, split and freed
\* before (coalesce_up, _split_down, _initialize_buddy_allocator).
THEOREM FreesCoalesce == Spec => []FullyCoalesced
<1>1. Init => CoInv
  <2>1. Init => FreeHeads = {} /\ step = "layout"
    BY DEF Init, FreeHeads, Heads, IsHead
  <2>. QED BY <2>1 DEF CoInv
<1>2. ASSUME BInv, CoInv PROVE FullyCoalesced
  <2>1. SUFFICES ASSUME step = "idle", NEW p \in Pages, IsHead(p), owner[p] = "FREE",
                        order[p] < MaxOrder, NEW b, b = Buddy(p, order[p]),
                        IsHead(b), owner[b] = "FREE", order[b] = order[p]
                 PROVE  FALSE
    BY DEF FullyCoalesced
  <2>2. Coalesced(order, FreeHeads) /\ p \in FreeHeads
    BY <1>2, <2>1 DEF CoInv, FreeHeads, Heads
  <2>3. b \in Pages
    <3>1. order[p] \in Orders /\ p + Span[order[p]] <= NPages
      BY <1>2, <2>1, <2>2 DEF BInv, TileInv, Laid, FreeHeads
    <3>. QED BY <2>1, <3>1, BuddyInRange
  <2>4. b \in FreeHeads
    BY <2>1, <2>3 DEF FreeHeads, Heads
  <2>. QED BY <2>1, <2>2, <2>4 DEF Coalesced
<1>. QED BY <1>1, <1>2, BInvHolds, CoInvStep, PTL DEF Spec
-----------------------------------------------------------------------------
\* The refinement of PageAllocator.

LEMMA OwnedOf ==
    ASSUME BInv
    PROVE  /\ \A p \in Pages : Owned[p] = IF p \in Heads /\ p \notin FreeHeads
                                          THEN order[p] ELSE NoOrder
           /\ \A p \in Pages : Owned[p] # NoOrder <=> p \in Heads /\ p \notin FreeHeads
<1>1. \A p \in Pages : Owned[p] = IF p \in Heads /\ p \notin FreeHeads
                                  THEN order[p] ELSE NoOrder
  BY DEF Owned, Heads, FreeHeads
<1>2. \A p \in Heads : order[p] # NoOrder
  <2>1. \A p \in Heads : order[p] \in Orders
    BY DEF BInv, TileInv
  <2>. QED BY <2>1, SpanFacts DEF NoOrder, Orders
<1>. QED BY <1>1, <1>2

\* _alloc_and_return is Vend of the block it takes, and buddy_free is Free.
LEMMA AllocIsVend ==
    ASSUME BInv, AllocAndReturn
    PROVE  \E p \in Abstract!Region : Abstract!Vend(p)
<1> USE BFacts
<1> DEFINE pfn == list.next[ListHead(level)]
<1>1. step = "split" /\ step' = "idle" /\ arg = level
  BY DEF AllocAndReturn, Return
<1>2. /\ pfn \in Pages /\ pfn \in FreeHeads /\ pfn \in Heads /\ order[pfn] = level
      /\ "HEAD" \in flags[pfn] /\ owner[pfn] = "FREE" /\ pfn \in Nat /\ pfn >= Reserved
      /\ TileInv(order, Heads, NPages)
      /\ \A q \in Tails(pfn, level) : q \in Pages /\ q \notin Heads /\ order[q] = pfn
                                      /\ q >= Reserved
  BY <1>1, FirstBlock
<1>3. /\ owner' = [p \in Pages |-> IF p = pfn \/ p \in Tails(pfn, level)
                                   THEN "BUDDY" ELSE owner[p]]
      /\ flags' = [p \in Pages |-> IF p = pfn THEN flags[p] \cup {"HEAD"}
                                   ELSE IF p \in Tails(pfn, level) THEN {"TAIL"} ELSE flags[p]]
      /\ order' = [p \in Pages |-> IF p \in Tails(pfn, level) THEN pfn ELSE order[p]]
  BY DEF AllocAndReturn
<1> HIDE DEF pfn
<1>4. Want = level /\ Want' = NoOrder /\ level # NoOrder
  BY <1>1, SpanFacts DEF Want, NoOrder, Orders
<1>5. Owned' = [Owned EXCEPT ![pfn] = level]
  <2>1. \A p \in Tails(pfn, level) : ~IsHead(p) /\ p # pfn
    BY <1>2 DEF Heads
  <2>2. \A p \in Pages : (IsHead(p) /\ owner[p] # "FREE")' <=>
                            p = pfn \/ (IsHead(p) /\ owner[p] # "FREE")
    BY <1>2, <1>3, <2>1 DEF IsHead
  <2>3. \A p \in Pages : p = pfn \/ IsHead(p) => order'[p] = order[p]
    BY <1>2, <1>3, <2>1
  <2>4. \A p \in Pages : Owned'[p] = IF p = pfn THEN level ELSE Owned[p]
    BY <1>2, <2>2, <2>3 DEF Owned, NoOrder
  <2>. QED BY <1>2, <2>4 DEF Owned
<1>6. pfn \in Abstract!Region /\ pfn + Span[level] <= NPages
  <2>1. pfn + Span[level] <= NPages
    BY <1>2 DEF TileInv
  <2>2. pfn < NPages
    BY <1>2, InPages
  <2>. QED BY <1>2, <2>1, <2>2 DEF Abstract!Region
<1>7. ASSUME NEW q \in Abstract!Region, Owned[q] # NoOrder
      PROVE  ~Abstract!Overlaps(pfn, level, q, Owned[q])
  <2>1. q \in Pages
    <3>1. q \in Nat /\ q < NPages
      BY <1>7 DEF Abstract!Region
    <3>. QED BY <3>1, InPages
  <2>2. q \in Heads /\ q \notin FreeHeads /\ Owned[q] = order[q]
    BY <1>7, <2>1, OwnedOf
  <2>3. q + Span[order[q]] <= pfn \/ pfn + Span[level] <= q
    BY <1>2, <2>2, TileDisjoint
  <2>4. order[q] \in Orders
    BY <1>2, <2>2 DEF TileInv
  <2>5. Span[order[q]] \in Nat /\ Span[level] \in Nat /\ q \in Nat
    BY <2>1, <2>4, SpanFacts, InPages
  <2>6. ~(pfn < q + Span[order[q]] /\ q < pfn + Span[level])
    BY <1>2, <2>3, <2>5
  <2>. QED BY <2>2, <2>6 DEF Abstract!Overlaps
<1>8. Abstract!Vend(pfn)
  BY <1>4, <1>5, <1>6, <1>7 DEF Abstract!Vend
<1>. QED BY <1>6, <1>8

LEMMA FreeIsFree ==
    ASSUME BInv, NEW p \in Pages, Free(p), ~UNCHANGED vars
    PROVE  p \in Abstract!Region /\ Abstract!Free(p)
<1> USE BFacts
<1>1. /\ IsHead(p) /\ owner[p] # "FREE" /\ step = "idle" /\ step' # "split"
      /\ order' = order /\ flags' = flags /\ owner' = [owner EXCEPT ![p] = "FREE"]
  BY DEF Free, Return
<1>2. p \in Heads /\ p \notin FreeHeads
  BY <1>1 DEF Heads, FreeHeads
<1>3. p \in Abstract!Region
  <2>1. p >= Reserved
    BY <1>2 DEF BInv, TileInv
  <2>. QED BY <2>1, InPages DEF Abstract!Region
<1>4. Want = NoOrder /\ Want' = NoOrder /\ Owned[p] # NoOrder
  BY <1>1, <1>2, OwnedOf DEF Want, NoOrder
<1>5. Owned' = [Owned EXCEPT ![p] = NoOrder]
  BY <1>1 DEF Owned, IsHead, NoOrder
<1>. QED BY <1>3, <1>4, <1>5 DEF Abstract!Free

\* The buddy allocator implements PageAllocator: no page is vended twice.
THEOREM ImplementsPageAllocator == Spec => NoDoubleVend
<1>1. Init => Abstract!Init
  <2>1. SUFFICES ASSUME Init PROVE Abstract!Init
    OBVIOUS
  <2>2. Want = NoOrder
    BY <2>1 DEF Init, Want
  <2>3. \A p \in Pages : ~IsHead(p)
    BY <2>1 DEF Init, IsHead
  <2>4. Owned = [p \in Pages |-> NoOrder]
    BY <2>3 DEF Owned
  <2>. QED BY <2>2, <2>4 DEF Abstract!Init, Pages
<1>2. ASSUME BInv, [Next]_vars PROVE [Abstract!Next]_<<Owned, Want>>
  <2>1. CASE UNCHANGED vars
    BY <2>1 DEF vars, frames, Owned, Want, IsHead, NoOrder
  <2>2. CASE LayBlock
    <3>1. Want' = Want
      BY <2>2 DEF LayBlock, Return, Want, NoOrder
    <3>. QED BY <1>2, <2>2, <3>1, LayBlockInv
  <2>3. CASE SplitDown
    <3>1. Want' = Want
      BY <2>3 DEF SplitDown, Want, NoOrder
    <3>. QED BY <1>2, <2>3, <3>1, SplitDownInv
  <2>4. CASE CoalesceUp
    <3>1. Want' = Want
      BY <2>4 DEF CoalesceUp, Return, Want, NoOrder
    <3>. QED BY <1>2, <2>4, <3>1, CoalesceUpInv
  <2>5. CASE AllocAndReturn
    BY <1>2, <2>5, AllocIsVend DEF Abstract!Next
  <2>6. ASSUME NEW o \in 0..(MaxOrder + 1), Alloc(o), ~UNCHANGED vars
        PROVE  Abstract!Next
    <3>1. PICK i \in Orders : o <= i /\ step' = "split" /\ arg' = o /\ UNCHANGED frames
      BY <2>6 DEF Alloc
    <3>2. o \in Orders
      BY <3>1, SpanFacts DEF Orders
    <3>3. Want = NoOrder /\ Want' = o
      BY <2>6, <3>1 DEF Alloc, Want
    <3>4. Owned' = Owned
      BY <3>1 DEF frames, Owned, IsHead, NoOrder
    <3>5. Abstract!Request(o)
      BY <3>3, <3>4 DEF Abstract!Request
    <3>. QED BY <3>2, <3>5 DEF Abstract!Next
  <2>7. ASSUME NEW p \in Pages, Free(p), ~UNCHANGED vars
        PROVE  Abstract!Next
    BY <1>2, <2>7, FreeIsFree DEF Abstract!Next
  <2>8. ASSUME NEW p \in Pages, SetPageOwner(p)
        PROVE  UNCHANGED <<Owned, Want>>
    <3> DEFINE h == IF IsTail(p) THEN order[p] ELSE p
    <3>1. /\ owner[h] = "BUDDY" /\ owner' = [owner EXCEPT ![h] = "SLAB"]
          /\ UNCHANGED <<order, flags, step, arg>>
      BY <2>8 DEF SetPageOwner
    <3> HIDE DEF h
    <3>2. \A q \in Pages : owner'[q] = "FREE" <=> owner[q] = "FREE"
      BY <1>2, <3>1, BFacts
    <3>3. Owned' = Owned
      BY <3>1, <3>2 DEF Owned, IsHead, NoOrder
    <3>. QED BY <3>1, <3>3 DEF Want, NoOrder
  <2>. QED BY <1>2, <2>1, <2>2, <2>3, <2>4, <2>5, <2>6, <2>7, <2>8 DEF Next, Step
<1>. QED BY <1>1, <1>2, BInvHolds, PTL DEF Spec, NoDoubleVend, Abstract!Spec
=============================================================================
