------------------------- MODULE LinkedList_proofs -------------------------
(***************************************************************************)
(* What list_add and list_remove do to a well-formed list.                 *)
(***************************************************************************)
EXTENDS LinkedList, FiniteSetTheorems, TLAPS

\* list_add of a node that is not linked keeps the rings whole, links that
\* node after h and leaves every other node as linked as it was.
LEMMA ListAddRing ==
    ASSUME NEW N, NEW l \in Lists(N), NEW n \in N, NEW h \in N, n # h,
           RingOK(l, N), ~Linked(l, n)
    PROVE  /\ ListAdd(l, n, h) \in Lists(N)
           /\ RingOK(ListAdd(l, n, h), N)
           /\ ListAdd(l, n, h).next[h] = n
           /\ \A m \in N \ {h} : Linked(ListAdd(l, n, h), m) <=>
                                  (m = n \/ Linked(l, m))
<1> DEFINE k == ListAdd(l, n, h)
<1>1. l.next \in [N -> N] /\ l.prev \in [N -> N]
  BY DEF Lists
<1>2. k.next \in [N -> N] /\ k.prev \in [N -> N] /\ k \in Lists(N)
  BY <1>1 DEF Lists, ListAdd
<1>3. l.next[n] = n /\ l.prev[n] = n
  BY <1>1 DEF RingOK, Linked
<1>4. l.next[h] # n
  BY <1>1, <1>3 DEF RingOK
<1>5. \A m \in N : k.next[m] = IF m = h THEN n
                                ELSE IF m = n THEN l.next[h] ELSE l.next[m]
  BY <1>1 DEF ListAdd
<1>6. \A m \in N : k.prev[m] = IF m = l.next[h] THEN n
                                ELSE IF m = n THEN h ELSE l.prev[m]
  BY <1>1 DEF ListAdd
<1>7. RingOK(k, N)
  <2>1. SUFFICES ASSUME NEW m \in N
                 PROVE  k.prev[k.next[m]] = m /\ k.next[k.prev[m]] = m
    BY DEF RingOK
  <2>2. l.prev[l.next[m]] = m /\ l.next[l.prev[m]] = m
    BY DEF RingOK
  <2>3. l.next[m] \in N /\ l.prev[m] \in N /\ l.next[h] \in N
    BY <1>1
  <2>4. l.prev[l.next[h]] = h
    BY DEF RingOK
  <2>5. k.prev[k.next[m]] = m
    BY <1>3, <1>4, <1>5, <1>6, <2>2, <2>3, <2>4
  <2>6. k.next[k.prev[m]] = m
    BY <1>3, <1>4, <1>5, <1>6, <2>2, <2>3, <2>4
  <2>. QED BY <2>5, <2>6
<1>8. \A m \in N \ {h} : Linked(k, m) <=> (m = n \/ Linked(l, m))
  BY <1>4, <1>5 DEF Linked
<1>. QED BY <1>2, <1>5, <1>7, <1>8

\* list_remove of a node that is not the list head keeps the rings whole,
\* unlinks that node and, the list head apart, no node becomes linked; every
\* other node but the head stays linked when all nodes are on the head's ring.
LEMMA ListRemoveRing ==
    ASSUME NEW N, NEW l \in Lists(N), NEW n \in N, RingOK(l, N)
    PROVE  /\ ListRemove(l, n) \in Lists(N)
           /\ RingOK(ListRemove(l, n), N)
           /\ ~Linked(ListRemove(l, n), n)
           /\ \A m \in N : m # n /\ m # l.prev[n] =>
                  ListRemove(l, n).next[m] = l.next[m]
           /\ ~Linked(l, n) => ListRemove(l, n) = l
<1> DEFINE k == ListRemove(l, n)
<1>1. l.next \in [N -> N] /\ l.prev \in [N -> N]
  BY DEF Lists
<1>2. k.next \in [N -> N] /\ k.prev \in [N -> N] /\ k \in Lists(N)
  BY <1>1 DEF Lists, ListRemove
<1>5. \A m \in N : k.next[m] = IF m = n THEN n
                     ELSE IF m = l.prev[n] THEN l.next[n] ELSE l.next[m]
  BY <1>1 DEF ListRemove
<1>6. \A m \in N : k.prev[m] = IF m = n THEN n
                     ELSE IF m = l.next[n] THEN l.prev[n] ELSE l.prev[m]
  BY <1>1 DEF ListRemove
<1>7. RingOK(k, N)
  <2>1. SUFFICES ASSUME NEW m \in N
                 PROVE  k.prev[k.next[m]] = m /\ k.next[k.prev[m]] = m
    BY DEF RingOK
  <2>2. l.prev[l.next[m]] = m /\ l.next[l.prev[m]] = m
    BY DEF RingOK
  <2>3. l.next[m] \in N /\ l.prev[m] \in N /\ l.next[n] \in N /\ l.prev[n] \in N
    BY <1>1
  <2>4. l.prev[l.next[n]] = n /\ l.next[l.prev[n]] = n
    BY DEF RingOK
  <2>5. k.prev[k.next[m]] = m
    BY <1>5, <1>6, <2>2, <2>3, <2>4
  <2>6. k.next[k.prev[m]] = m
    BY <1>5, <1>6, <2>2, <2>3, <2>4
  <2>. QED BY <2>5, <2>6
<1>8. ASSUME ~Linked(l, n) PROVE k = l
  <2>1. l.next[n] = n /\ l.prev[n] = n
    BY <1>1, <1>8 DEF RingOK, Linked
  <2>2. k.next = l.next /\ k.prev = l.prev
    BY <1>1, <2>1 DEF ListRemove
  <2>3. k = [next |-> k.next, prev |-> k.prev]
    BY DEF ListRemove
  <2>4. l = [next |-> l.next, prev |-> l.prev]
    BY DEF Lists
  <2>. QED BY <2>2, <2>3, <2>4
<1>. QED BY <1>2, <1>5, <1>7, <1>8 DEF Linked

\* Adding a node to the ring of a list head leaves every linked node on the
\* ring of a list head.
LEMMA ListAddAnchored ==
    ASSUME NEW N, NEW l \in Lists(N), NEW n \in N, NEW h \in N, n # h,
           NEW H \in SUBSET N, h \in H, n \notin H,
           RingOK(l, N), ~Linked(l, n), Anchored(l, N, H)
    PROVE  Anchored(ListAdd(l, n, h), N, H)
<1> DEFINE k == ListAdd(l, n, h)
<1>1. l.next \in [N -> N] /\ l.prev \in [N -> N]
  BY DEF Lists
<1>2. l.next[n] = n /\ l.prev[n] = n /\ l.next[h] \in N /\ l.next[h] # n
  BY <1>1 DEF RingOK, Linked
<1>3. \A m \in N : k.next[m] = IF m = h THEN n
                                ELSE IF m = n THEN l.next[h] ELSE l.next[m]
  BY <1>1 DEF ListAdd
<1>4. SUFFICES ASSUME NEW S \in SUBSET N, S \cap H = {},
                      \A m \in S : k.next[m] \in S
               PROVE  \A m \in S : ~Linked(k, m)
  BY DEF Anchored
<1>5. \A m \in S \ {n} : l.next[m] \in S \ {n}
  BY <1>1, <1>2, <1>3, <1>4 DEF RingOK
<1>6. \A m \in S \ {n} : l.next[m] = m
  BY <1>4, <1>5, S \ {n} \in SUBSET N DEF Anchored, Linked
<1>7. n \notin S
  <2>1. SUFFICES ASSUME n \in S PROVE FALSE
    OBVIOUS
  <2>2. l.next[h] \in S \ {n}
    BY <1>2, <1>3, <1>4, <2>1
  <2>3. l.next[l.next[h]] = l.next[h]
    BY <1>6, <2>2
  <2>4. l.next[h] = h
    BY <1>2, <2>3 DEF RingOK
  <2>. QED BY <1>4, <2>2, <2>4
<1>. QED BY <1>3, <1>4, <1>6, <1>7 DEF Linked

\* Removing a node that is no list head leaves every linked node on the ring
\* of a list head, and the other nodes as linked as they were.
LEMMA ListRemoveAnchored ==
    ASSUME NEW N, NEW l \in Lists(N), NEW n \in N,
           NEW H \in SUBSET N, n \notin H,
           RingOK(l, N), Anchored(l, N, H)
    PROVE  /\ Anchored(ListRemove(l, n), N, H)
           /\ \A m \in N \ (H \cup {n}) : Linked(ListRemove(l, n), m) <=> Linked(l, m)
<1> DEFINE k == ListRemove(l, n)
<1>1. l.next \in [N -> N] /\ l.prev \in [N -> N]
  BY DEF Lists
<1>2. /\ l.prev[n] \in N /\ l.next[n] \in N
      /\ l.next[l.prev[n]] = n /\ l.prev[l.next[n]] = n
  BY <1>1 DEF RingOK
<1>3. \A m \in N : k.next[m] = IF m = n THEN n
                     ELSE IF m = l.prev[n] THEN l.next[n] ELSE l.next[m]
  BY <1>1 DEF ListRemove
<1>4. ASSUME NEW m \in N \ (H \cup {n}) PROVE Linked(k, m) <=> Linked(l, m)
  <2>1. CASE m # l.prev[n]
    BY <1>3, <2>1 DEF Linked
  <2>2. CASE m = l.prev[n] /\ l.next[n] # m
    BY <1>2, <1>3, <2>2 DEF Linked
  <2>3. CASE m = l.prev[n] /\ l.next[n] = m
    <3>1. \A x \in {m, n} : l.next[x] \in {m, n}
      BY <1>2, <2>3
    <3>2. ~Linked(l, m)
      BY <3>1, {m, n} \in SUBSET N, {m, n} \cap H = {} DEF Anchored
    <3>. QED BY <1>2, <2>3, <3>2, <1>4 DEF Linked
  <2>. QED BY <2>1, <2>2, <2>3
<1>5. ASSUME NEW S \in SUBSET N, S \cap H = {}, \A m \in S : k.next[m] \in S
      PROVE  \A m \in S : ~Linked(k, m)
  <2>1. CASE l.prev[n] \in S
    <3>1. \A m \in S \cup {n} : l.next[m] \in S \cup {n}
      BY <1>2, <1>3, <1>5, <2>1
    <3>2. \A m \in S \cup {n} : l.next[m] = m
      BY <3>1, <1>5, S \cup {n} \in SUBSET N, (S \cup {n}) \cap H = {}
      DEF Anchored, Linked
    <3>. QED BY <1>2, <1>3, <1>5, <2>1, <3>2 DEF Linked
  <2>2. CASE l.prev[n] \notin S
    <3>1. \A m \in S \ {n} : l.next[m] \in S \ {n}
      <4>1. SUFFICES ASSUME NEW m \in S \ {n} PROVE l.next[m] \in S \ {n}
        OBVIOUS
      <4>2. l.next[m] \in S
        BY <1>3, <1>5, <2>2
      <4>3. l.next[m] # n
        BY <2>2, <1>5 DEF RingOK
      <4>. QED BY <4>2, <4>3
    <3>2. \A m \in S \ {n} : l.next[m] = m
      BY <3>1, <1>5, S \ {n} \in SUBSET N DEF Anchored, Linked
    <3>. QED BY <1>3, <1>5, <2>2, <3>2 DEF Linked
  <2>. QED BY <2>1, <2>2
<1>. QED BY <1>4, <1>5 DEF Anchored

\* If every linked node is on the ring of h and h points at itself, nothing
\* is linked: list_empty(h) means that there is no node to find anywhere.
LEMMA EmptyRing ==
    ASSUME NEW N, NEW l \in Lists(N), NEW h \in N,
           RingOK(l, N), Anchored(l, N, {h}), ListEmpty(l, h)
    PROVE  \A n \in N : ~Linked(l, n)
<1>1. l.next \in [N -> N] /\ l.prev \in [N -> N]
  BY DEF Lists
<1>2. \A n \in N \ {h} : l.next[n] \in N \ {h}
  BY <1>1 DEF RingOK, ListEmpty
<1>3. \A n \in N \ {h} : ~Linked(l, n)
  BY <1>2, N \ {h} \in SUBSET N, (N \ {h}) \cap {h} = {} DEF Anchored
<1>. QED BY <1>3 DEF Linked, ListEmpty

\* The first node of a list that is not empty is linked.
LEMMA FirstLinked ==
    ASSUME NEW N, NEW l \in Lists(N), NEW h \in N, RingOK(l, N),
           ~ListEmpty(l, h)
    PROVE  l.next[h] \in N \ {h} /\ Linked(l, l.next[h])
BY DEF Lists, RingOK, ListEmpty, Linked

\* A label that is the same all along each ring stays so when a node joins a
\* ring of its own label.
LEMMA ListAddLabel ==
    ASSUME NEW N, NEW l \in Lists(N), NEW n \in N, NEW h \in N, n # h,
           RingOK(l, N), ~Linked(l, n),
           NEW f, \A m \in N : f[l.next[m]] = f[m], f[n] = f[h]
    PROVE  \A m \in N : f[ListAdd(l, n, h).next[m]] = f[m]
<1>1. l.next \in [N -> N]
  BY DEF Lists
<1>2. \A m \in N : ListAdd(l, n, h).next[m] =
          IF m = h THEN n ELSE IF m = n THEN l.next[h] ELSE l.next[m]
  BY <1>1 DEF ListAdd
<1>. QED BY <1>1, <1>2

\* ... and when a node leaves its ring.
LEMMA ListRemoveLabel ==
    ASSUME NEW N, NEW l \in Lists(N), NEW n \in N, RingOK(l, N),
           NEW f, \A m \in N : f[l.next[m]] = f[m]
    PROVE  \A m \in N : f[ListRemove(l, n).next[m]] = f[m]
<1>1. l.next \in [N -> N] /\ l.prev \in [N -> N]
  BY DEF Lists
<1>2. \A m \in N : ListRemove(l, n).next[m] =
          IF m = n THEN n ELSE IF m = l.prev[n] THEN l.next[n] ELSE l.next[m]
  BY <1>1 DEF ListRemove
<1>3. l.prev[n] \in N /\ l.next[l.prev[n]] = n
  BY <1>1 DEF RingOK
<1>. QED BY <1>1, <1>2, <1>3

\* Following next from the list head of an anchored list visits the head and
\* every linked node: next is one-to-one, so on a finite set that it does
\* not leave it is onto, and the nodes outside form rings without a head.
LEMMA ReachIsLinked ==
    ASSUME NEW N, IsFiniteSet(N), NEW l \in Lists(N), NEW h \in N,
           RingOK(l, N), Anchored(l, N, {h})
    PROVE  ListReach(l, N, h) = {n \in N : Linked(l, n)} \cup {h}
<1> DEFINE R == {n \in N : Linked(l, n)} \cup {h}
<1>1. /\ l.next \in [N -> N] /\ l.prev \in [N -> N]
      /\ \A m, n \in N : l.next[m] = l.next[n] => m = n
  BY DEF Lists, RingOK
<1>2. /\ R \in SUBSET N /\ l.next[h] \in R
      /\ \A m \in R : l.next[m] \in R
  BY <1>1 DEF Linked
<1>3. ASSUME NEW S \in SUBSET N, l.next[h] \in S, \A m \in S : l.next[m] \in S
      PROVE  R \subseteq S
  <2>1. h \in S
    <3>1. SUFFICES ASSUME h \notin S PROVE FALSE
      OBVIOUS
    <3>2. ~Linked(l, l.next[h])
      BY <1>3, <3>1 DEF Anchored
    <3>. QED BY <1>1, <1>3, <3>1, <3>2 DEF Linked
  <2>2. \A m \in N \ S : l.next[m] \in N \ S
    <3> DEFINE f == [m \in S |-> l.next[m]]
    <3>1. f \in Injection(S, S)
      BY <1>1, <1>3 DEF Injection, IsInjective
    <3>2. IsFiniteSet(S)
      BY FS_Subset
    <3>3. f \in Surjection(S, S)
      <4> HIDE DEF f
      <4>. QED BY <3>1, <3>2, FS_Injection
    <3>4. \A t \in S : \E s \in S : l.next[s] = t
      BY <3>3 DEF Surjection
    <3>. QED BY <1>1, <3>4
  <2>3. \A n \in N \ S : ~Linked(l, n)
    BY <2>1, <2>2, N \ S \in SUBSET N, (N \ S) \cap {h} = {} DEF Anchored
  <2>. QED BY <2>1, <2>3
<1>. QED BY <1>2, <1>3 DEF ListReach
=============================================================================
