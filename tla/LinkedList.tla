----------------------------- MODULE LinkedList -----------------------------
(***************************************************************************)
(* The kernel's intrusive doubly linked lists (utils/datastructures.h).    *)
(* A list is a record of two functions, next and prev, over a set of nodes *)
(* (the list head is a node like the others).  The operators are the       *)
(* pointer assignments of the C functions, in their order, so a misuse     *)
(* (adding a node that is already linked) corrupts the model's list the    *)
(* way it corrupts the kernel's.                                           *)
(***************************************************************************)

\* INIT_LIST_HEAD on every node: each points at itself.
InitLists(N) == [next |-> [n \in N |-> n], prev |-> [n \in N |-> n]]

\* Mutant: list_add without head->next = newnode.
ListAddBackwardOnly(l, n, h) ==
    [next |-> [l.next EXCEPT ![n] = l.next[h]],
     prev |-> [l.prev EXCEPT ![n] = h, ![l.next[h]] = n]]

\* list_add: insert n right after h.  The two updates of prev are applied in
\* the order of the code: when n already is the first node, the second one
\* overwrites the first and n is left pointing at itself.
ListAdd(l, n, h) ==
    [next |-> [l.next EXCEPT ![n] = l.next[h], ![h] = n],
     prev |-> [l.prev EXCEPT ![n] = h, ![l.next[h]] = n]]

\* list_remove: bypass n, then make it point at itself.
ListRemove(l, n) ==
    [next |-> [l.next EXCEPT ![l.prev[n]] = l.next[n], ![n] = n],
     prev |-> [l.prev EXCEPT ![l.next[n]] = l.prev[n], ![n] = n]]

ListEmpty(l, h) == l.next[h] = h

Lists(N) == [next : [N -> N], prev : [N -> N]]

\* n is on some list: it does not point at itself.
Linked(l, n) == l.next[n] # n

\* next and prev are inverse of each other: every node is on exactly one
\* ring.
RingOK(l, N) == \A n \in N : l.prev[l.next[n]] = n /\ l.next[l.prev[n]] = n

\* Every linked node is on the ring of a list head: a set of nodes that holds
\* no list head and that following next does not leave has no linked node.
Anchored(l, N, H) ==
    \A S \in SUBSET N :
        S \cap H = {} /\ (\A n \in S : l.next[n] \in S)
            => \A n \in S : ~Linked(l, n)

\* The nodes that following next from the list head h visits: the least set
\* that holds the first node and that following next does not leave.
ListReach(l, N, h) ==
    {n \in N : \A S \in SUBSET N :
        l.next[h] \in S /\ (\A m \in S : l.next[m] \in S) => n \in S}
=============================================================================
