--------------------------------- MODULE Trie ---------------------------------
(***************************************************************************)
(* The trie of the device paths (trie.c), which sys_open asks first.  A    *)
(* level is a list sorted by character; a node is an index, 0 is NULL.     *)
(* Characters are numbers, and no key is empty.  A step is one turn of a   *)
(* loop.  (A node that cannot be allocated leaves the trie as it was, with *)
(* the chain so far leaked.)                                               *)
(***************************************************************************)
EXTENDS Naturals, Sequences, SequencesExt

CONSTANTS
    TrieKeys,   \* the keys that are added and asked for
    MaxAdds     \* bound: additions

ASSUME TrieAssumption == \A k \in TrieKeys : k \in Seq(Nat) /\ k # <<>>

VARIABLES
    trie,     \* device_trie: its nodes, head and keys
    walk,     \* the call that runs, and the answer of trie_get
    stored    \* history: the keys added; the value of the i-th one is i

trieVars == <<trie, walk, stored>>

(* at is the position of c in key; level is the head of c's level, which   *)
(* trie_get calls prevnode.                                                *)
NoWalk == [op |-> "none", key |-> <<>>, at |-> 1, level |-> 0, parent |-> 0, prev |-> 0, cur |-> 0,
           value |-> 0]

(* trie_add_down: the chain of nodes of the rest of a key. *)
AddDown(ns, rest, value) ==
    ns \o [j \in 1..Len(rest) |->
              [c |-> rest[j], next |-> 0,
               down  |-> IF j < Len(rest) THEN Len(ns) + j + 1 ELSE 0,
               value |-> IF j = Len(rest) THEN value ELSE 0]]

(* The new chain is put between w.prev and w.cur. *)
InsertChain(t, w, value) ==
    LET new    == Len(t.nodes) + 1
        linked == [AddDown(t.nodes, SubSeq(w.key, w.at, Len(w.key)), value) EXCEPT ![new].next = w.cur]
    IN  [nodes |-> CASE w.prev # 0 -> [linked EXCEPT ![w.prev].next = new]
                     [] w.prev = 0 /\ w.parent # 0 -> [linked EXCEPT ![w.parent].down = new]
                     [] OTHER -> linked,
         head  |-> IF w.prev = 0 /\ w.parent = 0 THEN new ELSE t.head,
         keys  |-> t.keys + 1]
-----------------------------------------------------------------------------
TrieInit == trie = [nodes |-> <<>>, head |-> 0, keys |-> 0] /\ walk = NoWalk /\ stored = <<>>

NoCallRuns == walk.op \in {"none", "got"}
Char == walk.key[walk.at]
Before == walk.cur # 0 /\ trie.nodes[walk.cur].c < Char
Match  == walk.cur # 0 /\ trie.nodes[walk.cur].c = Char

(* trie_add, up to its loop.  (What it does with the first key is what the *)
(* loop would do in a trie without nodes.)                                 *)
TrieAdd(key) ==
    /\ NoCallRuns /\ Len(stored) < MaxAdds
    /\ walk' = [NoWalk EXCEPT !.op = "add", !.key = key, !.level = trie.head, !.cur = trie.head]
    /\ UNCHANGED <<trie, stored>>

(* trie_get, up to its loop. *)
TrieGet(key) ==
    /\ NoCallRuns
    /\ walk' = [NoWalk EXCEPT !.op = IF trie.keys = 0 THEN "got" ELSE "get", !.key = key,
                              !.level = trie.head, !.cur = trie.head]
    /\ UNCHANGED <<trie, stored>>

(* The search of a level, in trie_add and in trie_get_down. *)
SearchLevel ==
    /\ ~NoCallRuns /\ Before
    /\ walk' = [walk EXCEPT !.prev = walk.cur, !.cur = trie.nodes[walk.cur].next]
    /\ UNCHANGED <<trie, stored>>

(* The rest of a turn of trie_add. *)
AddDescend ==
    /\ walk.op = "add" /\ ~Before /\ Match /\ walk.at < Len(walk.key)
    /\ LET down == trie.nodes[walk.cur].down IN
       walk' = [walk EXCEPT !.at = @ + 1, !.level = down, !.parent = walk.cur, !.prev = 0, !.cur = down]
    /\ UNCHANGED <<trie, stored>>

AddFinish ==
    LET value == Len(stored) + 1 IN
    /\ walk.op = "add" /\ ~Before
    /\ \/ /\ Match /\ walk.at = Len(walk.key)
          /\ trie' = [trie EXCEPT !.nodes[walk.cur].value = value]
       \/ ~Match /\ trie' = InsertChain(trie, walk, value)
    /\ walk' = NoWalk /\ stored' = Append(stored, walk.key)

\* Mutant: prevnode stays at the head of the trie.
GetDownFromHead ==
    LET down == IF Match THEN trie.nodes[walk.cur].down ELSE 0 IN
    /\ walk.op = "get" /\ ~Before
    /\ \/ /\ walk.at < Len(walk.key) /\ down # 0
          /\ walk' = [walk EXCEPT !.at = @ + 1, !.prev = 0, !.cur = down]
       \/ /\ walk.at = Len(walk.key) \/ down = 0
          /\ walk' = [NoWalk EXCEPT !.op = "got", !.key = walk.key,
                         !.value = IF walk.at = Len(walk.key) /\ down = 0 THEN trie.nodes[walk.level].value ELSE 0]
    /\ UNCHANGED <<trie, stored>>

(* The rest of a turn of trie_get: trie_get_down returns.  When the key    *)
(* ends, the answer is the value of the head of the last level.            *)
GetDown ==
    LET down == IF Match THEN trie.nodes[walk.cur].down ELSE 0 IN
    /\ walk.op = "get" /\ ~Before
    /\ \/ /\ walk.at < Len(walk.key) /\ down # 0
          /\ walk' = [walk EXCEPT !.at = @ + 1, !.level = down, !.prev = 0, !.cur = down]
       \/ /\ walk.at = Len(walk.key) \/ down = 0
          /\ walk' = [NoWalk EXCEPT !.op = "got", !.key = walk.key,
                         !.value = IF walk.at = Len(walk.key) /\ down = 0 THEN trie.nodes[walk.level].value ELSE 0]
    /\ UNCHANGED <<trie, stored>>

TrieNext ==
    \/ \E key \in TrieKeys : TrieAdd(key) \/ TrieGet(key)
    \/ SearchLevel \/ AddDescend \/ AddFinish \/ GetDown

TrieSpec == TrieInit /\ [][TrieNext]_trieVars
-----------------------------------------------------------------------------
(* The value of the last addition of a key, or 0. *)
ValueOf(key) ==
    LET adds == {i \in 1..Len(stored) : stored[i] = key}
    IN  IF adds = {} THEN 0 ELSE CHOOSE i \in adds : \A j \in adds : j <= i

(* A key is found, with the value added last, if no other key has the same *)
(* characters up to its last one; the device paths are such keys.  Any     *)
(* answer is the value of a key that differs from the asked one in its     *)
(* last character at most: a path that is not a device can open one of     *)
(* that spelling, and no other.                                            *)
DevicesResolve ==
    LET keys  == ToSet(stored)
        alone == \A other \in keys : other # walk.key => ~IsPrefix(Front(walk.key), other)
    IN  walk.op = "got" =>
            /\ walk.key \in keys /\ alone => walk.value = ValueOf(walk.key)
            /\ walk.value # 0 => /\ walk.value <= Len(stored)
                                /\ Front(stored[walk.value]) = Front(walk.key)
=============================================================================
