------------------------ MODULE AddressSpace_proofs ------------------------
(***************************************************************************)
(* Reference counts, page tables and copy-on-write are exact, and every    *)
(* process has a memory of its own, for every number of processes, pages   *)
(* and frames and for all programs.                                        *)
(***************************************************************************)
EXTENDS AddressSpace, FiniteSetTheorems, TLAPS

\* A process that does not exist has no memory and no access under way.
IdleHoldNothing ==
    \A p \in Procs : state[p] # "live" =>
        /\ table[p] = NoFrame
        /\ fault[p] = NoFault
        /\ \A v \in Pages : pt[p][v].frame = NoFrame

\* Only a page that is in memory is marked copy-on-write.
CowIsMapped == \A p \in Procs, v \in Pages : pt[p][v].cow => pt[p][v].frame \in Frames

\* A process repeats an access only after a program was loaded into it.
FaultHasImage == \A p \in Procs : fault[p] # NoFault => Image(p) # {}

AInv ==
    /\ SharingExact
    /\ IdleHoldNothing
    /\ CowIsMapped
    /\ FaultHasImage
-----------------------------------------------------------------------------
(***************************************************************************)
(* The users of a frame, for any page tables t.                            *)
(***************************************************************************)
Tables == [Procs -> [Pages -> Entries]]

UsersIn(t, f) == {u \in Procs \X Pages : t[u[1]][u[2]].frame = f}

\* The entries of p that hold f, and their number.
UsesIn(t, p, f) == {v \in Pages : t[p][v].frame = f}
Uses(t, p, f) == Cardinality(UsesIn(t, p, f))

\* SharedIsCow, entry by entry.
CowIn(t) ==
    \A p, q \in Procs, v, w \in Pages :
        /\ t[p][v].frame \in Frames
        /\ t[q][w].frame = t[p][v].frame
        /\ p # q \/ v # w
        => t[p][v].ap = "RO" /\ t[p][v].cow

LEMMA Pairs ==
    /\ IsFiniteSet(Procs \X Pages)
    /\ \A u \in Procs \X Pages : u[1] \in Procs /\ u[2] \in Pages /\ u = <<u[1], u[2]>>
    /\ \A p \in Procs, v \in Pages : <<p, v>> \in Procs \X Pages
<1>1. IsFiniteSet(Procs \X Pages)
  BY AddressSpaceConstants, FS_Product
<1>. QED BY <1>1

LEMMA InUsers ==
    ASSUME NEW t, NEW f
    PROVE  /\ \A p \in Procs, v \in Pages : <<p, v>> \in UsersIn(t, f) <=> t[p][v].frame = f
           /\ \A u \in UsersIn(t, f) : /\ u[1] \in Procs /\ u[2] \in Pages /\ u = <<u[1], u[2]>>
                                       /\ t[u[1]][u[2]].frame = f
           /\ UsersIn(t, f) = {} <=> \A p \in Procs, v \in Pages : t[p][v].frame # f
<1>1. \A p \in Procs, v \in Pages : <<p, v>> \in UsersIn(t, f) <=> t[p][v].frame = f
  BY DEF UsersIn
<1>2. \A u \in UsersIn(t, f) : /\ u[1] \in Procs /\ u[2] \in Pages /\ u = <<u[1], u[2]>>
                               /\ t[u[1]][u[2]].frame = f
  BY Pairs DEF UsersIn
<1>3. (\A p \in Procs, v \in Pages : t[p][v].frame # f) => UsersIn(t, f) = {}
  BY <1>2
<1>4. UsersIn(t, f) = {} => \A p \in Procs, v \in Pages : t[p][v].frame # f
  BY <1>1
<1>. QED BY <1>1, <1>2, <1>3, <1>4

LEMMA UsersFinite ==
    ASSUME NEW t, NEW f
    PROVE  IsFiniteSet(UsersIn(t, f)) /\ Cardinality(UsersIn(t, f)) \in Nat
<1>1. UsersIn(t, f) \in SUBSET (Procs \X Pages)
  BY DEF UsersIn
<1>2. IsFiniteSet(UsersIn(t, f))
  BY <1>1, Pairs, FS_Subset
<1>. QED BY <1>2, FS_CardinalityType

\* SharedIsCow, for any page tables.
SharedIn(t) ==
    \A f \in Frames : \A u, w \in UsersIn(t, f) :
        u # w => t[u[1]][u[2]].ap = "RO" /\ t[u[1]][u[2]].cow

LEMMA CowEntries ==
    ASSUME NEW t
    PROVE  SharedIn(t) <=> CowIn(t)
<1>1. ASSUME SharedIn(t), NEW p \in Procs, NEW q \in Procs, NEW v \in Pages, NEW w \in Pages,
             t[p][v].frame \in Frames, t[q][w].frame = t[p][v].frame, p # q \/ v # w
      PROVE  t[p][v].ap = "RO" /\ t[p][v].cow
  <2> DEFINE u == <<p, v>> x == <<q, w>>
  <2>1. u # x /\ u \in UsersIn(t, t[p][v].frame) /\ x \in UsersIn(t, t[p][v].frame)
    BY <1>1, InUsers
  <2>2. t[u[1]][u[2]].ap = "RO" /\ t[u[1]][u[2]].cow
    BY <2>1, <1>1 DEF SharedIn
  <2>. QED BY <2>2
<1>2. ASSUME CowIn(t), NEW f \in Frames, NEW u \in UsersIn(t, f), NEW w \in UsersIn(t, f), u # w
      PROVE  t[u[1]][u[2]].ap = "RO" /\ t[u[1]][u[2]].cow
  <2>1. /\ u[1] \in Procs /\ u[2] \in Pages /\ w[1] \in Procs /\ w[2] \in Pages
        /\ u = <<u[1], u[2]>> /\ w = <<w[1], w[2]>>
        /\ t[u[1]][u[2]].frame = f /\ t[w[1]][w[2]].frame = f
    BY InUsers
  <2>2. u[1] # w[1] \/ u[2] # w[2]
    BY <2>1, <1>2
  <2>. QED BY <2>1, <2>2, <1>2 DEF CowIn
<1>3. SharedIn(t) => CowIn(t)
  BY <1>1 DEF CowIn
<1>4. CowIn(t) => SharedIn(t)
  BY <1>2 DEF SharedIn
<1>. QED BY <1>3, <1>4

\* Uses counts the users of a frame that belong to one process.
LEMMA UsesCounts ==
    ASSUME NEW t, NEW p \in Procs, NEW f
    PROVE  /\ Uses(t, p, f) \in Nat
           /\ IsFiniteSet({p} \X UsesIn(t, p, f))
           /\ Cardinality({p} \X UsesIn(t, p, f)) = Uses(t, p, f)
           /\ Uses(t, p, f) = 0 <=> \A v \in Pages : t[p][v].frame # f
<1> DEFINE V == UsesIn(t, p, f)
<1>1. IsFiniteSet(V) /\ Cardinality(V) \in Nat /\ (Cardinality(V) = 0 <=> V = {})
  <2>1. V \in SUBSET Pages
    BY DEF UsesIn
  <2>2. IsFiniteSet(V)
    BY <2>1, AddressSpaceConstants, FS_Subset
  <2>. QED BY <2>2, FS_CardinalityType, FS_EmptySet
<1>2. IsFiniteSet({p}) /\ Cardinality({p}) = 1
  BY FS_Singleton
<1>3. IsFiniteSet({p} \X V) /\ Cardinality({p} \X V) = Cardinality({p}) * Cardinality(V)
  <2> HIDE DEF V
  <2>. QED BY <1>1, <1>2, FS_Product
<1>4. 1 * Cardinality(V) = Cardinality(V)
  BY <1>1
<1>5. V = {} <=> \A v \in Pages : t[p][v].frame # f
  BY DEF UsesIn
<1>. QED BY <1>1, <1>2, <1>3, <1>4, <1>5 DEF Uses

\* The users of a frame without those of one process.
LEMMA OtherUsers ==
    ASSUME NEW t, NEW p \in Procs, NEW f
    PROVE  /\ Uses(t, p, f) <= Cardinality(UsersIn(t, f))
           /\ Cardinality(UsersIn(t, f) \ ({p} \X Pages)) = Cardinality(UsersIn(t, f)) - Uses(t, p, f)
           /\ Uses(t, p, f) = Cardinality(UsersIn(t, f)) => UsersIn(t, f) \ ({p} \X Pages) = {}
<1> DEFINE U == UsersIn(t, f)
           W == U \ ({p} \X Pages)
<1>1. IsFiniteSet(U) /\ Cardinality(U) \in Nat
  BY UsersFinite
<1>2. U \cap ({p} \X Pages) = {p} \X UsesIn(t, p, f)
  BY DEF UsesIn, UsersIn
<1>3. /\ Cardinality(U \cap ({p} \X Pages)) = Uses(t, p, f)
      /\ Uses(t, p, f) \in Nat
  BY <1>2, UsesCounts
<1>4. IsFiniteSet(W) /\ Cardinality(W) = Cardinality(U) - Cardinality(U \cap ({p} \X Pages))
  <2> HIDE DEF U
  <2>. QED BY <1>1, FS_Difference
<1>5. Cardinality(W) \in Nat /\ (Cardinality(W) = 0 <=> W = {})
  BY <1>4, FS_CardinalityType, FS_EmptySet
<1> HIDE DEF U, W
<1>6. Uses(t, p, f) <= Cardinality(U) /\ (Uses(t, p, f) = Cardinality(U) => W = {})
  BY <1>1, <1>3, <1>4, <1>5
<1>. QED BY <1>3, <1>4, <1>6 DEF U, W
-----------------------------------------------------------------------------
(***************************************************************************)
(* The invariant, by the parts of the state that an action changes.        *)
(***************************************************************************)
Counted(t, al, ref) ==
    \A f \in Frames :
        UsersIn(t, f) # {} => f \in al /\ ref[f] = Cardinality(UsersIn(t, f))

\* TablesPrivate, with tab for the frames of the page tables and st for the
\* states of the processes.
Private(t, al, ref, tab, st) ==
    \A p \in Procs : st[p] = "live" =>
        /\ tab[p] \in al
        /\ ref[tab[p]] = 1
        /\ \A q \in Procs, v \in Pages : t[q][v].frame # tab[p]
        /\ \A q \in Procs \ {p} : tab[q] # tab[p]

LEMMA Parts ==
    /\ RefcountExact <=> Counted(pt, allocated, refcount)
    /\ TablesPrivate <=> Private(pt, allocated, refcount, table, state)
    /\ SharedIsCow <=> CowIn(pt)
<1>1. RefcountExact <=> Counted(pt, allocated, refcount)
  BY DEF RefcountExact, Counted, Users, UsersIn
<1>2. \A p \in Procs : Users(table[p]) = {} <=> \A q \in Procs, v \in Pages : pt[q][v].frame # table[p]
  BY InUsers DEF Users, UsersIn
<1>3. TablesPrivate <=> Private(pt, allocated, refcount, table, state)
  BY <1>2 DEF TablesPrivate, Private
<1>4. SharedIsCow <=> SharedIn(pt)
  BY DEF SharedIsCow, SharedIn, Users, UsersIn
<1>. QED BY <1>1, <1>3, <1>4, CowEntries

LEMMA PartsPrime ==
    /\ RefcountExact' <=> Counted(pt', allocated', refcount')
    /\ TablesPrivate' <=> Private(pt', allocated', refcount', table', state')
    /\ SharedIsCow' <=> CowIn(pt')
<1>1. RefcountExact' <=> Counted(pt', allocated', refcount')
  BY DEF RefcountExact, Counted, Users, UsersIn
<1>2. \A p \in Procs : Users(table[p])' = {} <=> \A q \in Procs, v \in Pages : pt'[q][v].frame # table'[p]
  BY InUsers DEF Users, UsersIn
<1>3. TablesPrivate' <=> Private(pt', allocated', refcount', table', state')
  BY <1>2 DEF TablesPrivate, Private
<1>4. SharedIsCow' <=> SharedIn(pt')
  BY DEF SharedIsCow, SharedIn, Users, UsersIn
<1>. QED BY <1>1, <1>3, <1>4, CowEntries

\* A frame that buddy_alloc returns is in no table and is no table.
LEMMA FreshFrame ==
    ASSUME AInv, NEW new \in Frames \ allocated
    PROVE  /\ \A p \in Procs, v \in Pages : pt[p][v].frame # new
           /\ \A p \in Procs : table[p] # new
           /\ new \in Frames /\ new # NoFrame /\ new # NullFrame
<1>1. UsersIn(pt, new) = {}
  BY Parts DEF AInv, SharingExact, Counted
<1>2. \A p \in Procs, v \in Pages : pt[p][v].frame # new
  BY <1>1, InUsers
<1>3. \A p \in Procs : state[p] = "live" => table[p] # new
  BY DEF AInv, SharingExact, TablesPrivate
<1>4. \A p \in Procs : state[p] # "live" => table[p] # new
  BY AddressSpaceConstants DEF AInv, IdleHoldNothing
<1>. QED BY <1>2, <1>3, <1>4, AddressSpaceConstants

LEMMA BuddyAllocResult ==
    ASSUME NEW new \in BuddyAlloc, new # NullFrame
    PROVE  new \in Frames \ allocated
BY DEF BuddyAlloc
-----------------------------------------------------------------------------
(***************************************************************************)
(* The actions, one by one.                                                *)
(***************************************************************************)
LEMMA InitAInv == Init => AInv
<1> SUFFICES ASSUME Init PROVE AInv
  OBVIOUS
<1>1. PICK f \in Frames :
        /\ table = [p \in Procs |-> IF p = Shell THEN f ELSE NoFrame]
        /\ allocated = {f}
        /\ refcount = [g \in Frames |-> IF g = f THEN 1 ELSE 0]
  BY DEF Init
<1>2. \A p \in Procs, v \in Pages : pt[p][v] = Invalid
  BY DEF Init
<1>3. Invalid \in Entries /\ Invalid.frame = NoFrame /\ Invalid.cow = FALSE
  BY DEF Invalid, Entries, Ap
<1>4. TypeOK
  <2>1. pt \in [Procs -> [Pages -> Entries]]
    BY <1>3 DEF Init
  <2>2. vma \in [Procs -> [Pages -> (SUBSET Permissions) \cup {NoVma}]]
    BY DEF Init, Permissions
  <2>. QED BY <1>1, <2>1, <2>2, AddressSpaceConstants DEF Init, TypeOK
<1>5. \A g \in Frames : UsersIn(pt, g) = {}
  BY <1>2, <1>3, InUsers, AddressSpaceConstants
<1>6. RefcountExact
  BY <1>5, Parts DEF Counted
<1>7. TablesPrivate
  <2>1. Private(pt, allocated, refcount, table, state)
    BY <1>1, <1>2, <1>3, AddressSpaceConstants DEF Private, Init
  <2>. QED BY <2>1, Parts
<1>8. SharedIsCow
  <2>1. CowIn(pt)
    BY <1>2, <1>3, AddressSpaceConstants DEF CowIn
  <2>. QED BY <2>1, Parts
<1>9. IdleHoldNothing /\ CowIsMapped /\ FaultHasImage
  BY <1>1, <1>2, <1>3 DEF Init, IdleHoldNothing, CowIsMapped, FaultHasImage
<1>. QED BY <1>4, <1>6, <1>7, <1>8, <1>9 DEF AInv, SharingExact

\* An action that leaves the page tables and the counts alone.
LEMMA TablesAlone ==
    ASSUME AInv, TypeOK', UNCHANGED <<state, table, pt, allocated, refcount>>,
           \A p \in Procs : fault'[p] \in {NoFault, fault[p]}
    PROVE  AInv'
<1>1. RefcountExact' /\ TablesPrivate' /\ SharedIsCow'
  BY Parts, PartsPrime DEF AInv, SharingExact
<1>2. \A p \in Procs : Image(p)' = Image(p)
  BY DEF Image, Valid
<1>3. IdleHoldNothing' /\ CowIsMapped'
  BY DEF AInv, IdleHoldNothing, CowIsMapped
<1>4. FaultHasImage'
  BY <1>2 DEF AInv, FaultHasImage
<1>. QED BY <1>1, <1>3, <1>4 DEF AInv, SharingExact

LEMMA HangKeeps ==
    ASSUME AInv, Hang
    PROVE  AInv'
<1>1. TypeOK'
  BY DEF AInv, SharingExact, TypeOK, Hang
<1>. QED BY <1>1, TablesAlone DEF Hang

LEMMA AccessKeeps ==
    ASSUME AInv, NEW p \in Procs, NEW v \in Pages, NEW k \in Kinds, NEW x \in Values,
           Access(p, v, k, x) \/ CopyToUser(p, v, x)
    PROVE  AInv'
<1>1. CASE Hang
  BY <1>1, HangKeeps
<1>2. CASE ~Hang
  <2>1. /\ data' \in [Frames -> Values]
        /\ UNCHANGED <<state, table, pt, vma, allocated, refcount, halted>>
        /\ fault' = fault \/ fault' = [fault EXCEPT ![p] = NoFault]
    BY <1>2 DEF Access, CopyToUser, AInv, SharingExact, TypeOK
  <2>2. /\ \A q \in Procs : fault'[q] \in {NoFault, fault[q]}
        /\ fault' \in [Procs -> {NoFault} \cup (Pages \X Kinds)]
    BY <2>1 DEF AInv, SharingExact, TypeOK
  <2>3. TypeOK'
    BY <2>1, <2>2 DEF AInv, SharingExact, TypeOK
  <2>. QED BY <2>1, <2>2, <2>3, TablesAlone
<1>. QED BY <1>1, <1>2

LEMMA MmapKeeps ==
    ASSUME AInv, NEW p \in Procs, NEW v \in Pages, NEW prot \in Prots, Mmap(p, v, prot)
    PROVE  AInv'
<1>1. prot \in (SUBSET Permissions) \cup {NoVma}
  BY AddressSpaceConstants
<1>2. vma' \in [Procs -> [Pages -> (SUBSET Permissions) \cup {NoVma}]]
  BY <1>1 DEF Mmap, AInv, SharingExact, TypeOK
<1>3. TypeOK'
  BY <1>2 DEF Mmap, AInv, SharingExact, TypeOK
<1>. QED BY <1>3, TablesAlone DEF Mmap

LEMMA GenuineFaultKeeps ==
    ASSUME AInv, NEW p \in Procs, NEW v \in Pages, NEW k \in Kinds, GenuineFault(p, v, k)
    PROVE  AInv'
<1>1. TypeOK'
  BY DEF AInv, SharingExact, TypeOK, GenuineFault
<1>. QED BY <1>1, TablesAlone DEF GenuineFault

\* One entry of the page tables changes.
LEMMA SetEntry ==
    ASSUME NEW p \in Procs, NEW v \in Pages, NEW e, pt'[p][v] = e,
           \A q \in Procs, w \in Pages : q # p \/ w # v => pt'[q][w] = pt[q][w]
    PROVE  \A f : UsersIn(pt', f) = IF e.frame = f THEN UsersIn(pt, f) \cup {<<p, v>>}
                                   ELSE UsersIn(pt, f) \ {<<p, v>>}
<1>2. \A u \in Procs \X Pages : pt'[u[1]][u[2]] = IF u = <<p, v>> THEN e ELSE pt[u[1]][u[2]]
  <2> TAKE u \in Procs \X Pages
  <2>1. u[1] \in Procs /\ u[2] \in Pages /\ u = <<u[1], u[2]>>
    BY Pairs
  <2>2. u = <<p, v>> <=> u[1] = p /\ u[2] = v
    BY <2>1
  <2>. QED BY <2>1, <2>2
<1>3. <<p, v>> \in Procs \X Pages
  OBVIOUS
<1>4. ASSUME NEW f PROVE UsersIn(pt', f) = IF e.frame = f THEN UsersIn(pt, f) \cup {<<p, v>>}
                                           ELSE UsersIn(pt, f) \ {<<p, v>>}
  BY <1>2, <1>3 DEF UsersIn
<1>. QED BY <1>4

\* One entry of the page tables gets a frame that nobody has, and the frame
\* that it held before, if any, loses a user.
LEMMA FreshEntry ==
    ASSUME AInv, NEW p \in Procs, NEW v \in Pages, NEW e \in Entries, state[p] = "live",
           e.frame \in Frames \ allocated \/ e.frame = NullFrame, e.cow => e.frame \in Frames,
           pt'[p][v] = e,
           \A q \in Procs, w \in Pages : q # p \/ w # v => pt'[q][w] = pt[q][w],
           \A f \in Frames : refcount'[f] = IF f = e.frame THEN 1
                                            ELSE IF f = pt[p][v].frame THEN refcount[f] - 1
                                            ELSE refcount[f],
           allocated' \subseteq Frames, e.frame \in Frames => e.frame \in allocated',
           \A f \in allocated : refcount'[f] # 0 => f \in allocated',
           UNCHANGED <<state, table>>,
           \A q \in Procs \ {p} : fault'[q] = fault[q]
    PROVE  RefcountExact' /\ TablesPrivate' /\ SharedIsCow' /\ IdleHoldNothing' /\ CowIsMapped'
           /\ FaultHasImage'
<1> DEFINE old == pt[p][v].frame
           new == e.frame
<1>1. /\ pt \in Tables /\ TypeOK /\ Counted(pt, allocated, refcount) /\ CowIn(pt)
      /\ Private(pt, allocated, refcount, table, state)
  BY Parts DEF AInv, SharingExact, TypeOK, Tables
<1>2. \A f : UsersIn(pt', f) = IF new = f THEN UsersIn(pt, f) \cup {<<p, v>>}
                               ELSE UsersIn(pt, f) \ {<<p, v>>}
  BY SetEntry
<1>3. \A q \in Procs, w \in Pages : new \in Frames => pt[q][w].frame # new
  BY FreshFrame, AddressSpaceConstants
<1>4. \A q \in Procs : table[q] # new
  BY FreshFrame, AddressSpaceConstants DEF AInv, SharingExact, TypeOK
<1>5. \A f \in Frames : f # old => <<p, v>> \notin UsersIn(pt, f)
  BY InUsers
<1>6. <<p, v>> \in UsersIn(pt, old)
  BY InUsers
<1>7. Counted(pt', allocated', refcount')
  <2> SUFFICES ASSUME NEW f \in Frames, UsersIn(pt', f) # {}
               PROVE  f \in allocated' /\ refcount'[f] = Cardinality(UsersIn(pt', f))
    BY DEF Counted
  <2>1. CASE f = new
    <3>1. UsersIn(pt, f) = {}
      BY <1>3, <2>1, InUsers
    <3>2. UsersIn(pt', f) = {<<p, v>>}
      BY <3>1, <2>1, <1>2
    <3>3. Cardinality({<<p, v>>}) = 1
      BY FS_Singleton
    <3>. QED BY <2>1, <3>2, <3>3
  <2>2. CASE f # new /\ f = old
    <3>1. UsersIn(pt', f) = UsersIn(pt, f) \ {<<p, v>>} /\ refcount'[f] = refcount[f] - 1
      BY <2>2, <1>2
    <3>2. f \in allocated /\ refcount[f] = Cardinality(UsersIn(pt, f))
      BY <2>2, <1>1, <1>6 DEF Counted
    <3>3. /\ IsFiniteSet(UsersIn(pt', f))
          /\ Cardinality(UsersIn(pt', f)) = Cardinality(UsersIn(pt, f)) - 1
      <4>1. IsFiniteSet(UsersIn(pt, f)) /\ <<p, v>> \in UsersIn(pt, f)
        BY <1>6, <2>2, UsersFinite
      <4>2. /\ IsFiniteSet(UsersIn(pt, f) \ {<<p, v>>})
            /\ Cardinality(UsersIn(pt, f) \ {<<p, v>>}) = Cardinality(UsersIn(pt, f)) - 1
        BY <4>1, FS_RemoveElement
      <4>. QED BY <3>1, <4>2
    <3>4. Cardinality(UsersIn(pt', f)) # 0
      BY <3>3, FS_EmptySet
    <3>. QED BY <3>1, <3>2, <3>3, <3>4
  <2>3. CASE f # new /\ f # old
    <3>1. UsersIn(pt', f) = UsersIn(pt, f) /\ refcount'[f] = refcount[f]
      <4>1. UsersIn(pt', f) = UsersIn(pt, f) \ {<<p, v>>}
        BY <2>3, <1>2
      <4>2. <<p, v>> \notin UsersIn(pt, f)
        BY <2>3, <1>5
      <4>. QED BY <2>3, <4>1, <4>2
    <3>2. f \in allocated /\ refcount[f] = Cardinality(UsersIn(pt, f))
      BY <3>1, <1>1 DEF Counted
    <3>3. Cardinality(UsersIn(pt, f)) # 0
      BY <3>1, UsersFinite, FS_EmptySet
    <3>. QED BY <3>1, <3>2, <3>3
  <2>. QED BY <2>1, <2>2, <2>3
<1>8. Private(pt', allocated', refcount', table', state')
  <2> SUFFICES ASSUME NEW q \in Procs, state[q] = "live"
               PROVE  /\ table[q] \in allocated' /\ refcount'[table[q]] = 1
                      /\ \A r \in Procs, w \in Pages : pt'[r][w].frame # table[q]
                      /\ \A r \in Procs \ {q} : table[r] # table[q]
    BY DEF Private
  <2>1. /\ table[q] \in allocated /\ table[q] \in Frames /\ refcount[table[q]] = 1
        /\ \A r \in Procs, w \in Pages : pt[r][w].frame # table[q]
        /\ \A r \in Procs \ {q} : table[r] # table[q]
    BY <1>1 DEF Private, TypeOK
  <2>2. refcount'[table[q]] = 1
    BY <2>1, <1>4
  <2>3. \A r \in Procs, w \in Pages : pt'[r][w].frame # table[q]
    BY <2>1, <1>2, <1>4
  <2>. QED BY <2>1, <2>2, <2>3
<1>9. CowIn(pt')
  <2> SUFFICES ASSUME NEW q \in Procs, NEW r \in Procs, NEW w \in Pages, NEW x \in Pages,
                      pt'[q][w].frame \in Frames, pt'[r][x].frame = pt'[q][w].frame,
                      q # r \/ w # x
               PROVE  pt'[q][w].ap = "RO" /\ pt'[q][w].cow
    BY DEF CowIn
  <2>1. (q # p \/ w # v) /\ (r # p \/ x # v)
    BY <1>2, <1>3
  <2>2. pt'[q][w] = pt[q][w] /\ pt'[r][x] = pt[r][x]
    BY <1>2, <2>1
  <2>. QED BY <1>1, <2>2 DEF CowIn
<1>10. IdleHoldNothing'
  <2> SUFFICES ASSUME NEW q \in Procs, state[q] # "live"
               PROVE  /\ table[q] = NoFrame /\ fault'[q] = NoFault
                      /\ \A w \in Pages : pt'[q][w].frame = NoFrame
    BY DEF IdleHoldNothing
  <2>. QED BY <1>2 DEF AInv, IdleHoldNothing
<1>11. CowIsMapped'
  <2> SUFFICES ASSUME NEW q \in Procs, NEW w \in Pages, pt'[q][w].cow
               PROVE  pt'[q][w].frame \in Frames
    BY DEF CowIsMapped
  <2>. QED BY <1>2 DEF AInv, CowIsMapped
<1>12. FaultHasImage'
  <2> SUFFICES ASSUME NEW q \in Procs, fault'[q] # NoFault PROVE \E w \in Pages : pt'[q][w].frame # NoFrame
    BY DEF FaultHasImage, Image, Valid
  <2>1. CASE q = p
    BY <2>1, <1>2, AddressSpaceConstants
  <2>2. CASE q # p
    BY <2>2, <1>2 DEF AInv, FaultHasImage, Image, Valid
  <2>. QED BY <2>1, <2>2
<1>. QED BY <1>7, <1>8, <1>9, <1>10, <1>11, <1>12, PartsPrime

LEMMA CowFaultKeeps ==
    ASSUME AInv, NEW p \in Procs, NEW v \in Pages, NEW k \in Kinds, CowFault(p, v, k)
    PROVE  AInv'
<1>1. CASE Hang
  BY <1>1, HangKeeps
<1>2. CASE ~Hang
  <2> DEFINE old  == pt[p][v].frame
             sole == Sole(old)
             dec  == DecrementRefs([f \in Frames |-> IF f = old THEN 1 ELSE 0])
  <2>1. PICK new \in BuddyAlloc :
          /\ new # NullFrame
          /\ data' = CopyPage(old, new)
          /\ pt' = [pt EXCEPT ![p][v] = [frame |-> new, ap |-> IF sole THEN "RW" ELSE @.ap,
                                         cow |-> ~sole]]
          /\ refcount' = [dec.ref EXCEPT ![new] = 1]
          /\ allocated' = (allocated \ dec.freed) \cup {new}
          /\ fault' = [fault EXCEPT ![p] = <<v, k>>]
          /\ UNCHANGED <<state, table, vma, halted>>
    BY <1>2 DEF CowFault
  <2> DEFINE e == [frame |-> new, ap |-> IF sole THEN "RW" ELSE pt[p][v].ap, cow |-> ~sole]
  <2>2. TypeOK /\ state[p] = "live" /\ old \in Frames /\ new \in Frames \ allocated
    BY <2>1, BuddyAllocResult DEF CowFault, Faults, CheckCow, AInv, SharingExact, CowIsMapped
  <2>3. e \in Entries /\ e.frame = new
    BY <2>2 DEF Entries, Ap, TypeOK, Sole
  <2>4. pt' = [pt EXCEPT ![p][v] = e]
    BY <2>1, <2>2 DEF TypeOK
  <2>5. old \in allocated /\ refcount[old] >= 1
    <3>1. UsersIn(pt, old) # {}
      BY InUsers
    <3>2. old \in allocated /\ refcount[old] = Cardinality(UsersIn(pt, old))
      BY <3>1, <2>2, Parts DEF AInv, SharingExact, Counted
    <3>3. Cardinality(UsersIn(pt, old)) \in Nat /\ Cardinality(UsersIn(pt, old)) # 0
      BY <3>1, UsersFinite, FS_EmptySet
    <3>. QED BY <3>2, <3>3
  <2>6. /\ dec.ref = [f \in Frames |-> refcount[f] - (IF f = old THEN 1 ELSE 0)]
        /\ dec.freed = {f \in allocated : dec.ref[f] = 0}
    BY DEF DecrementRefs
  <2>7. \A f \in Frames : refcount'[f] = IF f = new THEN 1
                                         ELSE IF f = old THEN refcount[f] - 1 ELSE refcount[f]
    BY <2>1, <2>2, <2>6 DEF TypeOK
  <2>8. /\ allocated' \subseteq Frames /\ new \in allocated'
        /\ \A f \in allocated : refcount'[f] # 0 => f \in allocated'
    BY <2>1, <2>2, <2>6 DEF TypeOK
  <2>9. refcount' \in [Frames -> Nat]
    <3>1. \A f \in Frames : refcount'[f] \in Nat
      BY <2>2, <2>5, <2>7 DEF TypeOK
    <3>2. refcount' = [f \in Frames |-> refcount'[f]]
      BY <2>1, <2>6
    <3>. QED BY <3>1, <3>2
  <2>10. TypeOK'
    <3>1. pt' \in [Procs -> [Pages -> Entries]]
      <4> HIDE DEF e
      <4>. QED BY <2>2, <2>3, <2>4 DEF TypeOK
    <3>2. data' \in [Frames -> Values]
      BY <2>1, <2>2 DEF TypeOK, CopyPage
    <3>3. fault' \in [Procs -> {NoFault} \cup (Pages \X Kinds)]
      BY <2>1, <2>2 DEF TypeOK
    <3>. QED BY <2>1, <2>2, <2>8, <2>9, <3>1, <3>2, <3>3 DEF TypeOK
  <2>11. /\ \A q \in Procs \ {p} : fault'[q] = fault[q]
         /\ e.cow => e.frame \in Frames
    BY <2>1, <2>2 DEF TypeOK
  <2> HIDE DEF e
  <2>12. RefcountExact' /\ TablesPrivate' /\ SharedIsCow' /\ IdleHoldNothing' /\ CowIsMapped'
         /\ FaultHasImage'
    <3>1. e \in Entries /\ (e.frame \in Frames \ allocated \/ e.frame = NullFrame)
      BY <2>2, <2>3
    <3>2. \A f \in Frames : refcount'[f] = IF f = e.frame THEN 1
                                           ELSE IF f = pt[p][v].frame THEN refcount[f] - 1
                                           ELSE refcount[f]
      BY <2>3, <2>7
    <3>3. e.frame \in Frames => e.frame \in allocated'
      BY <2>3, <2>8
    <3>4. UNCHANGED <<state, table>>
      BY <2>1
    <3>5. pt'[p][v] = e /\ \A q \in Procs, w \in Pages : q # p \/ w # v => pt'[q][w] = pt[q][w]
      BY <2>2, <2>4 DEF TypeOK
    <3>. QED BY <2>2, <3>5, <2>8, <3>4, <2>11, <3>1, <3>2, <3>3, FreshEntry, Zenon
  <2>. QED BY <2>10, <2>12 DEF AInv, SharingExact
<1>. QED BY <1>1, <1>2

LEMMA VmaFaultKeeps ==
    ASSUME AInv, NEW p \in Procs, NEW v \in Pages, NEW k \in Kinds, VmaFault(p, v, k)
    PROVE  AInv'
<1>1. PICK new \in BuddyAlloc :
        /\ pt' = [pt EXCEPT ![p][v] = MapPages(@, new, vma[p][v])]
        /\ allocated' = allocated \cup ({new} \cap Frames)
        /\ refcount' = [f \in Frames |-> IF f = new THEN 1 ELSE refcount[f]]
  BY DEF VmaFault
<1> DEFINE e == [frame |-> new, ap |-> ApOf(vma[p][v]), cow |-> FALSE]
<1>2. /\ TypeOK /\ state[p] = "live" /\ fault' = [fault EXCEPT ![p] = <<v, k>>]
      /\ UNCHANGED <<state, table, vma, data, halted>>
      /\ \A q \in Procs \ {p} : fault'[q] = fault[q]
      /\ Image(p) # {}
  BY DEF VmaFault, Faults, AInv, SharingExact, TypeOK
<1>3. new \in Frames \ allocated \/ new = NullFrame
  BY BuddyAllocResult
<1>4. e \in Entries /\ e.frame = new /\ e.cow = FALSE
  BY <1>3 DEF Entries, Ap, ApOf
<1>5. pt' = IF Valid(pt[p][v]) THEN pt ELSE [pt EXCEPT ![p][v] = e]
  BY <1>1, <1>2 DEF MapPages, TypeOK
<1>6. pt' \in [Procs -> [Pages -> Entries]]
  <2> HIDE DEF e
  <2>. QED BY <1>2, <1>4, <1>5 DEF TypeOK
<1>7. /\ allocated' \subseteq Frames /\ allocated \subseteq allocated'
      /\ new \in Frames => new \in allocated'
      /\ refcount' \in [Frames -> Nat]
      /\ \A f \in Frames : refcount'[f] = IF f = new THEN 1 ELSE refcount[f]
      /\ fault' \in [Procs -> {NoFault} \cup (Pages \X Kinds)]
  BY <1>1, <1>2 DEF TypeOK
<1>8. TypeOK'
  BY <1>2, <1>6, <1>7 DEF TypeOK
<1>9. CASE ~Valid(pt[p][v])
  <2>1. pt[p][v].frame = NoFrame
    BY <1>9 DEF Valid
  <2>2. \A f \in Frames : refcount'[f] = IF f = e.frame THEN 1
                                         ELSE IF f = pt[p][v].frame THEN refcount[f] - 1
                                         ELSE refcount[f]
    BY <2>1, <1>4, <1>7, AddressSpaceConstants
  <2>3. pt' = [pt EXCEPT ![p][v] = e]
    BY <1>5, <1>9
  <2> HIDE DEF e
  <2>4. RefcountExact' /\ TablesPrivate' /\ SharedIsCow' /\ IdleHoldNothing' /\ CowIsMapped'
        /\ FaultHasImage'
    <3>1. /\ e \in Entries /\ (e.frame \in Frames \ allocated \/ e.frame = NullFrame)
          /\ e.cow => e.frame \in Frames
          /\ e.frame \in Frames => e.frame \in allocated'
          /\ \A f \in allocated : refcount'[f] # 0 => f \in allocated'
          /\ allocated' \subseteq Frames
      BY <1>3, <1>4, <1>7
    <3>2. UNCHANGED <<state, table>>
      BY <1>2
    <3>3. pt'[p][v] = e /\ \A q \in Procs, w \in Pages : q # p \/ w # v => pt'[q][w] = pt[q][w]
      BY <1>2, <2>3 DEF TypeOK
    <3>. QED BY <1>2, <2>2, <3>1, <3>2, <3>3, FreshEntry, Zenon
  <2>. QED BY <1>8, <2>4 DEF AInv, SharingExact
<1>10. CASE Valid(pt[p][v])
  <2>1. pt' = pt
    BY <1>5, <1>10
  <2>2. RefcountExact'
    <3>1. \A f \in Frames : UsersIn(pt, f) # {} => f # new
      BY <1>3, FreshFrame, InUsers, AddressSpaceConstants
    <3>2. Counted(pt', allocated', refcount')
      BY <2>1, <3>1, <1>7, Parts DEF Counted, AInv, SharingExact
    <3>. QED BY <3>2, PartsPrime
  <2>3. TablesPrivate'
    <3>1. \A q \in Procs : table[q] # new
      BY <1>2, <1>3, FreshFrame, AddressSpaceConstants DEF TypeOK
    <3>2. Private(pt', allocated', refcount', table', state')
      BY <2>1, <3>1, <1>2, <1>7, Parts DEF Private, AInv, SharingExact, TypeOK
    <3>. QED BY <3>2, PartsPrime
  <2>4. SharedIsCow' /\ CowIsMapped'
    BY <2>1, Parts, PartsPrime DEF AInv, SharingExact, CowIsMapped
  <2>5. IdleHoldNothing'
    BY <2>1, <1>2 DEF AInv, IdleHoldNothing
  <2>6. FaultHasImage'
    <3>1. \A q \in Procs : Image(q)' = Image(q)
      BY <2>1 DEF Image, Valid
    <3>. QED BY <3>1, <1>2 DEF AInv, FaultHasImage
  <2>. QED BY <1>8, <2>2, <2>3, <2>4, <2>5, <2>6 DEF AInv, SharingExact
<1>. QED BY <1>9, <1>10
-----------------------------------------------------------------------------
(***************************************************************************)
(* fork: the child becomes a user of every frame of its parent.            *)
(***************************************************************************)
LEMMA CloneUsers ==
    ASSUME NEW p \in Procs, NEW c \in Procs, p # c, NEW f,
           \A v \in Pages : pt[c][v].frame # f,
           \A v \in Pages : pt'[p][v].frame = pt[p][v].frame /\ pt'[c][v].frame = pt[p][v].frame,
           \A q \in Procs \ {p, c}, v \in Pages : pt'[q][v] = pt[q][v]
    PROVE  /\ Cardinality(UsersIn(pt', f)) = Cardinality(UsersIn(pt, f)) + Uses(pt, p, f)
           /\ UsersIn(pt, f) = {} => UsersIn(pt', f) = {}
<1> DEFINE V == {c} \X UsesIn(pt, p, f)
<1>1. UsersIn(pt', f) = UsersIn(pt, f) \cup V
  <2>1. ASSUME NEW u \in Procs \X Pages
        PROVE  pt'[u[1]][u[2]].frame = f <=> pt[u[1]][u[2]].frame = f \/ u \in V
    <3>1. u[1] \in Procs /\ u[2] \in Pages /\ u = <<u[1], u[2]>>
      BY Pairs
    <3>2. u \in V <=> u[1] = c /\ pt[p][u[2]].frame = f
      BY <3>1 DEF UsesIn
    <3> HIDE DEF V
    <3>. QED BY <3>1, <3>2
  <2>2. V \subseteq Procs \X Pages
    BY DEF UsesIn
  <2> HIDE DEF V
  <2>. QED BY <2>1, <2>2 DEF UsersIn
<1>2. UsersIn(pt, f) \cap V = {}
  <2>1. ASSUME NEW u \in UsersIn(pt, f), u \in V PROVE FALSE
    <3>1. u[1] = c /\ u[2] \in Pages
      BY <2>1 DEF UsesIn
    <3>2. pt[u[1]][u[2]].frame = f
      BY <2>1, InUsers
    <3>. QED BY <3>1, <3>2
  <2>. QED BY <2>1
<1>3. IsFiniteSet(V) /\ Cardinality(V) = Uses(pt, p, f)
  <2>1. IsFiniteSet({p} \X UsesIn(pt, p, f)) /\ Uses(pt, p, f) \in Nat
    BY UsesCounts
  <2>2. IsFiniteSet(UsesIn(pt, p, f))
    <3>1. UsesIn(pt, p, f) \in SUBSET Pages
      BY DEF UsesIn
    <3>. QED BY <3>1, AddressSpaceConstants, FS_Subset
  <2>3. IsFiniteSet({c}) /\ Cardinality({c}) = 1
    BY FS_Singleton
  <2>4. IsFiniteSet(V) /\ Cardinality(V) = Cardinality({c}) * Cardinality(UsesIn(pt, p, f))
    BY <2>2, <2>3, FS_Product
  <2>. QED BY <2>1, <2>3, <2>4 DEF Uses
<1>4. IsFiniteSet(UsersIn(pt, f)) /\ Cardinality(UsersIn(pt, f)) \in Nat
  BY UsersFinite
<1>5. UsersIn(pt, f) = {} => V = {}
  <2>1. UsersIn(pt, f) = {} => UsesIn(pt, p, f) = {}
    BY InUsers DEF UsesIn
  <2>. QED BY <2>1
<1>6. Cardinality(UsersIn(pt, f) \cup V) = Cardinality(UsersIn(pt, f)) + Cardinality(V) - Cardinality(UsersIn(pt, f) \cap V)
  <2> HIDE DEF V
  <2>. QED BY <1>3, <1>4, FS_Union
<1>7. Cardinality(UsersIn(pt, f) \cap V) = 0
  BY <1>2, FS_EmptySet
<1>8. Uses(pt, p, f) \in Nat
  BY UsesCounts
<1> HIDE DEF V
<1>. QED BY <1>1, <1>3, <1>4, <1>5, <1>6, <1>7, <1>8

LEMMA ForkKeeps ==
    ASSUME AInv, NEW p \in Procs, NEW c \in Procs, Fork(p, c)
    PROVE  AInv'
<1>1. CASE Hang
  BY <1>1, HangKeeps
<1>2. CASE ~Hang
  <2> DEFINE shared == [v \in Pages |-> CowEntry(pt[p][v])]
  <2>1. PICK new \in BuddyAlloc :
          /\ new # NullFrame /\ ~(UsesBy(p, NullFrame) > 0)
          /\ state' = [state EXCEPT ![c] = "live"]
          /\ table' = [table EXCEPT ![c] = new]
          /\ pt' = [pt EXCEPT ![p] = shared, ![c] = shared]
          /\ vma' = [vma EXCEPT ![c] = vma[p]]
          /\ allocated' = allocated \cup {new}
          /\ refcount' = [f \in Frames |-> IF f = new THEN 1 ELSE CloneRef(p, f)]
          /\ data' = [data EXCEPT ![new] = Zero]
          /\ UNCHANGED <<fault, halted>>
    BY <1>2 DEF Fork, ChildTable
  <2>2. /\ TypeOK /\ state[p] = "live" /\ state[c] = "unused" /\ p # c
        /\ new \in Frames \ allocated
    BY <2>1, BuddyAllocResult DEF Fork, Ready, AInv, SharingExact
  <2>3. /\ \A v \in Pages : pt'[p][v] = CowEntry(pt[p][v]) /\ pt'[c][v] = CowEntry(pt[p][v])
        /\ \A q \in Procs \ {p, c}, v \in Pages : pt'[q][v] = pt[q][v]
    BY <2>1, <2>2 DEF TypeOK
  <2>4. \A v \in Pages : pt[p][v] \in Entries /\ pt[p][v].frame # NullFrame
    <3>1. UsesBy(p, NullFrame) = Uses(pt, p, NullFrame)
      BY DEF UsesBy, Uses, UsesIn
    <3>2. /\ Uses(pt, p, NullFrame) \in Nat
          /\ Uses(pt, p, NullFrame) = 0 <=> \A v \in Pages : pt[p][v].frame # NullFrame
      BY UsesCounts, Zenon
    <3>3. \A v \in Pages : pt[p][v].frame # NullFrame
      BY <2>1, <3>1, <3>2
    <3>4. \A v \in Pages : pt[p][v] \in Entries
      BY <2>2 DEF TypeOK
    <3>. QED BY <3>3, <3>4
  <2>5. \A e \in Entries : /\ CowEntry(e) \in Entries /\ CowEntry(e).frame = e.frame
                           /\ e.frame # NoFrame => CowEntry(e).ap = "RO" /\ CowEntry(e).cow
                           /\ e.frame = NoFrame => CowEntry(e) = e
    BY DEF CowEntry, Entries, Valid, Ap
  <2>6. /\ \A v \in Pages : pt'[p][v].frame = pt[p][v].frame /\ pt'[c][v].frame = pt[p][v].frame
        /\ \A v \in Pages : pt[c][v].frame = NoFrame
    BY <2>2, <2>3, <2>4, <2>5 DEF AInv, IdleHoldNothing
  <2>7. /\ \A q \in Procs, v \in Pages : pt[q][v].frame # new
        /\ \A q \in Procs : table[q] # new
        /\ new \in Frames /\ new # NoFrame /\ new # NullFrame
    BY <2>2, FreshFrame
  <2>8. \A f \in Frames : /\ CloneRef(p, f) = refcount[f] + Uses(pt, p, f)
                          /\ Uses(pt, p, f) \in Nat /\ refcount[f] \in Nat
    <3> TAKE f \in Frames
    <3>1. Uses(pt, p, f) \in Nat
      BY UsesCounts
    <3>. QED BY <3>1, <2>2 DEF CloneRef, UsesBy, Uses, UsesIn, TypeOK
  <2>9. TypeOK'
    <3>1. pt' \in [Procs -> [Pages -> Entries]]
      <4>1. shared \in [Pages -> Entries]
        BY <2>4, <2>5
      <4> HIDE DEF shared
      <4>. QED BY <4>1, <2>1, <2>2 DEF TypeOK
    <3>2. refcount' \in [Frames -> Nat]
      BY <2>1, <2>8
    <3>3. data' \in [Frames -> Values] /\ vma' \in [Procs -> [Pages -> (SUBSET Permissions) \cup {NoVma}]]
      BY <2>1, <2>2, AddressSpaceConstants DEF TypeOK
    <3>4. /\ state' \in [Procs -> {"unused", "live", "terminated"}]
          /\ table' \in [Procs -> Frames \cup {NoFrame}] /\ allocated' \subseteq Frames
      BY <2>1, <2>2, <2>7 DEF TypeOK
    <3>. QED BY <2>1, <2>2, <3>1, <3>2, <3>3, <3>4 DEF TypeOK
  <2>10. RefcountExact'
    <3> SUFFICES ASSUME NEW f \in Frames, UsersIn(pt', f) # {}
                 PROVE  f \in allocated' /\ refcount'[f] = Cardinality(UsersIn(pt', f))
      BY PartsPrime DEF Counted
    <3>1. \A v \in Pages : pt[c][v].frame # f
      BY <2>6, AddressSpaceConstants
    <3>2. /\ Cardinality(UsersIn(pt', f)) = Cardinality(UsersIn(pt, f)) + Uses(pt, p, f)
          /\ UsersIn(pt, f) # {}
      BY <2>2, <2>3, <2>6, <3>1, CloneUsers
    <3>3. f # new
      BY <3>2, <2>7, InUsers
    <3>4. f \in allocated /\ refcount[f] = Cardinality(UsersIn(pt, f))
      BY <3>2, Parts DEF AInv, SharingExact, Counted
    <3>. QED BY <3>2, <3>3, <3>4, <2>1, <2>8
  <2>11. TablesPrivate'
    <3> SUFFICES ASSUME NEW q \in Procs, state'[q] = "live"
                 PROVE  /\ table'[q] \in allocated' /\ refcount'[table'[q]] = 1
                        /\ \A r \in Procs, v \in Pages : pt'[r][v].frame # table'[q]
                        /\ \A r \in Procs \ {q} : table'[r] # table'[q]
      BY PartsPrime DEF Private
    <3>1. table'[c] = new /\ \A r \in Procs \ {c} : table'[r] = table[r]
      BY <2>1, <2>2 DEF TypeOK
    <3>2. CASE q = c
      <4>1. \A r \in Procs, v \in Pages : pt'[r][v].frame # new
        BY <2>3, <2>6, <2>7
      <4>2. new \in allocated' /\ refcount'[new] = 1
        BY <2>1, <2>7
      <4>. QED BY <3>1, <3>2, <2>7, <4>1, <4>2
    <3>3. CASE q # c
      <4>1. state[q] = "live"
        BY <3>3, <2>1, <2>2 DEF TypeOK
      <4>2. /\ table[q] \in allocated /\ table[q] \in Frames /\ refcount[table[q]] = 1
            /\ \A r \in Procs, w \in Pages : pt[r][w].frame # table[q]
            /\ \A r \in Procs \ {q} : table[r] # table[q]
        BY <4>1, <2>2, Parts DEF AInv, SharingExact, Private, TypeOK
      <4>3. Uses(pt, p, table[q]) = 0
        BY <4>2, UsesCounts
      <4>4. refcount'[table[q]] = 1
        BY <4>2, <4>3, <2>1, <2>7, <2>8
      <4>5. \A r \in Procs, v \in Pages : pt'[r][v].frame # table[q]
        BY <4>2, <2>3, <2>6
      <4>. QED BY <3>1, <3>3, <4>2, <4>4, <4>5, <2>1, <2>7
    <3>. QED BY <3>2, <3>3
  <2>12. SharedIsCow'
    <3> SUFFICES ASSUME NEW q \in Procs, NEW r \in Procs, NEW w \in Pages, NEW x \in Pages,
                        pt'[q][w].frame \in Frames, pt'[r][x].frame = pt'[q][w].frame,
                        q # r \/ w # x
                 PROVE  pt'[q][w].ap = "RO" /\ pt'[q][w].cow
      BY PartsPrime DEF CowIn
    <3>1. CASE q \in {p, c}
      BY <3>1, <2>3, <2>4, <2>5, AddressSpaceConstants
    <3>2. CASE q \notin {p, c}
      <4>1. pt'[q][w] = pt[q][w]
        BY <3>2, <2>3
      <4>2. CASE r \in {p, c}
        <5>1. pt[p][x].frame = pt[q][w].frame /\ p # q
          BY <4>1, <4>2, <3>2, <2>6
        <5>. QED BY <4>1, <5>1, Parts DEF AInv, SharingExact, CowIn
      <4>3. CASE r \notin {p, c}
        <5>1. pt'[r][x] = pt[r][x]
          BY <4>3, <2>3
        <5>. QED BY <4>1, <5>1, Parts DEF AInv, SharingExact, CowIn
      <4>. QED BY <4>2, <4>3
    <3>. QED BY <3>1, <3>2
  <2>13. IdleHoldNothing'
    <3> SUFFICES ASSUME NEW q \in Procs, state'[q] # "live"
                 PROVE  /\ table'[q] = NoFrame /\ fault'[q] = NoFault
                        /\ \A w \in Pages : pt'[q][w].frame = NoFrame
      BY DEF IdleHoldNothing
    <3>1. q # c /\ q # p /\ state[q] # "live" /\ table'[q] = table[q] /\ fault'[q] = fault[q]
      BY <2>1, <2>2 DEF TypeOK
    <3>. QED BY <3>1, <2>3 DEF AInv, IdleHoldNothing
  <2>14. CowIsMapped'
    <3> SUFFICES ASSUME NEW q \in Procs, NEW w \in Pages, pt'[q][w].cow
                 PROVE  pt'[q][w].frame \in Frames
      BY DEF CowIsMapped
    <3>1. CASE q \notin {p, c}
      BY <3>1, <2>3 DEF AInv, CowIsMapped
    <3>2. CASE q \in {p, c}
      <4>1. pt'[q][w] = CowEntry(pt[p][w])
        BY <3>2, <2>3
      <4>2. CASE pt[p][w].frame = NoFrame
        BY <4>1, <4>2, <2>4, <2>5 DEF AInv, CowIsMapped
      <4>3. CASE pt[p][w].frame # NoFrame
        BY <4>1, <4>3, <2>4, <2>5 DEF Entries
      <4>. QED BY <4>2, <4>3
    <3>. QED BY <3>1, <3>2
  <2>15. FaultHasImage'
    <3> SUFFICES ASSUME NEW q \in Procs, fault'[q] # NoFault
                 PROVE  \E w \in Pages : pt'[q][w].frame # NoFrame
      BY DEF FaultHasImage, Image, Valid
    <3>1. q # c /\ fault[q] # NoFault
      BY <2>1, <2>2 DEF AInv, IdleHoldNothing
    <3>2. PICK w \in Pages : pt[q][w].frame # NoFrame
      BY <3>1 DEF AInv, FaultHasImage, Image, Valid
    <3>. QED BY <3>1, <3>2, <2>3, <2>6
  <2>. QED BY <2>9, <2>10, <2>11, <2>12, <2>13, <2>14, <2>15 DEF AInv, SharingExact
<1>. QED BY <1>1, <1>2
-----------------------------------------------------------------------------
(***************************************************************************)
(* exit and execve: a process gives up its frames and has new ones, if     *)
(* any, that nobody had.                                                   *)
(***************************************************************************)
LEMMA OthersKeepUsing ==
    ASSUME NEW p \in Procs, NEW f,
           \A q \in Procs \ {p}, v \in Pages : pt'[q][v] = pt[q][v]
    PROVE  UsersIn(pt', f) \ ({p} \X Pages) = UsersIn(pt, f) \ ({p} \X Pages)
<1>1. ASSUME NEW u \in Procs \X Pages, u \notin {p} \X Pages
      PROVE  pt'[u[1]][u[2]] = pt[u[1]][u[2]]
  <2>1. u[1] \in Procs /\ u[2] \in Pages /\ u = <<u[1], u[2]>>
    BY Pairs
  <2>2. u[1] # p
    BY <1>1, <2>1
  <2>. QED BY <2>1, <2>2
<1>. QED BY <1>1 DEF UsersIn

LEMMA ReapedCounts ==
    ASSUME AInv, NEW p \in Procs, state[p] = "live"
    PROVE  LET ref == Reaped(p).ref
           IN  /\ ref \in [Frames -> Nat]
               /\ Reaped(p).freed = {f \in allocated : ref[f] = 0}
               /\ \A f \in Frames : UsersIn(pt, f) \ ({p} \X Pages) # {} =>
                      /\ f \in allocated \ Reaped(p).freed
                      /\ ref[f] = Cardinality(UsersIn(pt, f) \ ({p} \X Pages))
               /\ \A q \in Procs \ {p} : state[q] = "live" =>
                      ref[table[q]] = 1 /\ table[q] \in allocated \ Reaped(p).freed
<1> DEFINE ref == [f \in Frames |-> refcount[f] - (Uses(pt, p, f) + (IF f = table[p] THEN 1 ELSE 0))]
<1>1. Reaped(p).ref = ref /\ Reaped(p).freed = {f \in allocated : ref[f] = 0}
  BY DEF Reaped, DecrementRefs, UsesBy, Uses, UsesIn
<1>2. \A f \in Frames : Uses(pt, p, f) \in Nat /\ refcount[f] \in Nat
  BY UsesCounts DEF AInv, SharingExact, TypeOK
<1>3. \A q \in Procs : state[q] = "live" =>
          /\ table[q] \in allocated /\ table[q] \in Frames /\ refcount[table[q]] = 1
          /\ Uses(pt, p, table[q]) = 0 /\ UsersIn(pt, table[q]) = {}
          /\ \A r \in Procs \ {q} : table[r] # table[q]
  <2> SUFFICES ASSUME NEW q \in Procs, state[q] = "live"
               PROVE  /\ table[q] \in allocated /\ table[q] \in Frames /\ refcount[table[q]] = 1
                      /\ Uses(pt, p, table[q]) = 0 /\ UsersIn(pt, table[q]) = {}
                      /\ \A r \in Procs \ {q} : table[r] # table[q]
    OBVIOUS
  <2>1. /\ table[q] \in allocated /\ table[q] \in Frames /\ refcount[table[q]] = 1
        /\ \A r \in Procs, w \in Pages : pt[r][w].frame # table[q]
        /\ \A r \in Procs \ {q} : table[r] # table[q]
    BY Parts DEF AInv, SharingExact, Private, TypeOK
  <2>2. Uses(pt, p, table[q]) = 0
    BY <2>1, UsesCounts
  <2>3. UsersIn(pt, table[q]) = {}
    BY <2>1, InUsers
  <2>. QED BY <2>1, <2>2, <2>3
<1>4. \A f \in Frames : UsersIn(pt, f) # {} =>
          /\ f \in allocated /\ f # table[p]
          /\ refcount[f] = Cardinality(UsersIn(pt, f)) /\ Uses(pt, p, f) <= refcount[f]
          /\ Cardinality(UsersIn(pt, f) \ ({p} \X Pages)) = refcount[f] - Uses(pt, p, f)
  <2> SUFFICES ASSUME NEW f \in Frames, UsersIn(pt, f) # {}
               PROVE  /\ f \in allocated /\ f # table[p]
                      /\ refcount[f] = Cardinality(UsersIn(pt, f)) /\ Uses(pt, p, f) <= refcount[f]
                      /\ Cardinality(UsersIn(pt, f) \ ({p} \X Pages)) = refcount[f] - Uses(pt, p, f)
    OBVIOUS
  <2>1. f \in allocated /\ refcount[f] = Cardinality(UsersIn(pt, f))
    BY Parts DEF AInv, SharingExact, Counted
  <2>. QED BY <2>1, <1>3, OtherUsers
<1>5. ASSUME NEW f \in Frames, UsersIn(pt, f) = {} PROVE Uses(pt, p, f) = 0
  <2>1. \A v \in Pages : pt[p][v].frame # f
    BY <1>5, InUsers
  <2>. QED BY <2>1, UsesCounts
<1>6. ASSUME NEW f \in Frames PROVE ref[f] \in Nat
  <2>1. ref[f] = refcount[f] - (Uses(pt, p, f) + (IF f = table[p] THEN 1 ELSE 0))
    OBVIOUS
  <2> HIDE DEF ref
  <2>2. CASE UsersIn(pt, f) = {}
    <3>1. f = table[p] => refcount[f] = 1
      BY <1>3
    <3>. QED BY <2>1, <2>2, <3>1, <1>2, <1>5
  <2>3. CASE UsersIn(pt, f) # {}
    <3>1. f # table[p] /\ Uses(pt, p, f) <= refcount[f]
      BY <2>3, <1>4
    <3>. QED BY <2>1, <3>1, <1>2
  <2>. QED BY <2>2, <2>3
<1>7. ASSUME NEW f \in Frames, UsersIn(pt, f) \ ({p} \X Pages) # {}
      PROVE  /\ f \in allocated /\ ref[f] # 0
             /\ ref[f] = Cardinality(UsersIn(pt, f) \ ({p} \X Pages))
  <2>1. UsersIn(pt, f) # {}
    BY <1>7
  <2>2. ref[f] = Cardinality(UsersIn(pt, f) \ ({p} \X Pages))
    BY <2>1, <1>2, <1>4
  <2>3. IsFiniteSet(UsersIn(pt, f) \ ({p} \X Pages))
    BY UsersFinite, FS_Difference
  <2>4. Cardinality(UsersIn(pt, f) \ ({p} \X Pages)) # 0
    BY <1>7, <2>3, FS_EmptySet
  <2>. QED BY <2>1, <2>2, <2>4, <1>4
<1>8. \A q \in Procs \ {p} : state[q] = "live" => ref[table[q]] = 1 /\ table[q] \in allocated
  BY <1>3
<1> HIDE DEF ref
<1>9. ref \in [Frames -> Nat]
  BY <1>6 DEF ref
<1>. QED BY <1>1, <1>7, <1>8, <1>9

LEMMA ReleaseKeeps ==
    ASSUME AInv, NEW p \in Procs, state[p] = "live", fault[p] = NoFault,
           NEW fresh \in SUBSET (Frames \ allocated),
           \A q \in Procs \ {p}, v \in Pages : pt'[q][v] = pt[q][v],
           \A v \in Pages : pt'[p][v].frame \in fresh \cup {NoFrame, NullFrame} /\ ~pt'[p][v].cow,
           \A v, w \in Pages : pt'[p][v].frame = pt'[p][w].frame /\ pt'[p][v].frame \in Frames => v = w,
           \A f \in Frames : refcount'[f] = IF f \in fresh THEN 1 ELSE Reaped(p).ref[f],
           allocated' = (allocated \ Reaped(p).freed) \cup fresh,
           \A q \in Procs \ {p} : table'[q] = table[q] /\ state'[q] = state[q],
           fault' = fault,
           \/ state'[p] # "live" /\ table'[p] = NoFrame /\ \A v \in Pages : pt'[p][v].frame = NoFrame
           \/ state'[p] = "live" /\ table'[p] \in fresh /\ \A v \in Pages : pt'[p][v].frame # table'[p]
    PROVE  RefcountExact' /\ TablesPrivate' /\ SharedIsCow' /\ IdleHoldNothing' /\ CowIsMapped'
           /\ FaultHasImage'
<1> DEFINE ref   == Reaped(p).ref
           freed == Reaped(p).freed
<1>1. /\ ref \in [Frames -> Nat]
      /\ freed = {f \in allocated : ref[f] = 0}
      /\ \A f \in Frames : UsersIn(pt, f) \ ({p} \X Pages) # {} =>
             /\ f \in allocated \ freed
             /\ ref[f] = Cardinality(UsersIn(pt, f) \ ({p} \X Pages))
      /\ \A q \in Procs \ {p} : state[q] = "live" =>
             ref[table[q]] = 1 /\ table[q] \in allocated \ freed
  BY ReapedCounts
<1>2. \A f \in fresh : /\ \A q \in Procs, v \in Pages : pt[q][v].frame # f
                       /\ \A q \in Procs : table[q] # f
                       /\ f \in Frames /\ f # NoFrame /\ f # NullFrame
  BY FreshFrame
<1>3. RefcountExact'
  <2> SUFFICES ASSUME NEW f \in Frames, UsersIn(pt', f) # {}
               PROVE  f \in allocated' /\ refcount'[f] = Cardinality(UsersIn(pt', f))
    BY PartsPrime DEF Counted
  <2>1. CASE f \in fresh
    <3>1. PICK u \in UsersIn(pt', f) : TRUE
      OBVIOUS
    <3>2. \A w \in UsersIn(pt', f) : w[1] \in Procs /\ w[2] \in Pages /\ w = <<w[1], w[2]>>
                                    /\ pt'[w[1]][w[2]].frame = f
      BY InUsers
    <3>3. \A w \in UsersIn(pt', f) : w[1] = p
      BY <3>2, <1>2, <2>1
    <3>4. \A w \in UsersIn(pt', f) : w[2] = u[2]
      BY <3>1, <3>2, <3>3
    <3>5. \A w \in UsersIn(pt', f) : w = u
      BY <3>1, <3>2, <3>3, <3>4
    <3>6. UsersIn(pt', f) = {u}
      BY <3>1, <3>5
    <3>7. Cardinality({u}) = 1
      BY FS_Singleton
    <3>. QED BY <2>1, <3>6, <3>7
  <2>2. CASE f \notin fresh
    <3>1. \A v \in Pages : pt'[p][v].frame # f
      BY <2>2, AddressSpaceConstants
    <3>2. UsersIn(pt', f) = UsersIn(pt', f) \ ({p} \X Pages)
      <4>1. \A u \in UsersIn(pt', f) : u[1] # p
        BY <3>1, InUsers
      <4>. QED BY <4>1
    <3>3. UsersIn(pt', f) = UsersIn(pt, f) \ ({p} \X Pages)
      BY <3>2, OthersKeepUsing
    <3>4. f \in allocated \ freed /\ ref[f] = Cardinality(UsersIn(pt, f) \ ({p} \X Pages))
      BY <3>3, <1>1
    <3>. QED BY <2>2, <3>3, <3>4
  <2>. QED BY <2>1, <2>2
<1>4. TablesPrivate'
  <2> SUFFICES ASSUME NEW q \in Procs, state'[q] = "live"
               PROVE  /\ table'[q] \in allocated' /\ refcount'[table'[q]] = 1
                      /\ \A r \in Procs, v \in Pages : pt'[r][v].frame # table'[q]
                      /\ \A r \in Procs \ {q} : table'[r] # table'[q]
    BY PartsPrime DEF Private
  <2>1. CASE q = p
    <3>1. table'[p] \in fresh /\ \A v \in Pages : pt'[p][v].frame # table'[p]
      BY <2>1
    <3>2. \A r \in Procs, v \in Pages : pt'[r][v].frame # table'[p]
      BY <3>1, <1>2
    <3>3. \A r \in Procs \ {p} : table'[r] # table'[p]
      BY <3>1, <1>2
    <3>. QED BY <2>1, <3>1, <3>2, <3>3, <1>2
  <2>2. CASE q # p
    <3>1. state[q] = "live" /\ table'[q] = table[q]
      BY <2>2
    <3>2. /\ table[q] \in allocated \ freed /\ ref[table[q]] = 1
          /\ table[q] \in Frames /\ table[q] # NoFrame /\ table[q] # NullFrame
          /\ \A r \in Procs, w \in Pages : pt[r][w].frame # table[q]
          /\ \A r \in Procs \ {q} : table[r] # table[q]
      BY <2>2, <3>1, <1>1, Parts, AddressSpaceConstants DEF AInv, SharingExact, Private, TypeOK
    <3>3. table[q] \notin fresh
      BY <1>2
    <3>4. table[q] \in allocated' /\ refcount'[table[q]] = 1
      BY <3>2, <3>3
    <3>5. \A r \in Procs, v \in Pages : pt'[r][v].frame # table[q]
      BY <3>2, <3>3
    <3>6. \A r \in Procs \ {q} : table'[r] # table[q]
      BY <3>2, <3>3, <2>2
    <3>. QED BY <3>1, <3>4, <3>5, <3>6
  <2>. QED BY <2>1, <2>2
<1>5. SharedIsCow'
  <2> SUFFICES ASSUME NEW q \in Procs, NEW r \in Procs, NEW w \in Pages, NEW x \in Pages,
                      pt'[q][w].frame \in Frames, pt'[r][x].frame = pt'[q][w].frame,
                      q # r \/ w # x
               PROVE  pt'[q][w].ap = "RO" /\ pt'[q][w].cow
    BY PartsPrime DEF CowIn
  <2>1. q # p /\ r # p
    BY <1>2, AddressSpaceConstants
  <2>2. pt'[q][w] = pt[q][w] /\ pt'[r][x] = pt[r][x]
    BY <2>1
  <2>. QED BY <2>2, Parts DEF AInv, SharingExact, CowIn
<1>6. IdleHoldNothing'
  <2> SUFFICES ASSUME NEW q \in Procs, state'[q] # "live"
               PROVE  /\ table'[q] = NoFrame /\ fault'[q] = NoFault
                      /\ \A w \in Pages : pt'[q][w].frame = NoFrame
    BY DEF IdleHoldNothing
  <2>1. CASE q = p
    BY <2>1
  <2>2. CASE q # p
    BY <2>2 DEF AInv, IdleHoldNothing
  <2>. QED BY <2>1, <2>2
<1>7. CowIsMapped'
  <2> SUFFICES ASSUME NEW q \in Procs, NEW w \in Pages, pt'[q][w].cow
               PROVE  pt'[q][w].frame \in Frames
    BY DEF CowIsMapped
  <2>1. q # p
    OBVIOUS
  <2>. QED BY <2>1 DEF AInv, CowIsMapped
<1>8. FaultHasImage'
  <2> SUFFICES ASSUME NEW q \in Procs, fault'[q] # NoFault
               PROVE  \E w \in Pages : pt'[q][w].frame # NoFrame
    BY DEF FaultHasImage, Image, Valid
  <2>1. q # p /\ fault[q] # NoFault
    OBVIOUS
  <2>2. PICK w \in Pages : pt[q][w].frame # NoFrame
    BY <2>1 DEF AInv, FaultHasImage, Image, Valid
  <2>. QED BY <2>1, <2>2
<1>. QED BY <1>3, <1>4, <1>5, <1>6, <1>7, <1>8

LEMMA ExitKeeps ==
    ASSUME AInv, NEW p \in Procs, Exit(p)
    PROVE  AInv'
<1>1. CASE Hang
  BY <1>1, HangKeeps
<1>2. CASE ~Hang
  <2>1. /\ state' = [state EXCEPT ![p] = "terminated"]
        /\ table' = [table EXCEPT ![p] = NoFrame]
        /\ pt' = [pt EXCEPT ![p] = [v \in Pages |-> Invalid]]
        /\ refcount' = Reaped(p).ref
        /\ allocated' = allocated \ Reaped(p).freed
        /\ UNCHANGED <<vma, data, fault, halted>>
    BY <1>2 DEF Exit
  <2>2. TypeOK /\ state[p] = "live" /\ fault[p] = NoFault
    BY DEF Exit, Ready, AInv, SharingExact
  <2>3. Invalid \in Entries /\ Invalid.frame = NoFrame /\ Invalid.cow = FALSE
    BY DEF Invalid, Entries, Ap
  <2>4. /\ \A v \in Pages : pt'[p][v] = Invalid
        /\ \A q \in Procs \ {p}, v \in Pages : pt'[q][v] = pt[q][v]
        /\ \A q \in Procs \ {p} : table'[q] = table[q] /\ state'[q] = state[q]
        /\ state'[p] # "live" /\ table'[p] = NoFrame
    BY <2>1, <2>2 DEF TypeOK
  <2>5. refcount' \in [Frames -> Nat] /\ Reaped(p).freed \subseteq allocated
    BY <2>1, <2>2, ReapedCounts
  <2>6. TypeOK'
    <3>1. pt' \in [Procs -> [Pages -> Entries]]
      BY <2>1, <2>2, <2>3 DEF TypeOK
    <3>. QED BY <2>1, <2>2, <2>5, <3>1 DEF TypeOK
  <2>7. /\ \A v \in Pages : pt'[p][v].frame = NoFrame /\ ~pt'[p][v].cow
        /\ \A v, w \in Pages :
              pt'[p][v].frame = pt'[p][w].frame /\ pt'[p][v].frame \in Frames => v = w
    BY <2>3, <2>4, AddressSpaceConstants
  <2>8. /\ \A f \in Frames : refcount'[f] = IF f \in {} THEN 1 ELSE Reaped(p).ref[f]
        /\ allocated' = (allocated \ Reaped(p).freed) \cup {}
        /\ {} \in SUBSET (Frames \ allocated)
        /\ fault' = fault
        /\ \A v \in Pages : pt'[p][v].frame \in {} \cup {NoFrame, NullFrame} /\ ~pt'[p][v].cow
    BY <2>1, <2>7
  <2>9. RefcountExact' /\ TablesPrivate' /\ SharedIsCow' /\ IdleHoldNothing' /\ CowIsMapped'
        /\ FaultHasImage'
    BY <2>2, <2>4, <2>7, <2>8, ReleaseKeeps, Zenon
  <2>. QED BY <2>6, <2>9 DEF AInv, SharingExact
<1>. QED BY <1>1, <1>2

\* The frames that execve has allocated when it reaps the old image.
LEMMA ExecKeeps ==
    ASSUME AInv, NEW p \in Procs, NEW prog \in Programs, Exec(p, prog)
    PROVE  AInv'
<1>1. CASE Hang
  BY <1>1, HangKeeps
<1>2. CASE ~Hang
  <2> DEFINE need   == NeedPages(prog)
             copied == CopiedPages(prog)
  <2>0. PICK tab \in BuddyAlloc : \E g \in Layouts(need, tab) :
          /\ tab # NullFrame
          /\ \A v \in copied : v \in need /\ g[v] # NullFrame
          /\ Load(p, prog, tab, g)
    BY <1>2 DEF Exec
  <2>1. PICK g \in Layouts(need, tab) :
          /\ tab # NullFrame
          /\ \A v \in copied : v \in need /\ g[v] # NullFrame
          /\ pt' = [pt EXCEPT ![p] = [v \in Pages |->
                       IF v \in need THEN LoadedEntry(prog, v, g[v]) ELSE Invalid]]
          /\ table' = [table EXCEPT ![p] = tab]
          /\ refcount' = [f \in Frames |->
                           IF f \in GotFrames(prog, tab, g) THEN 1 ELSE Reaped(p).ref[f]]
          /\ allocated' = (allocated \ Reaped(p).freed) \cup GotFrames(prog, tab, g)
          /\ data' = LoadedData(prog, tab, g)
          /\ UNCHANGED <<state, vma, fault, halted>>
    BY <2>0 DEF Load
  <2> DEFINE fresh == GotFrames(prog, tab, g)
  <2>2. TypeOK /\ state[p] = "live" /\ fault[p] = NoFault
    BY DEF Exec, Ready, AInv, SharingExact, FaultHasImage
  <2>3. tab \in Frames \ allocated
    BY <2>1, BuddyAllocResult
  <2>4. /\ g \in [need -> (Frames \ (allocated \cup {tab})) \cup {NullFrame}]
        /\ \A w \in need : g[w] # NullFrame => g[w] \notin {g[v] : v \in {u \in need : u < w}}
    BY DEF Layouts
  <2>5. \A v, w \in need \cap Pages : g[v] = g[w] /\ g[v] # NullFrame => v = w
    <3>1. \A v, w \in need : g[w] # NullFrame /\ v < w => g[v] # g[w]
      BY <2>4
    <3>2. \A v, w \in Pages : v < w \/ w < v \/ v = w
      BY AddressSpaceConstants
    <3>. QED BY <3>1, <3>2
  <2>6. fresh \in SUBSET (Frames \ allocated) /\ tab \in fresh
    BY <2>3, <2>4 DEF GotFrames
  <2>7. /\ Invalid \in Entries /\ Invalid.frame = NoFrame /\ Invalid.cow = FALSE
        /\ \A v, f : /\ LoadedEntry(prog, v, f).frame = f
                     /\ LoadedEntry(prog, v, f).cow = FALSE
                     /\ f \in Frames \cup {NullFrame} => LoadedEntry(prog, v, f) \in Entries
    BY DEF Invalid, Entries, Ap, LoadedEntry, MapPages, Valid, ApOf
  <2>8. /\ \A v \in Pages : pt'[p][v] = IF v \in need THEN LoadedEntry(prog, v, g[v]) ELSE Invalid
        /\ \A q \in Procs \ {p}, v \in Pages : pt'[q][v] = pt[q][v]
        /\ \A q \in Procs \ {p} : table'[q] = table[q] /\ state'[q] = state[q]
        /\ state'[p] = "live" /\ table'[p] = tab
    BY <2>1, <2>2 DEF TypeOK
  <2>9. /\ \A v \in need : g[v] # NullFrame => g[v] \in fresh
        /\ \A v \in need : g[v] # tab /\ g[v] \in Frames \cup {NullFrame}
    BY <2>3, <2>4, AddressSpaceConstants DEF GotFrames
  <2>10. /\ \A v \in Pages : pt'[p][v].frame \in fresh \cup {NoFrame, NullFrame} /\ ~pt'[p][v].cow
         /\ \A v \in Pages : pt'[p][v].frame # table'[p]
    BY <2>3, <2>7, <2>8, <2>9, AddressSpaceConstants
  <2>11. \A v, w \in Pages :
            pt'[p][v].frame = pt'[p][w].frame /\ pt'[p][v].frame \in Frames => v = w
    <3> SUFFICES ASSUME NEW v \in Pages, NEW w \in Pages,
                        pt'[p][v].frame = pt'[p][w].frame, pt'[p][v].frame \in Frames
                 PROVE  v = w
      OBVIOUS
    <3>1. v \in need /\ w \in need
      BY <2>7, <2>8, AddressSpaceConstants
    <3>. QED BY <3>1, <2>5, <2>7, <2>8, AddressSpaceConstants
  <2>12. TypeOK'
    <3>1. pt' \in [Procs -> [Pages -> Entries]]
      <4>1. \A v \in Pages : (IF v \in need THEN LoadedEntry(prog, v, g[v]) ELSE Invalid) \in Entries
        BY <2>7, <2>9
      <4>. QED BY <4>1, <2>1, <2>2 DEF TypeOK
    <3>2. Reaped(p).ref \in [Frames -> Nat]
      BY <2>2, ReapedCounts
    <3>3. refcount' \in [Frames -> Nat] /\ allocated' \subseteq Frames
      BY <2>1, <2>2, <2>6, <3>2 DEF TypeOK
    <3>4. data' \in [Frames -> Values]
      <4>1. ASSUME NEW v \in copied PROVE SegmentOf(prog, v).contents \in Values
        <5>1. \E i \in Loaded(prog) : v \in MappedPages(prog[i])
          BY <4>1, <2>1 DEF NeedPages
        <5>2. PICK i \in Loaded(prog) : SegmentOf(prog, v) = prog[i]
          BY <5>1 DEF SegmentOf
        <5>3. prog \in Seq(ProgramHeaders) /\ i \in DOMAIN prog
          BY <5>2, AddressSpaceConstants DEF Loaded
        <5>4. prog[i] \in ProgramHeaders
          BY <5>3
        <5>. QED BY <5>2, <5>4 DEF ProgramHeaders
      <4>2. \A f \in Frames : (\E v \in copied : g[v] = f) => (CHOOSE v \in copied : g[v] = f) \in copied
        OBVIOUS
      <4>. QED BY <4>1, <4>2, <2>1, <2>2, AddressSpaceConstants DEF TypeOK, LoadedData
    <3>5. table' \in [Procs -> Frames \cup {NoFrame}]
      BY <2>1, <2>2, <2>3 DEF TypeOK
    <3>. QED BY <2>1, <2>2, <3>1, <3>3, <3>4, <3>5 DEF TypeOK
  <2>13. /\ \A f \in Frames : refcount'[f] = IF f \in fresh THEN 1 ELSE Reaped(p).ref[f]
         /\ allocated' = (allocated \ Reaped(p).freed) \cup fresh
         /\ fault' = fault /\ table'[p] \in fresh
    BY <2>1, <2>6, <2>8
  <2> HIDE DEF fresh
  <2>14. RefcountExact' /\ TablesPrivate' /\ SharedIsCow' /\ IdleHoldNothing' /\ CowIsMapped'
         /\ FaultHasImage'
    BY <2>2, <2>6, <2>8, <2>10, <2>11, <2>13, ReleaseKeeps, Zenon
  <2>. QED BY <2>12, <2>14 DEF AInv, SharingExact
<1>. QED BY <1>1, <1>2

LEMMA AInvInductive == AInv /\ [Next]_vars => AInv'
<1> SUFFICES ASSUME AInv, [Next]_vars PROVE AInv'
  OBVIOUS
<1>1. CASE UNCHANGED vars
  <2>1. TypeOK'
    BY <1>1 DEF AInv, SharingExact, TypeOK, vars
  <2>. QED BY <1>1, <2>1, TablesAlone DEF vars
<1>2. CASE Next
  <2>1. "read" \in Kinds
    BY DEF Kinds
  <2>2. PICK p \in Procs :
            \/ \E v \in Pages, k \in Kinds : Fault(p, v, k)
            \/ \E v \in Pages, k \in Kinds, x \in Values : Access(p, v, k, x)
            \/ \E v \in Pages, x \in Values : CopyToUser(p, v, x)
            \/ \E v \in Pages, prot \in Prots : Mmap(p, v, prot)
            \/ \E c \in Procs : Fork(p, c)
            \/ \E prog \in Programs : Exec(p, prog)
            \/ Exit(p)
    BY <1>2 DEF Next
  <2>3. ASSUME NEW v \in Pages, NEW k \in Kinds, Fault(p, v, k) PROVE AInv'
    BY <2>3, GenuineFaultKeeps, CowFaultKeeps, VmaFaultKeeps DEF Fault
  <2>4. ASSUME NEW v \in Pages, NEW k \in Kinds, NEW x \in Values, Access(p, v, k, x) PROVE AInv'
    BY <2>4, AccessKeeps
  <2>5. ASSUME NEW v \in Pages, NEW x \in Values, CopyToUser(p, v, x) PROVE AInv'
    BY <2>1, <2>5, AccessKeeps
  <2>. QED BY <2>2, <2>3, <2>4, <2>5, MmapKeeps, ForkKeeps, ExitKeeps, ExecKeeps
<1>. QED BY <1>1, <1>2

\* Whatever the processes do, the reference counts are exact, the page tables
\* private and every shared page copy-on-write.
THEOREM SharingCorrect == Spec => []SharingExact
<1>1. AInv => SharingExact
  BY DEF AInv
<1>. QED BY <1>1, InitAInv, AInvInductive, PTL DEF Spec
-----------------------------------------------------------------------------
(***************************************************************************)
(* The refinement: every action is a step of PrivateMemory, or changes     *)
(* nothing that a program sees.                                            *)
(***************************************************************************)
Seen == <<UserMemory, LiveProcs, BusyProcs>>

\* One page of one process changes.
LEMMA OnePage ==
    ASSUME NEW p \in Procs, NEW v \in Pages, NEW x, Contents(pt[p][v])' = x,
           \A q \in Procs, w \in Pages :
               q # p \/ w # v => Contents(pt[q][w])' = Contents(pt[q][w])
    PROVE  UserMemory' = [UserMemory EXCEPT ![p][v] = x]
BY DEF UserMemory

\* All of one process changes.
LEMMA OneProcess ==
    ASSUME NEW p \in Procs, NEW image, image = [v \in Pages |-> Contents(pt[p][v])'],
           \A q \in Procs, w \in Pages : q # p => Contents(pt[q][w])' = Contents(pt[q][w])
    PROVE  UserMemory' = [UserMemory EXCEPT ![p] = image]
BY DEF UserMemory

LEMMA NoPage ==
    ASSUME \A q \in Procs, w \in Pages : Contents(pt[q][w])' = Contents(pt[q][w])
    PROVE  UserMemory' = UserMemory
BY DEF UserMemory

LEMMA SeenUnchanged ==
    ASSUME UNCHANGED <<pt, data, state, fault>>
    PROVE  UNCHANGED Seen
BY DEF Seen, UserMemory, LiveProcs, BusyProcs, Contents

\* The access of p is served, or begins.
LEMMA BusyAfter ==
    ASSUME TypeOK, NEW p \in Procs
    PROVE  /\ fault' = [fault EXCEPT ![p] = NoFault] => BusyProcs' = BusyProcs \ {p}
           /\ \A v \in Pages, k \in Kinds :
                 fault' = [fault EXCEPT ![p] = <<v, k>>] => BusyProcs' = BusyProcs \cup {p}
<1>1. fault \in [Procs -> {NoFault} \cup (Pages \X Kinds)]
  BY DEF TypeOK
<1>2. \A v, k : <<v, k>> # NoFault
  BY DEF NoFault
<1>3. ASSUME fault' = [fault EXCEPT ![p] = NoFault] PROVE BusyProcs' = BusyProcs \ {p}
  BY <1>1, <1>3 DEF BusyProcs
<1>4. ASSUME NEW v \in Pages, NEW k \in Kinds, fault' = [fault EXCEPT ![p] = <<v, k>>]
      PROVE  BusyProcs' = BusyProcs \cup {p}
  <2>1. fault'[p] # NoFault /\ \A q \in Procs \ {p} : fault'[q] = fault[q]
    BY <1>1, <1>2, <1>4
  <2>. QED BY <2>1 DEF BusyProcs
<1>. QED BY <1>3, <1>4

\* A write to a page that the process may write is seen by nobody else.
LEMMA WriteIsPrivate ==
    ASSUME AInv, NEW p \in Procs, NEW v \in Pages, NEW x \in Values,
           Permitted(pt[p][v], "write"), pt' = pt,
           data' = [data EXCEPT ![pt[p][v].frame] = x]
    PROVE  /\ UserMemory' = [UserMemory EXCEPT ![p][v] = x]
           /\ UserMemory[p][v] # NoFrame
<1> DEFINE f == pt[p][v].frame
<1>1. f \in Frames /\ pt[p][v].ap = "RW" /\ data \in [Frames -> Values]
  BY DEF Permitted, AInv, SharingExact, TypeOK
<1>2. \A q \in Procs, w \in Pages : q # p \/ w # v => pt[q][w].frame # f
  BY <1>1, Parts DEF AInv, SharingExact, CowIn
<1>3. Contents(pt[p][v])' = x
  BY <1>1 DEF Contents
<1>4. \A q \in Procs, w \in Pages : q # p \/ w # v => Contents(pt[q][w])' = Contents(pt[q][w])
  BY <1>1, <1>2 DEF Contents
<1>5. UserMemory[p][v] # NoFrame
  BY <1>1, AddressSpaceConstants DEF UserMemory, Contents
<1>. QED BY <1>3, <1>4, <1>5, OnePage

LEMMA AccessRefines ==
    ASSUME AInv, NEW p \in Procs, NEW v \in Pages, NEW k \in Kinds, NEW x \in Values,
           Access(p, v, k, x)
    PROVE  Memory!Next
<1>1. /\ p \in LiveProcs /\ LiveProcs' = LiveProcs /\ pt' = pt
      /\ fault' = [fault EXCEPT ![p] = NoFault] /\ TypeOK
  BY DEF Access, LiveProcs, AInv, SharingExact
<1>2. BusyProcs' = BusyProcs \ {p}
  BY <1>1, BusyAfter
<1>3. CASE k = "write"
  <2>1. Permitted(pt[p][v], "write") /\ data' = [data EXCEPT ![pt[p][v].frame] = x]
    BY <1>3 DEF Access
  <2>2. /\ UserMemory' = [UserMemory EXCEPT ![p][v] = x]
        /\ UserMemory[p][v] # NoFrame
    BY <1>1, <2>1, WriteIsPrivate
  <2>3. Memory!Write(p, v, x)
    BY <1>1, <1>2, <2>2 DEF Memory!Write
  <2>. QED BY <2>3 DEF Memory!Next
<1>4. CASE k # "write"
  <2>1. UserMemory' = UserMemory
    BY <1>1, <1>4 DEF Access, UserMemory, Contents
  <2>2. Memory!Read(p)
    BY <1>1, <1>2, <2>1 DEF Memory!Read
  <2>. QED BY <2>2 DEF Memory!Next
<1>. QED BY <1>3, <1>4

LEMMA CopyRefines ==
    ASSUME AInv, NEW p \in Procs, NEW v \in Pages, NEW x \in Values, CopyToUser(p, v, x)
    PROVE  Memory!Next \/ UNCHANGED Seen
<1>1. CASE Hang
  BY <1>1, SeenUnchanged DEF Hang
<1>2. CASE ~Hang
  <2>1. /\ Permitted(pt[p][v], "write") /\ data' = [data EXCEPT ![pt[p][v].frame] = x]
        /\ pt' = pt /\ state' = state /\ fault' = fault /\ p \in LiveProcs /\ fault[p] = NoFault
    BY <1>2 DEF CopyToUser, Ready, LiveProcs
  <2>2. /\ UserMemory' = [UserMemory EXCEPT ![p][v] = x]
        /\ UserMemory[p][v] # NoFrame
    BY <2>1, WriteIsPrivate
  <2>3. LiveProcs' = LiveProcs /\ BusyProcs' = BusyProcs \ {p}
    BY <2>1 DEF LiveProcs, BusyProcs
  <2>4. Memory!Write(p, v, x)
    BY <2>1, <2>2, <2>3 DEF Memory!Write
  <2>. QED BY <2>4 DEF Memory!Next
<1>. QED BY <1>1, <1>2

LEMMA CowFaultRefines ==
    ASSUME AInv, NEW p \in Procs, NEW v \in Pages, NEW k \in Kinds, CowFault(p, v, k)
    PROVE  Memory!Next \/ UNCHANGED Seen
<1>1. CASE Hang
  BY <1>1, SeenUnchanged DEF Hang
<1>2. CASE ~Hang
  <2> DEFINE old  == pt[p][v].frame
             sole == Sole(old)
  <2>1. PICK new \in BuddyAlloc :
          /\ new # NullFrame
          /\ data' = CopyPage(old, new)
          /\ pt' = [pt EXCEPT ![p][v] = [frame |-> new, ap |-> IF sole THEN "RW" ELSE @.ap,
                                         cow |-> ~sole]]
          /\ fault' = [fault EXCEPT ![p] = <<v, k>>]
          /\ state' = state
    BY <1>2 DEF CowFault
  <2>2. TypeOK /\ p \in LiveProcs /\ old \in Frames /\ new \in Frames \ allocated
    BY <2>1, BuddyAllocResult
       DEF CowFault, Faults, CheckCow, AInv, SharingExact, CowIsMapped, LiveProcs
  <2>3. \A q \in Procs, w \in Pages : pt[q][w].frame # new
    BY <2>2, FreshFrame
  <2>4. /\ pt'[p][v].frame = new
        /\ \A q \in Procs, w \in Pages : q # p \/ w # v => pt'[q][w] = pt[q][w]
    BY <2>1, <2>2 DEF TypeOK
  <2>5. \A f \in Frames : data'[f] = IF f = new THEN data[old] ELSE data[f]
    BY <2>1, <2>2 DEF TypeOK, CopyPage
  <2>6. Contents(pt[p][v])' = Contents(pt[p][v])
    BY <2>2, <2>4, <2>5 DEF Contents
  <2>7. \A q \in Procs, w \in Pages : Contents(pt[q][w])' = Contents(pt[q][w])
    BY <2>3, <2>4, <2>5, <2>6 DEF Contents
  <2>8. UserMemory' = UserMemory
    BY <2>7, NoPage
  <2>9. LiveProcs' = LiveProcs /\ BusyProcs' = BusyProcs \cup {p}
    BY <2>1, <2>2, BusyAfter DEF LiveProcs
  <2>10. Memory!Begin(p)
    BY <2>2, <2>8, <2>9 DEF Memory!Begin
  <2>. QED BY <2>10 DEF Memory!Next
<1>. QED BY <1>1, <1>2

LEMMA VmaFaultRefines ==
    ASSUME AInv, NEW p \in Procs, NEW v \in Pages, NEW k \in Kinds, VmaFault(p, v, k)
    PROVE  Memory!Next
<1>1. PICK new \in BuddyAlloc : pt' = [pt EXCEPT ![p][v] = MapPages(@, new, vma[p][v])]
  BY DEF VmaFault
<1>2. /\ TypeOK /\ p \in LiveProcs /\ LiveProcs' = LiveProcs /\ data' = data
      /\ fault' = [fault EXCEPT ![p] = <<v, k>>]
  BY DEF VmaFault, Faults, AInv, SharingExact, LiveProcs
<1>3. BusyProcs' = BusyProcs \cup {p}
  BY <1>2, BusyAfter
<1>4. /\ pt'[p][v] = MapPages(pt[p][v], new, vma[p][v])
      /\ \A q \in Procs, w \in Pages : q # p \/ w # v => pt'[q][w] = pt[q][w]
  BY <1>1, <1>2 DEF TypeOK
<1>5. \A q \in Procs, w \in Pages : q # p \/ w # v => Contents(pt[q][w])' = Contents(pt[q][w])
  BY <1>2, <1>4 DEF Contents
<1>6. CASE Contents(pt[p][v])' = Contents(pt[p][v])
  <2>1. UserMemory' = UserMemory
    BY <1>5, <1>6, NoPage
  <2>2. Memory!Begin(p)
    BY <1>2, <1>3, <2>1 DEF Memory!Begin
  <2>. QED BY <2>2 DEF Memory!Next
<1>7. CASE Contents(pt[p][v])' # Contents(pt[p][v])
  <2>1. pt[p][v].frame = NoFrame /\ pt'[p][v].frame = new
    BY <1>2, <1>4, <1>7 DEF MapPages, Valid, Contents
  <2>2. new \in Frames
    BY <1>7, <2>1, AddressSpaceConstants DEF Contents
  <2>3. data[new] \in Values /\ Contents(pt[p][v])' = data[new]
    BY <1>2, <2>1, <2>2 DEF Contents, TypeOK
  <2>4. UserMemory[p][v] = NoFrame
    BY <2>1, AddressSpaceConstants DEF UserMemory, Contents
  <2>5. UserMemory' = [UserMemory EXCEPT ![p][v] = data[new]]
    BY <1>5, <2>3, OnePage
  <2>6. Memory!Touch(p, v, data[new])
    BY <1>2, <1>3, <2>4, <2>5 DEF Memory!Touch
  <2>. QED BY <2>3, <2>6 DEF Memory!Next
<1>. QED BY <1>6, <1>7

LEMMA ForkRefines ==
    ASSUME AInv, NEW p \in Procs, NEW c \in Procs, Fork(p, c)
    PROVE  Memory!Next \/ UNCHANGED Seen
<1>1. CASE Hang
  BY <1>1, SeenUnchanged DEF Hang
<1>2. CASE ~Hang
  <2> DEFINE shared == [v \in Pages |-> CowEntry(pt[p][v])]
  <2>1. PICK new \in BuddyAlloc :
          /\ new # NullFrame
          /\ state' = [state EXCEPT ![c] = "live"]
          /\ pt' = [pt EXCEPT ![p] = shared, ![c] = shared]
          /\ data' = [data EXCEPT ![new] = Zero]
          /\ fault' = fault
    BY <1>2 DEF Fork
  <2>2. /\ TypeOK /\ state[p] = "live" /\ state[c] = "unused" /\ p # c /\ fault[p] = NoFault
        /\ new \in Frames \ allocated
    BY <2>1, BuddyAllocResult DEF Fork, Ready, AInv, SharingExact
  <2>3. /\ \A v \in Pages : pt'[p][v] = CowEntry(pt[p][v]) /\ pt'[c][v] = CowEntry(pt[p][v])
        /\ \A q \in Procs \ {p, c}, v \in Pages : pt'[q][v] = pt[q][v]
        /\ \A q \in Procs, v \in Pages : pt[q][v].frame # new
    BY <2>1, <2>2, FreshFrame DEF TypeOK
  <2>4. \A e \in Entries : CowEntry(e).frame = e.frame
    BY DEF CowEntry, Entries, Valid
  <2>5. \A q \in Procs, v \in Pages :
            Contents(pt[q][v])' = Contents(IF q = c THEN pt[p][v] ELSE pt[q][v])
    <3> TAKE q \in Procs, v \in Pages
    <3> DEFINE e == IF q = c THEN pt[p][v] ELSE pt[q][v]
    <3>1. pt'[q][v].frame = e.frame
      BY <2>2, <2>3, <2>4 DEF TypeOK
    <3>2. \A f \in Frames : f # new => data'[f] = data[f]
      BY <2>1, <2>2 DEF TypeOK
    <3>3. e.frame # new
      BY <2>3
    <3> HIDE DEF e
    <3>4. Contents(pt[q][v])' = Contents(e)
      BY <3>1, <3>2, <3>3 DEF Contents
    <3>. QED BY <3>4 DEF e
  <2>6. UserMemory' = [UserMemory EXCEPT ![c] = UserMemory[p]]
    <3>1. \A v \in Pages : Contents(pt[c][v])' = Contents(pt[p][v])
      BY <2>5
    <3>2. \A q \in Procs, w \in Pages : q # c => Contents(pt[q][w])' = Contents(pt[q][w])
      BY <2>5
    <3>3. UserMemory[p] = [v \in Pages |-> Contents(pt[c][v])']
      BY <3>1 DEF UserMemory
    <3>. QED BY <3>2, <3>3, OneProcess
  <2>7. UserMemory[c] = Memory!Untouched
    BY <2>2, AddressSpaceConstants DEF AInv, IdleHoldNothing, UserMemory, Contents, Memory!Untouched
  <2>8. /\ LiveProcs' = LiveProcs \cup {c} /\ c \notin LiveProcs
        /\ BusyProcs' = BusyProcs /\ p \in LiveProcs \ BusyProcs
    BY <2>1, <2>2 DEF LiveProcs, BusyProcs, TypeOK
  <2>9. Memory!Fork(p, c)
    BY <2>6, <2>7, <2>8 DEF Memory!Fork
  <2>. QED BY <2>9 DEF Memory!Next
<1>. QED BY <1>1, <1>2

LEMMA ExitRefines ==
    ASSUME AInv, NEW p \in Procs, Exit(p)
    PROVE  Memory!Next \/ UNCHANGED Seen
<1>1. CASE Hang
  BY <1>1, SeenUnchanged DEF Hang
<1>2. CASE ~Hang
  <2>1. /\ state' = [state EXCEPT ![p] = "terminated"]
        /\ pt' = [pt EXCEPT ![p] = [v \in Pages |-> Invalid]]
        /\ data' = data /\ fault' = fault
        /\ TypeOK /\ state[p] = "live" /\ fault[p] = NoFault
    BY <1>2 DEF Exit, Ready, AInv, SharingExact
  <2>2. /\ \A v \in Pages : pt'[p][v].frame = NoFrame
        /\ \A q \in Procs, v \in Pages : q # p => pt'[q][v] = pt[q][v]
    BY <2>1 DEF TypeOK, Invalid
  <2>3. \A v \in Pages : Contents(pt[p][v])' = NoFrame
    BY <2>2, AddressSpaceConstants DEF Contents
  <2>4. \A q \in Procs, v \in Pages : q # p => Contents(pt[q][v])' = Contents(pt[q][v])
    BY <2>1, <2>2 DEF Contents
  <2>5. Memory!Untouched = [v \in Pages |-> Contents(pt[p][v])']
    BY <2>3 DEF Memory!Untouched
  <2>6. UserMemory' = [UserMemory EXCEPT ![p] = Memory!Untouched]
    BY <2>4, <2>5, OneProcess
  <2>7. /\ LiveProcs' = LiveProcs \ {p} /\ BusyProcs' = BusyProcs /\ p \in LiveProcs \ BusyProcs
    BY <2>1 DEF LiveProcs, BusyProcs, TypeOK
  <2>8. Memory!Exit(p)
    BY <2>6, <2>7 DEF Memory!Exit
  <2>. QED BY <2>8 DEF Memory!Next
<1>. QED BY <1>1, <1>2

LEMMA ExecRefines ==
    ASSUME AInv, TypeOK', NEW p \in Procs, NEW prog \in Programs, Exec(p, prog)
    PROVE  Memory!Next \/ UNCHANGED Seen
<1>1. CASE Hang
  BY <1>1, SeenUnchanged DEF Hang
<1>2. CASE ~Hang
  <2> DEFINE need   == NeedPages(prog)
             copied == CopiedPages(prog)
             image  == [v \in Pages |-> Contents(pt[p][v])']
  <2>1. PICK tab \in BuddyAlloc : \E g \in Layouts(need, tab) :
          /\ tab # NullFrame
          /\ \A v \in copied : v \in need /\ g[v] # NullFrame
          /\ Load(p, prog, tab, g)
    BY <1>2 DEF Exec
  <2>2. PICK g \in Layouts(need, tab) :
          /\ \A v \in copied : v \in need /\ g[v] # NullFrame
          /\ Load(p, prog, tab, g)
    BY <2>1
  <2>3. /\ TypeOK /\ state' = state /\ fault' = fault /\ fault[p] = NoFault /\ state[p] = "live"
    BY <2>2 DEF Exec, Ready, AInv, SharingExact, FaultHasImage, Load
  <2>4. tab \in Frames \ allocated
    BY <2>1, BuddyAllocResult
  <2>5. g \in [need -> (Frames \ (allocated \cup {tab})) \cup {NullFrame}]
    BY DEF Layouts
  <2>6. \A f \in allocated : data'[f] = data[f]
    <3> SUFFICES ASSUME NEW f \in allocated PROVE data'[f] = data[f]
      OBVIOUS
    <3>1. f # tab /\ f \in Frames /\ \A v \in copied : g[v] # f
      BY <2>2, <2>3, <2>4, <2>5 DEF TypeOK
    <3>2. data' = LoadedData(prog, tab, g)
      BY <2>2 DEF Load
    <3>. QED BY <3>1, <3>2 DEF LoadedData
  <2>7. \A q \in Procs, v \in Pages : q # p => pt'[q][v] = pt[q][v]
    BY <2>2, <2>3 DEF Load, TypeOK
  <2>8. \A q \in Procs, v \in Pages : pt[q][v].frame \in Frames => pt[q][v].frame \in allocated
    <3> SUFFICES ASSUME NEW q \in Procs, NEW v \in Pages, pt[q][v].frame \in Frames \ allocated
                 PROVE  FALSE
      OBVIOUS
    <3>. QED BY FreshFrame
  <2>9. \A q \in Procs, v \in Pages : q # p => Contents(pt[q][v])' = Contents(pt[q][v])
    BY <2>6, <2>7, <2>8 DEF Contents
  <2>10. UserMemory' = [UserMemory EXCEPT ![p] = image]
    BY <2>9, OneProcess
  <2>11. image \in [Pages -> Values \cup {NoFrame}]
    <3>1. \A v \in Pages : Contents(pt[p][v])' \in Values \cup {NoFrame}
      BY DEF TypeOK, Contents
    <3>. QED BY <3>1
  <2>12. /\ LiveProcs' = LiveProcs /\ BusyProcs' = BusyProcs /\ p \in LiveProcs \ BusyProcs
    BY <2>3 DEF LiveProcs, BusyProcs
  <2> HIDE DEF image
  <2>13. Memory!Exec(p, image)
    BY <2>10, <2>12 DEF Memory!Exec
  <2>. QED BY <2>11, <2>13 DEF Memory!Next
<1>. QED BY <1>1, <1>2

\* Copy-on-write is invisible: the address spaces implement a memory of its
\* own for every process, whatever is shared.
THEOREM ImplementsPrivateMemory == Spec => MemoryIsPrivate
<1>1. Init => Memory!Init
  <2> SUFFICES ASSUME Init PROVE Memory!Init
    OBVIOUS
  <2>1. \A p \in Procs, v \in Pages : Contents(pt[p][v]) = NoFrame
    BY AddressSpaceConstants DEF Init, Contents, Invalid
  <2>2. UserMemory = [p \in Procs |-> Memory!Untouched]
    BY <2>1 DEF UserMemory, Memory!Untouched
  <2>3. LiveProcs = {Shell} /\ BusyProcs = {}
    BY AddressSpaceConstants DEF Init, LiveProcs, BusyProcs
  <2>. QED BY <2>2, <2>3, AddressSpaceConstants DEF Memory!Init
<1>2. ASSUME AInv, AInv', [Next]_vars PROVE [Memory!Next]_<<UserMemory, LiveProcs, BusyProcs>>
  <2>0. SUFFICES Memory!Next \/ UNCHANGED Seen
    BY DEF Seen
  <2>1. CASE UNCHANGED vars
    BY <2>1, SeenUnchanged DEF vars
  <2>2. CASE Next
    <3>1. PICK p \in Procs :
            \/ \E v \in Pages, k \in Kinds : Fault(p, v, k)
            \/ \E v \in Pages, k \in Kinds, x \in Values : Access(p, v, k, x)
            \/ \E v \in Pages, x \in Values : CopyToUser(p, v, x)
            \/ \E v \in Pages, prot \in Prots : Mmap(p, v, prot)
            \/ \E c \in Procs : Fork(p, c)
            \/ \E prog \in Programs : Exec(p, prog)
            \/ Exit(p)
      BY <2>2 DEF Next
    <3>2. ASSUME NEW v \in Pages, NEW k \in Kinds, Fault(p, v, k)
          PROVE  Memory!Next \/ UNCHANGED Seen
      <4>1. CASE GenuineFault(p, v, k)
        BY <4>1, SeenUnchanged DEF GenuineFault
      <4>. QED BY <1>2, <3>2, <4>1, CowFaultRefines, VmaFaultRefines DEF Fault
    <3>3. ASSUME NEW v \in Pages, NEW prot \in Prots, Mmap(p, v, prot) PROVE UNCHANGED Seen
      BY <3>3, SeenUnchanged DEF Mmap
    <3>4. ASSUME NEW prog \in Programs, Exec(p, prog) PROVE Memory!Next \/ UNCHANGED Seen
      BY <1>2, <3>4, ExecRefines DEF AInv, SharingExact
    <3>. QED BY <1>2, <3>1, <3>2, <3>3, <3>4, AccessRefines, CopyRefines, ForkRefines, ExitRefines
  <2>. QED BY <1>2, <2>1, <2>2
<1>3. Spec => []AInv
  BY InitAInv, AInvInductive, PTL DEF Spec
<1>. QED BY <1>1, <1>2, <1>3, PTL DEF Spec, MemoryIsPrivate, Memory!Spec
=============================================================================
