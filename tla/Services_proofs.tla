---------------------------- MODULE Services_proofs ----------------------------
(***************************************************************************)
(* What fork, brk and open keep of the tables of descriptors and of the    *)
(* VMAs, for any number of processes, descriptors, VMAs and files: the     *)
(* inductive invariants have the types, and that descriptors and lists     *)
(* name objects that were made, so that a fresh one is in nobody's table.  *)
(* Then the kernel's page tables, as map_high lays them and map keeps      *)
(* them, the keyboard's ring, whose wrapping counters lose and repeat no   *)
(* key, open and read of a disk, and the trie of the device paths.         *)
(* HasLeast and MinIsMember are lemmas of Mutex_proofs.                    *)
(***************************************************************************)
EXTENDS ProcessTables, KeyRing, BootMapping, Ext4Reader, Trie, Mutex_proofs,
        WellFoundedInduction, FiniteSetTheorems, SequenceTheorems, TLAPS
-----------------------------------------------------------------------------
(* heap_vma points at a file object. *)
IsFile(h) == h # NoHeap /\ h[1] = "file"

Pointers == {NoHeap} \cup ({"vma"} \X VmaIds) \cup ({"file"} \X FileIds)

LEMMA PointerKinds ==
    /\ ~IsFile(NoHeap)
    /\ \A v \in VmaIds : <<"vma", v>> \in Pointers /\ ~IsFile(<<"vma", v>>)
    /\ \A f \in FileIds : <<"file", f>> \in Pointers
  BY DEF IsFile, Pointers

TablesTyped ==
    /\ heap \in [Procs -> Pointers]
    /\ fds \in [Procs -> [Fds -> FileIds \cup {NULL}]]

(* FreshFiles, FreshVmas and the free inode objects yield an object. *)
LEMMA FreshIsObject ==
    /\ FreshFiles # {} => Min(FreshFiles) \in FreshFiles
    /\ FreshVmas # {} => Min(FreshVmas) \in FreshVmas
  <1>1. FreshFiles \in SUBSET Nat /\ FreshVmas \in SUBSET Nat
    BY ProcessTablesAssumption DEF FreshFiles, FreshVmas, FileIds, VmaIds
  <1> QED
    BY <1>1, MinIsMember

(* fd_alloc returns a free descriptor, or -1 when there is none. *)
LEMMA FdAllocFree ==
    ASSUME NEW p \in Procs
    PROVE  IF FreeFds(p) = {} THEN FdAlloc(p) = -1
           ELSE FdAlloc(p) \in FreeFds(p) /\ FdAlloc(p) \in Fds /\ FdAlloc(p) # -1
  <1>1. FreeFds(p) \in SUBSET Nat
    BY ProcessTablesAssumption DEF FreeFds, Fds
  <1>2. FreeFds(p) # {} => Min(FreeFds(p)) \in FreeFds(p)
    BY <1>1, MinIsMember
  <1>3. FreeFds(p) \subseteq Fds /\ -1 \notin Fds
    BY ProcessTablesAssumption DEF FreeFds, Fds
  <1> QED
    BY <1>2, <1>3 DEF FdAlloc

TableInv == TablesTyped /\ HeapOverwrittenOnlyWhenFull

LEMMA TableInvSays ==
    HeapOverwrittenOnlyWhenFull <=> \A p \in Procs : IsFile(heap[p]) => FreeFds(p) = {}
  BY DEF HeapOverwrittenOnlyWhenFull, IsFile

(* The end of sys_open keeps the invariant, for a file object f. *)
LEMMA InstallKeeps ==
    ASSUME TableInv, NEW p \in Procs, NEW f \in FileIds, Install(p, f)
    PROVE  TableInv'
  <1>1. f # NULL
    BY ProcessTablesAssumption DEF FileIds, NULL
  <1>2. CASE FreeFds(p) = {}
    <2>1. heap' = [heap EXCEPT ![p] = <<"file", f>>] /\ fds' = fds
      BY <1>2, FdAllocFree DEF Install
    <2>2. TablesTyped'
      BY <2>1, PointerKinds DEF TableInv, TablesTyped
    <2>3. \A r \in Procs : IsFile(heap'[r]) => FreeFds(r)' = {}
      BY <1>2, <2>1, TableInvSays DEF TableInv, TablesTyped, FreeFds
    <2> QED
      BY <2>2, <2>3 DEF TableInv, HeapOverwrittenOnlyWhenFull, IsFile
  <1>3. CASE FreeFds(p) # {}
    <2>0. FdAlloc(p) \in Fds /\ FdAlloc(p) # -1
      BY <1>3, FdAllocFree
    <2>1. heap' = heap /\ fds' = [fds EXCEPT ![p][FdAlloc(p)] = f]
      BY <2>0 DEF Install
    <2>2. TablesTyped'
      BY <2>0, <2>1 DEF TableInv, TablesTyped
    <2>3. \A r \in Procs : FreeFds(r)' \subseteq FreeFds(r)
      BY <1>1, <2>0, <2>1 DEF TableInv, TablesTyped, FreeFds
    <2>4. \A r \in Procs : IsFile(heap'[r]) => FreeFds(r)' = {}
      BY <2>1, <2>3, TableInvSays DEF TableInv
    <2> QED
      BY <2>2, <2>4 DEF TableInv, HeapOverwrittenOnlyWhenFull, IsFile
  <1> QED
    BY <1>2, <1>3

LEMMA TableInvUnchanged ==
    ASSUME TableInv, UNCHANGED <<heap, fds>>
    PROVE  TableInv'
  BY DEF TableInv, TablesTyped, HeapOverwrittenOnlyWhenFull, FreeFds

LEMMA TableInvInit == Init => TableInv
  <1> SUFFICES ASSUME Init PROVE TableInv
    OBVIOUS
  <1>1. TablesTyped
    <2>1. \A i \in Fds : i < 3 => i + 1 \in FileIds
      BY ProcessTablesAssumption DEF Fds, FileIds
    <2> QED
      BY <2>1 DEF Init, TablesTyped, Pointers, NULL
  <1>2. \A p \in Procs : ~IsFile(heap[p])
    BY PointerKinds DEF Init
  <1> QED
    BY <1>1, <1>2, TableInvSays DEF TableInv

LEMMA TableInvNext == TableInv /\ [Next]_vars => TableInv'
  <1> SUFFICES ASSUME TableInv, [Next]_vars PROVE TableInv'
    OBVIOUS
  <1>1. ASSUME NEW p \in Procs, NEW q \in Procs, Fork(p, q)
        PROVE  TableInv'
    <2>1. heap' = [heap EXCEPT ![q] = heap[p]] /\ fds' = [fds EXCEPT ![q] = fds[p]]
      BY <1>1 DEF Fork
    <2>2. TablesTyped'
      BY <2>1 DEF TableInv, TablesTyped
    <2>3. \A r \in Procs : IsFile(heap'[r]) => FreeFds(r)' = {}
      BY <2>1, TableInvSays DEF TableInv, TablesTyped, FreeFds
    <2> QED
      BY <2>2, <2>3 DEF TableInv, HeapOverwrittenOnlyWhenFull, IsFile
  <1>2. ASSUME NEW p \in Procs, NEW a \in Addresses, Brk(p, a)
        PROVE  TableInv'
    <2>1. CASE heap[p] = NoHeap
      <3>1. Min(FreshVmas) \in VmaIds
        BY <1>2, <2>1, FreshIsObject DEF Brk, FreshVmas
      <3>2. heap' = [heap EXCEPT ![p] = <<"vma", Min(FreshVmas)>>] /\ fds' = fds
        BY <1>2, <2>1 DEF Brk
      <3>3. TablesTyped'
        BY <3>1, <3>2, PointerKinds DEF TableInv, TablesTyped
      <3>4. \A r \in Procs : IsFile(heap'[r]) => FreeFds(r)' = {}
        BY <3>1, <3>2, PointerKinds, TableInvSays DEF TableInv, TablesTyped, FreeFds
      <3> QED
        BY <3>3, <3>4 DEF TableInv, HeapOverwrittenOnlyWhenFull, IsFile
    <2>2. CASE heap[p] # NoHeap
      BY <1>2, <2>2, TableInvUnchanged DEF Brk
    <2> QED
      BY <2>1, <2>2
  <1>3. ASSUME NEW p \in Procs, NEW dev \in Devices, OpenDevice(p, dev)
        PROVE  TableInv'
    <2>1. CASE dev = "fb0"
      BY <1>3, <2>1, TableInvUnchanged DEF OpenDevice, Hang
    <2>2. CASE dev # "fb0"
      BY <1>3, <2>2, FreshIsObject, InstallKeeps DEF OpenDevice, DeviceFile, FreshFiles
    <2> QED
      BY <2>1, <2>2
  <1>4. ASSUME NEW p \in Procs, NEW n \in Inodes, OpenDisk(p, n)
        PROVE  TableInv'
    BY <1>4, FreshIsObject, InstallKeeps DEF OpenDisk, DiskFile, FreshFiles
  <1>5. ASSUME NEW p \in Procs,
               \/ \E r \in Regions, prot \in Prots : Mmap(p, r[1], r[2], prot)
               \/ OpenMissing(p)
               \/ \E n \in Inodes, b \in Breaks : Execve(p, n, b)
               \/ \E i \in Fds : UseDisk(p, i) \/ \E s \in Slaves : Ioctl(p, i, s)
        PROVE  TableInv'
    BY <1>5, TableInvUnchanged DEF Mmap, OpenMissing, Execve, UseDisk, Hang, Ioctl
  <1>6. CASE UNCHANGED vars
    BY <1>6, TableInvUnchanged DEF vars
  <1> QED
    BY <1>1, <1>2, <1>3, <1>4, <1>5, <1>6 DEF Next

(* heap_vma points at a file only in a process whose table of descriptors  *)
(* is full, in every interleaving of fork, brk and open (fd_alloc and      *)
(* sys_open), for any sizes of the tables.                                 *)
THEOREM HeapIsKept == Spec => []HeapOverwrittenOnlyWhenFull
  <1>1. TableInv => HeapOverwrittenOnlyWhenFull
    BY DEF TableInv
  <1> QED
    BY TableInvInit, TableInvNext, <1>1, PTL DEF Spec
-----------------------------------------------------------------------------
(* A descriptor in use names an object that open has made; a descriptor    *)
(* from open is in use; an unused PCB has none.                            *)
UsedIsMade == \A p \in Procs, i \in Fds : fds[p][i] # NULL => file[fds[p][i]].ops # "none"
OwnIsSet == \A p \in Procs : own[p] \subseteq Fds /\ \A i \in own[p] : fds[p][i] # NULL
UnusedOwnsNone == \A p \in Procs : parent[p] = NULL => own[p] = {}

FilesTyped ==
    /\ parent \in [Procs -> Procs \cup {NULL}]
    /\ fds \in [Procs -> [Fds -> FileIds \cup {NULL}]]
    /\ DOMAIN file = FileIds /\ file = [f \in FileIds |-> file[f]]
    /\ \A f \in FileIds : file[f] = [ops |-> file[f].ops, data |-> file[f].data]
    /\ DOMAIN own = Procs /\ own = [p \in Procs |-> own[p]]

FilesInv == FilesTyped /\ UsedIsMade /\ OwnIsSet /\ UnusedOwnsNone /\ OpensAreSeparate

(* open fills a fresh object f and installs it. *)
LEMMA OpenKeeps ==
    ASSUME FilesInv, NEW p \in Procs, NEW f \in FreshFiles, NEW ops, NEW data,
           ops # "none", parent[p] # NULL, parent' = parent,
           file' = [file EXCEPT ![f] = [ops |-> ops, data |-> data]],
           Install(p, f)
    PROVE  FilesInv'
  <1> DEFINE k == FdAlloc(p)
  <1>0. f \in FileIds /\ file[f].ops = "none" /\ f # NULL
    BY ProcessTablesAssumption DEF FreshFiles, FileIds, NULL
  <1>1. \A g \in FileIds : file'[g] = IF g = f THEN [ops |-> ops, data |-> data] ELSE file[g]
    BY <1>0 DEF FilesInv, FilesTyped
  <1>2. \A r \in Procs, i \in Fds : fds[r][i] # f
    BY <1>0 DEF FilesInv, UsedIsMade
  <1>3. file'[f].ops # "none" /\ \A g \in FileIds : g # f => file'[g].ops = file[g].ops
    BY <1>0, <1>1
  <1>4. /\ DOMAIN file' = FileIds /\ file' = [g \in FileIds |-> file'[g]]
        /\ \A g \in FileIds : file'[g] = [ops |-> file'[g].ops, data |-> file'[g].data]
    <2>1. DOMAIN file' = FileIds /\ file' = [g \in FileIds |-> file'[g]]
      BY <1>0 DEF FilesInv, FilesTyped
    <2>2. \A g \in FileIds : file[g] = [ops |-> file[g].ops, data |-> file[g].data]
      BY DEF FilesInv, FilesTyped
    <2> QED
      BY <1>1, <2>1, <2>2
  <1>5. CASE FreeFds(p) = {}
    <2>1. fds' = fds /\ own' = own
      BY <1>5, FdAllocFree DEF Install
    <2> QED
      BY <2>1, <1>2, <1>3, <1>4 DEF FilesInv, FilesTyped, UsedIsMade, OwnIsSet,
         UnusedOwnsNone, OpensAreSeparate
  <1>6. CASE FreeFds(p) # {}
    <2>1. k \in Fds /\ k # -1
      BY <1>6, FdAllocFree
    <2>2. /\ fds' = [fds EXCEPT ![p][k] = f]
          /\ own' = [own EXCEPT ![p] = @ \cup {k}]
      BY <2>1 DEF Install
    <2>3. \A r \in Procs, i \in Fds : fds'[r][i] = IF r = p /\ i = k THEN f ELSE fds[r][i]
      BY <2>1, <2>2 DEF FilesInv, FilesTyped
    <2>4. \A r \in Procs : own'[r] = IF r = p THEN own[r] \cup {k} ELSE own[r]
      BY <2>2 DEF FilesInv, FilesTyped
    <2>5. FilesTyped'
      <3>1. fds' \in [Procs -> [Fds -> FileIds \cup {NULL}]]
        BY <1>0, <2>1, <2>2 DEF FilesInv, FilesTyped
      <3>2. DOMAIN own' = Procs /\ own' = [r \in Procs |-> own'[r]]
        BY <2>2 DEF FilesInv, FilesTyped
      <3> QED
        BY <1>4, <3>1, <3>2 DEF FilesInv, FilesTyped
    <2>6. UsedIsMade'
      <3> SUFFICES ASSUME NEW r \in Procs, NEW i \in Fds, fds'[r][i] # NULL
                   PROVE  file'[fds'[r][i]].ops # "none"
        BY DEF UsedIsMade
      <3>1. CASE r = p /\ i = k
        BY <3>1, <1>3, <2>3
      <3>2. CASE ~(r = p /\ i = k)
        BY <3>2, <1>2, <1>3, <2>3 DEF FilesInv, FilesTyped, UsedIsMade
      <3> QED
        BY <3>1, <3>2
    <2>7. OwnIsSet'
      <3> SUFFICES ASSUME NEW r \in Procs, NEW i \in own'[r]
                   PROVE  i \in Fds /\ fds'[r][i] # NULL
        BY DEF OwnIsSet
      <3>1. CASE r = p /\ i = k
        BY <3>1, <1>0, <2>1, <2>3
      <3>2. CASE ~(r = p /\ i = k)
        <4>1. i \in own[r]
          BY <3>2, <2>4
        <4>2. i \in Fds /\ fds[r][i] # NULL
          BY <4>1 DEF FilesInv, OwnIsSet
        <4> QED
          BY <3>2, <4>2, <2>3
      <3> QED
        BY <3>1, <3>2
    <2>8. UnusedOwnsNone'
      BY <2>4 DEF FilesInv, UnusedOwnsNone
    <2>9. OpensAreSeparate'
      <3> SUFFICES ASSUME NEW r \in Procs, NEW t \in Procs,
                          NEW i \in own'[r], NEW j \in own'[t], <<r, i>> # <<t, j>>
                   PROVE  fds'[r][i] # fds'[t][j]
        BY DEF OpensAreSeparate
      <3>1. i \in Fds /\ j \in Fds
        BY <2>7 DEF OwnIsSet
      <3>2. CASE r = p /\ i = k
        <4>1. ~(t = p /\ j = k)
          BY <3>2
        <4> QED
          BY <3>1, <3>2, <4>1, <1>2, <2>3
      <3>3. CASE t = p /\ j = k
        <4>1. ~(r = p /\ i = k)
          BY <3>3
        <4> QED
          BY <3>1, <3>3, <4>1, <1>2, <2>3
      <3>4. CASE ~(r = p /\ i = k) /\ ~(t = p /\ j = k)
        <4>1. i \in own[r] /\ j \in own[t]
          BY <3>4, <2>4
        <4> QED
          BY <3>1, <3>4, <4>1, <2>3 DEF FilesInv, OpensAreSeparate
      <3> QED
        BY <3>2, <3>3, <3>4
    <2> QED
      BY <2>5, <2>6, <2>7, <2>8, <2>9 DEF FilesInv
  <1> QED
    BY <1>5, <1>6

(* Steps that leave descriptors alone, and at most make a file object. *)
LEMMA FilesInvKept ==
    ASSUME FilesInv, UNCHANGED <<parent, fds, own>>,
           DOMAIN file' = FileIds, file' = [f \in FileIds |-> file'[f]],
           \A f \in FileIds : file'[f] = [ops |-> file'[f].ops, data |-> file'[f].data],
           \A f \in FileIds : file[f].ops # "none" => file'[f].ops # "none"
    PROVE  FilesInv'
  BY DEF FilesInv, FilesTyped, UsedIsMade, OwnIsSet, UnusedOwnsNone, OpensAreSeparate

LEMMA FilesInvUnchanged ==
    ASSUME FilesInv, UNCHANGED <<parent, fds, own, file>>
    PROVE  FilesInv'
  BY DEF FilesInv, FilesTyped, UsedIsMade, OwnIsSet, UnusedOwnsNone, OpensAreSeparate

LEMMA FilesInvInit == Init => FilesInv
  <1> SUFFICES ASSUME Init PROVE FilesInv
    OBVIOUS
  <1>0. /\ own = [p \in Procs |-> {}]
        /\ fds = [p \in Procs |-> [i \in Fds |-> IF p = First /\ i < 3 THEN i + 1 ELSE NULL]]
        /\ file = [f \in FileIds |-> IF f <= 3 THEN Stdio ELSE NoFile]
        /\ parent = [p \in Procs |-> IF p = First THEN First ELSE NULL]
    BY DEF Init
  <1>1. \A i \in Fds : i < 3 => i + 1 \in FileIds /\ i + 1 <= 3
    BY ProcessTablesAssumption DEF Fds, FileIds
  <1>2. FilesTyped
    BY <1>0, <1>1, ProcessTablesAssumption DEF FilesTyped, Stdio, NoFile
  <1>3. UsedIsMade
    BY <1>0, <1>1 DEF UsedIsMade, Stdio
  <1> QED
    BY <1>0, <1>2, <1>3 DEF FilesInv, OwnIsSet, UnusedOwnsNone, OpensAreSeparate

LEMMA FilesInvNext == FilesInv /\ [Next]_vars => FilesInv'
  <1> SUFFICES ASSUME FilesInv, [Next]_vars PROVE FilesInv'
    OBVIOUS
  <1>1. ASSUME NEW p \in Procs, NEW q \in Procs, Fork(p, q)
        PROVE  FilesInv'
    <2>1. /\ parent' = [parent EXCEPT ![q] = p] /\ fds' = [fds EXCEPT ![q] = fds[p]]
          /\ file' = file /\ own' = own /\ parent[q] = NULL
      BY <1>1 DEF Fork
    <2>2. own[q] = {}
      BY <2>1 DEF FilesInv, UnusedOwnsNone
    <2>3. FilesTyped'
      BY <2>1 DEF FilesInv, FilesTyped
    <2>4. UsedIsMade'
      BY <2>1 DEF FilesInv, FilesTyped, UsedIsMade
    <2>5. \A r \in Procs : own[r] # {} => fds'[r] = fds[r]
      BY <2>1, <2>2 DEF FilesInv, FilesTyped
    <2>6. OwnIsSet'
      BY <2>1, <2>5 DEF FilesInv, OwnIsSet
    <2>7. UnusedOwnsNone'
      BY <2>1, <2>2, ProcessTablesAssumption DEF FilesInv, FilesTyped, UnusedOwnsNone
    <2>8. OpensAreSeparate'
      BY <2>1, <2>5 DEF FilesInv, OpensAreSeparate
    <2> QED
      BY <2>3, <2>4, <2>6, <2>7, <2>8 DEF FilesInv
  <1>2. ASSUME NEW p \in Procs, NEW dev \in Devices, OpenDevice(p, dev)
        PROVE  FilesInv'
    <2>1. CASE dev = "fb0"
      BY <1>2, <2>1, FilesInvUnchanged DEF OpenDevice, Hang
    <2>2. CASE dev # "fb0"
      <3>1. dev # "none"
        BY ProcessTablesAssumption
      <3>2. /\ Min(FreshFiles) \in FreshFiles /\ parent[p] # NULL /\ parent' = parent
            /\ file' = [file EXCEPT ![Min(FreshFiles)] = [ops |-> dev, data |-> <<>>]]
            /\ Install(p, Min(FreshFiles))
        BY <1>2, <2>2, FreshIsObject DEF OpenDevice, DeviceFile, Live
      <3> QED
        BY <3>1, <3>2, OpenKeeps
    <2> QED
      BY <2>1, <2>2
  <1>3. ASSUME NEW p \in Procs, NEW n \in Inodes, OpenDisk(p, n)
        PROVE  FilesInv'
    <2>1. /\ Min(FreshFiles) \in FreshFiles /\ parent[p] # NULL /\ parent' = parent
          /\ file' = [file EXCEPT ![Min(FreshFiles)] = [ops |-> "disk", data |-> <<FirstFree, n>>]]
          /\ Install(p, Min(FreshFiles))
      BY <1>3, FreshIsObject DEF OpenDisk, DiskFile, Live
    <2> QED
      BY <2>1, OpenKeeps
  <1>4. ASSUME NEW p \in Procs, NEW n \in Inodes, NEW b \in Breaks, Execve(p, n, b)
        PROVE  FilesInv'
    <2> DEFINE f == Min(FreshFiles)
    <2>1. /\ f \in FileIds /\ UNCHANGED <<parent, fds, own>>
          /\ file' = [file EXCEPT ![f] = [ops |-> "disk", data |-> <<FirstFree, n>>]]
      BY <1>4, FreshIsObject DEF Execve, DiskFile, FreshFiles
    <2>2. \A g \in FileIds : file'[g] =
              IF g = f THEN [ops |-> "disk", data |-> <<FirstFree, n>>] ELSE file[g]
      BY <2>1 DEF FilesInv, FilesTyped
    <2>3. DOMAIN file' = FileIds /\ file' = [g \in FileIds |-> file'[g]]
      BY <2>1 DEF FilesInv, FilesTyped
    <2>4. \A g \in FileIds : file'[g] = [ops |-> file'[g].ops, data |-> file'[g].data]
      BY <2>2 DEF FilesInv, FilesTyped
    <2>5. \A g \in FileIds : file[g].ops # "none" => file'[g].ops # "none"
      BY <2>2
    <2> HIDE DEF f
    <2> QED
      BY <2>1, <2>3, <2>4, <2>5, FilesInvKept
  <1>5. ASSUME NEW p \in Procs, NEW i \in Fds, NEW s \in Slaves, Ioctl(p, i, s)
        PROVE  FilesInv'
    <2> DEFINE f == fds[p][i]
    <2>1. /\ f \in FileIds /\ UNCHANGED <<parent, fds, own>>
          /\ file' = [file EXCEPT ![f].data = <<s>>]
      BY <1>5 DEF Ioctl, FilesInv, FilesTyped
    <2>2. \A g \in FileIds : file'[g] =
              IF g = f THEN [ops |-> file[f].ops, data |-> <<s>>] ELSE file[g]
      BY <2>1 DEF FilesInv, FilesTyped
    <2>3. DOMAIN file' = FileIds /\ file' = [g \in FileIds |-> file'[g]]
      BY <2>1 DEF FilesInv, FilesTyped
    <2>4. \A g \in FileIds : file'[g] = [ops |-> file'[g].ops, data |-> file'[g].data]
      <3> SUFFICES ASSUME NEW g \in FileIds
                   PROVE  file'[g] = [ops |-> file'[g].ops, data |-> file'[g].data]
        OBVIOUS
      <3>1. CASE g = f
        BY <3>1, <2>2
      <3>2. CASE g # f
        <4>1. file[g] = [ops |-> file[g].ops, data |-> file[g].data]
          BY DEF FilesInv, FilesTyped
        <4> QED
          BY <3>2, <4>1, <2>2
      <3> QED
        BY <3>1, <3>2
    <2>5. \A g \in FileIds : file[g].ops # "none" => file'[g].ops # "none"
      BY <2>2
    <2> HIDE DEF f
    <2> QED
      BY <2>1, <2>3, <2>4, <2>5, FilesInvKept
  <1>6. ASSUME NEW p \in Procs,
               \/ \E r \in Regions, prot \in Prots : Mmap(p, r[1], r[2], prot)
               \/ \E a \in Addresses : Brk(p, a)
               \/ OpenMissing(p)
               \/ \E i \in Fds : UseDisk(p, i)
        PROVE  FilesInv'
    BY <1>6, FilesInvUnchanged DEF Mmap, Brk, OpenMissing, UseDisk, Hang
  <1>7. CASE UNCHANGED vars
    BY <1>7, FilesInvUnchanged DEF vars
  <1> QED
    BY <1>1, <1>2, <1>3, <1>4, <1>5, <1>6, <1>7 DEF Next

(* Two descriptors that sys_open returned, in one process or in two, never *)
(* name the same file object, for any numbers of processes, descriptors    *)
(* and files.                                                              *)
THEOREM OpensNeverShare == Spec => []OpensAreSeparate
  <1>1. FilesInv => OpensAreSeparate
    BY DEF FilesInv
  <1> QED
    BY FilesInvInit, FilesInvNext, <1>1, PTL DEF Spec
-----------------------------------------------------------------------------
(* The VMAs.  A VMA object that is in a list or a heap was filled, so it   *)
(* is not fresh, and no call that takes a fresh one touches it.            *)
Filled(v) == vma[v].permissions # {}

VmaTyped ==
    /\ parent \in [Procs -> Procs \cup {NULL}]
    /\ heap \in [Procs -> Pointers]
    /\ vmas \in [Procs -> Seq(VmaIds)]
    /\ vma \in [VmaIds -> [start : Int, end : Int, permissions : SUBSET {"R", "W"}]]
    /\ brk \in [Procs -> Int]

VmaInv ==
    /\ VmaTyped
    /\ \A p \in Procs : \A i \in 1..Len(vmas[p]) : Filled(vmas[p][i])
    /\ \A p \in Procs, v \in VmaIds : heap[p] = <<"vma", v>> => Filled(v)

(* A filled VMA stays filled, and its end does not move down. *)
Grows(v) == Filled(v) => Filled(v)' /\ vma'[v].end >= vma[v].end

LEMMA FreshIsEmpty == \A v \in FreshVmas : v \in VmaIds /\ ~Filled(v)
  BY DEF FreshVmas, Filled, NoVma

LEMMA Aligned == \A a \in Int : AlignDown(a) \in Int /\ AlignUp(a) \in Int
  <1>1. PAGE_SIZE \in Nat /\ PAGE_SIZE > 0
    BY ProcessTablesAssumption
  <1>2. \A a \in Int : a % PAGE_SIZE \in Int
    BY <1>1
  <1>3. \A a \in Int : AlignDown(a) \in Int
    BY <1>1, <1>2 DEF AlignDown
  <1> QED
    BY <1>1, <1>3 DEF AlignUp

LEMMA Prepend ==
    ASSUME NEW v \in VmaIds, NEW l \in Seq(VmaIds)
    PROVE  /\ <<v>> \o l \in Seq(VmaIds) /\ Len(<<v>> \o l) = 1 + Len(l)
           /\ \A i \in 1..1 + Len(l) : (<<v>> \o l)[i] = IF i <= 1 THEN v ELSE l[i - 1]
  <1>1. <<v>> \in Seq(VmaIds) /\ Len(<<v>>) = 1 /\ Len(l) \in Nat /\ <<v>>[1] = v
    OBVIOUS
  <1>2. /\ <<v>> \o l \in Seq(VmaIds) /\ Len(<<v>> \o l) = Len(<<v>>) + Len(l)
        /\ \A i \in 1..Len(<<v>>) + Len(l) :
              (<<v>> \o l)[i] = IF i <= Len(<<v>>) THEN <<v>>[i] ELSE l[i - Len(<<v>>)]
    BY <1>1, ConcatProperties, Zenon
  <1>3. \A i \in 1..1 + Len(l) : i <= 1 => i = 1
    BY <1>1
  <1> QED
    BY <1>1, <1>2, <1>3, Zenon

(* A VMA v that was fresh is filled with w and put at the front of a list. *)
LEMMA FillKeeps ==
    ASSUME VmaInv, NEW p \in Procs, NEW v \in FreshVmas,
           NEW w \in [start : Int, end : Int, permissions : SUBSET {"R", "W"}],
           w.permissions # {},
           vma' = [vma EXCEPT ![v] = w],
           vmas' = [vmas EXCEPT ![p] = <<v>> \o @],
           heap' = heap \/ heap' = [heap EXCEPT ![p] = <<"vma", v>>],
           UNCHANGED <<parent, brk>>
    PROVE  VmaInv' /\ \A u \in VmaIds : Grows(u)
  <1>1. v \in VmaIds /\ ~Filled(v)
    BY FreshIsEmpty
  <1>2. \A u \in VmaIds : vma'[u] = IF u = v THEN w ELSE vma[u]
    BY DEF VmaInv, VmaTyped
  <1>3. Filled(v)' /\ \A u \in VmaIds : Filled(u) => Filled(u)' /\ vma'[u].end = vma[u].end
    BY <1>1, <1>2 DEF Filled
  <1>4. \A u \in VmaIds : vma[u].end \in Int /\ (vma[u].end >= vma[u].end)
    BY DEF VmaInv, VmaTyped
  <1>5. \A u \in VmaIds : Grows(u)
    BY <1>3, <1>4, Zenon DEF Grows
  <1>6. /\ <<v>> \o vmas[p] \in Seq(VmaIds) /\ Len(<<v>> \o vmas[p]) = 1 + Len(vmas[p])
        /\ \A i \in 1..1 + Len(vmas[p]) :
              (<<v>> \o vmas[p])[i] = IF i <= 1 THEN v ELSE vmas[p][i - 1]
    <2>1. vmas[p] \in Seq(VmaIds) /\ <<v>> \in Seq(VmaIds) /\ Len(<<v>>) = 1
      BY <1>1 DEF VmaInv, VmaTyped
    <2>2. PICK l \in Seq(VmaIds) : l = vmas[p]
      BY <2>1, Zenon
    <2>3. /\ <<v>> \o l \in Seq(VmaIds) /\ Len(<<v>> \o l) = 1 + Len(l)
          /\ \A i \in 1..1 + Len(l) : (<<v>> \o l)[i] = IF i <= 1 THEN v ELSE l[i - 1]
      BY <1>1, Prepend, Zenon
    <2> QED
      BY <2>2, <2>3, Zenon
  <1>7. VmaTyped'
    <2>1. /\ parent \in [Procs -> Procs \cup {NULL}] /\ heap \in [Procs -> Pointers]
          /\ vmas \in [Procs -> Seq(VmaIds)] /\ brk \in [Procs -> Int]
          /\ vma \in [VmaIds -> [start : Int, end : Int, permissions : SUBSET {"R", "W"}]]
      BY Zenon DEF VmaInv, VmaTyped
    <2>2. vmas' \in [Procs -> Seq(VmaIds)]
      BY <1>6, <2>1
    <2>3. vma' \in [VmaIds -> [start : Int, end : Int, permissions : SUBSET {"R", "W"}]]
      BY <1>1, <2>1
    <2>4. heap' \in [Procs -> Pointers]
      BY <1>1, <2>1, PointerKinds
    <2>5. parent' = parent /\ brk' = brk
      OBVIOUS
    <2> QED
      BY <2>1, <2>2, <2>3, <2>4, <2>5, Zenon DEF VmaTyped
  <1>8. ASSUME NEW r \in Procs, NEW i \in 1..Len(vmas'[r])
        PROVE  Filled(vmas[r][i])'
    <2>1. CASE r # p
      <3>1. vmas'[r] = vmas[r]
        BY <2>1 DEF VmaInv, VmaTyped
      <3>2. vmas[r] \in Seq(VmaIds) /\ i \in 1..Len(vmas[r])
        BY <1>8, <3>1 DEF VmaInv, VmaTyped
      <3>3. vmas[r][i] \in VmaIds /\ Filled(vmas[r][i])
        BY <3>2 DEF VmaInv
      <3> QED
        BY <1>3, <3>1, <3>3 DEF Filled
    <2>2. CASE r = p
      <3>1. vmas'[p] = <<v>> \o vmas[p]
        BY DEF VmaInv, VmaTyped
      <3>2. vmas[p] \in Seq(VmaIds) /\ Len(vmas[p]) \in Nat
        BY DEF VmaInv, VmaTyped
      <3>3. PICK j : j = i
        OBVIOUS
      <3>4. j \in 1..1 + Len(vmas[p])
        BY <1>6, <1>8, <2>2, <3>1, <3>3
      <3>5. (<<v>> \o vmas[p])[j] = v \/ (j - 1 \in 1..Len(vmas[p]) /\
                                          (<<v>> \o vmas[p])[j] = vmas[p][j - 1])
        BY <1>6, <3>2, <3>4
      <3>6. \A k \in 1..Len(vmas[p]) : vmas[p][k] \in VmaIds /\ Filled(vmas[p][k])
        BY <3>2 DEF VmaInv
      <3>7. vmas'[r][i] = v \/ \E k \in 1..Len(vmas[p]) : vmas'[r][i] = vmas[p][k]
        BY <2>2, <3>1, <3>3, <3>5
      <3> QED
        BY <1>3, <3>6, <3>7 DEF Filled
    <2> QED
      BY <2>1, <2>2
  <1>9. ASSUME NEW r \in Procs, NEW u \in VmaIds, heap'[r] = <<"vma", u>>
        PROVE  Filled(u)'
    <2>1. heap'[r] = heap[r] \/ heap'[r] = <<"vma", v>>
      <3>1. heap \in [Procs -> Pointers]
        BY DEF VmaInv, VmaTyped
      <3> QED
        BY <3>1, Zenon
    <2>2. <<"vma", v>> = <<"vma", u>> => v = u
      OBVIOUS
    <2> QED
      BY <1>3, <1>9, <2>1, <2>2 DEF VmaInv
  <1> QED
    BY <1>5, <1>7, <1>8, <1>9 DEF VmaInv, Filled

(* The objects that clone_active_proc takes are distinct and fresh. *)
LEMMA CopiesAreFresh ==
    ASSUME NEW n \in Nat, Cardinality(FreshVmas) >= n,
           NEW ids, ids = CHOOSE f \in [1..n -> FreshVmas] : IsInjective(f)
    PROVE  ids \in [1..n -> FreshVmas] /\ IsInjective(ids)
  <1>1. IsFiniteSet(FreshVmas)
    <2>1. MaxVmas \in Int /\ 1 \in Int
      BY ProcessTablesAssumption
    <2>2. IsFiniteSet(VmaIds)
      BY <2>1, FS_Interval DEF VmaIds
    <2>3. FreshVmas \in SUBSET VmaIds
      BY DEF FreshVmas
    <2> QED
      BY <2>2, <2>3, FS_Subset
  <1>2. PICK c \in Nat : c = Cardinality(FreshVmas)
    BY <1>1, FS_CardinalityType
  <1>3. PICK g : g \in Bijection(1..c, FreshVmas)
    BY <1>1, <1>2, FS_CardinalityType DEF ExistsBijection
  <1>4. g \in [1..c -> FreshVmas] /\ \A a, b \in 1..c : g[a] = g[b] => a = b
    BY <1>3 DEF Bijection, Injection, IsInjective
  <1>5. 1..n \subseteq 1..c
    BY <1>2
  <1>6. PICK f : f = [i \in 1..n |-> g[i]]
    OBVIOUS
  <1>7. f \in [1..n -> FreshVmas] /\ IsInjective(f)
    BY <1>4, <1>5, <1>6 DEF IsInjective
  <1> QED
    BY <1>7

(* What fork does to the VMAs: the child's list is as long as its          *)
(* parent's, of objects that were fresh, with the contents of the parent's *)
(* in the same order.                                                      *)
ForkCopies(p, q) ==
    /\ vmas' = [vmas EXCEPT ![q] = vmas'[q]]
    /\ vmas'[q] \in Seq(VmaIds) /\ Len(vmas'[q]) = Len(vmas[p])
    /\ \A i \in 1..Len(vmas[p]) : vmas'[q][i] \in VmaIds /\ vma'[vmas'[q][i]] = vma[vmas[p][i]]
    /\ vma' \in [VmaIds -> [start : Int, end : Int, permissions : SUBSET {"R", "W"}]]
    /\ \A v \in VmaIds : Filled(v) => vma'[v] = vma[v]

LEMMA ForkIsCopy ==
    ASSUME VmaInv, NEW p \in Procs, NEW q \in Procs, Fork(p, q)
    PROVE  ForkCopies(p, q)
  <1>1. PICK n : n = Len(vmas[p])
    OBVIOUS
  <1>2. vmas[p] \in Seq(VmaIds) /\ n \in Nat /\ \A i \in 1..n : vmas[p][i] \in VmaIds
    BY <1>1 DEF VmaInv, VmaTyped
  <1>3. PICK ids : ids = CHOOSE f \in [1..n -> FreshVmas] : IsInjective(f)
    OBVIOUS
  <1>4. ids \in [1..n -> FreshVmas] /\ \A i, j \in 1..n : ids[i] = ids[j] => i = j
    <2>1. Cardinality(FreshVmas) >= n
      BY <1>1 DEF Fork
    <2>2. ids \in [1..n -> FreshVmas] /\ IsInjective(ids)
      BY <1>2, <1>3, <2>1, CopiesAreFresh
    <2> QED
      BY <2>2 DEF IsInjective
  <1>5. PICK src : src = [v \in ToSet(ids) |-> vmas[p][CHOOSE i \in 1..n : ids[i] = v]]
    OBVIOUS
  <1>6. /\ vmas' = [vmas EXCEPT ![q] = ids]
        /\ vma' = [v \in VmaIds |-> IF v \in ToSet(ids) THEN vma[src[v]] ELSE vma[v]]
    BY <1>1, <1>3, <1>5 DEF Fork, Cloned
  <1>7. ToSet(ids) = {ids[i] : i \in 1..n}
    BY <1>4 DEF ToSet
  <1>8. \A i \in 1..n : ids[i] \in ToSet(ids) /\ src[ids[i]] = vmas[p][i]
    <2>1. TAKE i \in 1..n
    <2>2. ids[i] \in ToSet(ids)
      BY <1>7
    <2>3. src[ids[i]] = vmas[p][CHOOSE j \in 1..n : ids[j] = ids[i]]
      BY <1>5, <2>2
    <2>4. (CHOOSE j \in 1..n : ids[j] = ids[i]) = i
      BY <1>4
    <2> QED
      BY <2>2, <2>3, <2>4
  <1>9. \A v \in ToSet(ids) : v \in VmaIds /\ ~Filled(v) /\ src[v] \in VmaIds
    BY <1>2, <1>4, <1>7, <1>8, FreshIsEmpty
  <1>10. ids \in Seq(VmaIds) /\ Len(ids) = n
    <2>1. ids \in [1..n -> VmaIds]
      BY <1>4, FreshIsEmpty
    <2> QED
      BY <1>2, <2>1
  <1>11. vmas'[q] = ids
    BY <1>6 DEF VmaInv, VmaTyped
  <1>12. \A i \in 1..n : ids[i] \in VmaIds /\ vma'[ids[i]] = vma[vmas[p][i]]
    BY <1>6, <1>8, <1>9
  <1>13. vma' \in [VmaIds -> [start : Int, end : Int, permissions : SUBSET {"R", "W"}]]
    BY <1>6, <1>9 DEF VmaInv, VmaTyped
  <1>14. \A v \in VmaIds : Filled(v) => vma'[v] = vma[v]
    BY <1>6, <1>9
  <1> QED
    BY <1>1, <1>6, <1>10, <1>11, <1>12, <1>13, <1>14 DEF ForkCopies

LEMMA ForkKeeps ==
    ASSUME VmaInv, NEW p \in Procs, NEW q \in Procs, Fork(p, q)
    PROVE  VmaInv' /\ \A v \in VmaIds : Grows(v)
  <1>1. ForkCopies(p, q)
    BY ForkIsCopy
  <1>2. /\ parent' = [parent EXCEPT ![q] = p] /\ heap' = [heap EXCEPT ![q] = heap[p]]
        /\ brk' = [brk EXCEPT ![q] = brk[p]]
    BY DEF Fork
  <1>3. \A u \in VmaIds : vma[u].end \in Int /\ (vma[u].end >= vma[u].end)
    BY DEF VmaInv, VmaTyped
  <1>4. \A v \in VmaIds : Filled(v) => Filled(v)' /\ vma'[v].end = vma[v].end
    BY <1>1 DEF ForkCopies, Filled
  <1>5. \A v \in VmaIds : Grows(v)
    BY <1>3, <1>4, Zenon DEF Grows
  <1>6. VmaTyped'
    BY <1>1, <1>2 DEF VmaInv, VmaTyped, ForkCopies
  <1>7. \A r \in Procs : \A i \in 1..Len(vmas[r]) : vmas[r][i] \in VmaIds /\ Filled(vmas[r][i])
    BY DEF VmaInv, VmaTyped
  <1>8. ASSUME NEW r \in Procs, NEW i \in 1..Len(vmas'[r])
        PROVE  Filled(vmas[r][i])'
    <2>1. CASE r = q
      <3>1. i \in 1..Len(vmas[p]) /\ vma'[vmas'[q][i]] = vma[vmas[p][i]]
        BY <1>1, <1>8, <2>1 DEF ForkCopies
      <3> QED
        BY <1>7, <2>1, <3>1 DEF Filled
    <2>2. CASE r # q
      <3>1. vmas'[r] = vmas[r]
        BY <1>1, <2>2 DEF ForkCopies, VmaInv, VmaTyped
      <3>2. vmas[r][i] \in VmaIds /\ Filled(vmas[r][i])
        BY <1>7, <1>8, <3>1
      <3>3. vma'[vmas'[r][i]].permissions # {}
        BY <1>4, <3>1, <3>2 DEF Filled
      <3> QED
        BY <3>3 DEF Filled
    <2> QED
      BY <2>1, <2>2
  <1>9. ASSUME NEW r \in Procs, NEW u \in VmaIds, heap'[r] = <<"vma", u>>
        PROVE  Filled(u)'
    <2>1. heap'[r] = heap[r] \/ heap'[r] = heap[p]
      BY <1>2 DEF VmaInv, VmaTyped
    <2> QED
      BY <1>4, <1>9, <2>1 DEF VmaInv
  <1> QED
    BY <1>5, <1>6, <1>8, <1>9 DEF VmaInv, Filled

LEMMA VmaUnchanged ==
    ASSUME VmaInv, UNCHANGED <<parent, vmas, vma>>, heap' \in [Procs -> Pointers],
           \A r \in Procs : heap'[r] = heap[r] \/ IsFile(heap'[r]),
           brk' \in [Procs -> Int]
    PROVE  VmaInv' /\ \A v \in VmaIds : Grows(v)
  <1>1. \A v \in VmaIds : vma'[v].end >= vma[v].end
    BY DEF VmaInv, VmaTyped
  <1>2. \A v \in VmaIds : Grows(v)
    BY <1>1 DEF Grows, Filled
  <1>3. VmaTyped'
    BY DEF VmaInv, VmaTyped
  <1>4. \A r \in Procs, v \in VmaIds : heap'[r] = <<"vma", v>> => heap[r] = <<"vma", v>>
    BY PointerKinds
  <1>5. \A r \in Procs, v \in VmaIds : heap'[r] = <<"vma", v>> => Filled(v)'
    BY <1>4 DEF VmaInv, Filled
  <1>6. \A r \in Procs : \A i \in 1..Len(vmas'[r]) : Filled(vmas[r][i])'
    BY DEF VmaInv, Filled
  <1> QED
    BY <1>2, <1>3, <1>5, <1>6 DEF VmaInv, Filled

(* sys_brk refuses an end below the one it sees through heap_vma. *)
LEMMA BrkKeeps ==
    ASSUME VmaInv, NEW p \in Procs, NEW a \in Addresses, Brk(p, a)
    PROVE  VmaInv' /\ \A v \in VmaIds : Grows(v)
  <1>1. CASE heap[p] = NoHeap
    <2>1. PICK v \in FreshVmas : v = Min(FreshVmas)
      BY <1>1, FreshIsObject DEF Brk
    <2>2. PICK w : w = [start |-> brk[p], end |-> brk[p], permissions |-> {"R", "W"}]
      OBVIOUS
    <2>3. /\ vma' = [vma EXCEPT ![v] = w] /\ vmas' = [vmas EXCEPT ![p] = <<v>> \o @]
          /\ heap' = [heap EXCEPT ![p] = <<"vma", v>>] /\ parent' = parent /\ brk' = brk
      BY <1>1, <2>1, <2>2 DEF Brk
    <2>4. w \in [start : Int, end : Int, permissions : SUBSET {"R", "W"}] /\ w.permissions # {}
      BY <2>2 DEF VmaInv, VmaTyped
    <2> QED
      BY <2>3, <2>4, FillKeeps
  <1>2. CASE heap[p] # NoHeap /\ heap[p][1] # "vma"
    <2>1. UNCHANGED <<parent, vmas, vma, heap, brk>>
      BY <1>2 DEF Brk
    <2> QED
      BY <2>1, VmaUnchanged DEF VmaInv, VmaTyped
  <1>3. CASE heap[p] # NoHeap /\ heap[p][1] = "vma"
    <2>1. PICK h \in VmaIds : heap[p] = <<"vma", h>>
      <3>1. heap[p] \in Pointers
        BY DEF VmaInv, VmaTyped
      <3> QED
        BY <1>3, <3>1 DEF Pointers
    <2>2. PICK top : top = AlignUp(a)
      OBVIOUS
    <2>3. top \in Int
      BY <2>2, Aligned, ProcessTablesAssumption
    <2>4. heap[p][1] = "vma" /\ heap[p][2] = h
      BY <2>1
    <2>5. ~(top < vma[h].end) /\ vma[h].end \in Int
      <3>1. ~(top < HeapEnd(p))
        BY <1>3, <2>2 DEF Brk, BrkDenied
      <3> QED
        BY <2>4, <3>1 DEF HeapEnd, VmaInv, VmaTyped
    <2>6. top >= vma[h].end
      BY <2>3, <2>5
    <2>7. /\ vma' = [vma EXCEPT ![h].end = top] /\ UNCHANGED <<parent, vmas, heap, brk>>
      BY <1>3, <2>2, <2>4 DEF Brk
    <2>8. \A v \in VmaIds : /\ v = h => vma'[v].end = top
                            /\ v # h => vma'[v] = vma[v]
                            /\ vma'[v].permissions = vma[v].permissions
      <3>1. PICK w : w = [vma[h] EXCEPT !.end = top]
        OBVIOUS
      <3>2. vma[h] \in [start : Int, end : Int, permissions : SUBSET {"R", "W"}]
            /\ vma \in [VmaIds -> [start : Int, end : Int, permissions : SUBSET {"R", "W"}]]
        BY DEF VmaInv, VmaTyped
      <3>3. w.end = top /\ w.permissions = vma[h].permissions
        BY <3>1, <3>2
      <3>4. vma' = [vma EXCEPT ![h] = w]
        BY <2>7, <3>1
      <3>5. \A v \in VmaIds : vma'[v] = IF v = h THEN w ELSE vma[v]
        BY <3>2, <3>4, Zenon
      <3> QED
        BY <3>3, <3>5, Zenon
    <2>9. \A v \in VmaIds : Grows(v)
      <3>0. vma'[h].end >= vma[h].end
        BY <2>6, <2>8, Zenon
      <3>1. \A v \in VmaIds : vma[v].end >= vma[v].end
        BY DEF VmaInv, VmaTyped
      <3>2. \A v \in VmaIds : vma'[v].end >= vma[v].end
        BY <2>8, <3>0, <3>1, Zenon
      <3> QED
        BY <2>8, <3>2, Zenon DEF Grows, Filled
    <2>10. vma' \in [VmaIds -> [start : Int, end : Int, permissions : SUBSET {"R", "W"}]]
      BY <2>3, <2>7 DEF VmaInv, VmaTyped
    <2>11. \A r \in Procs : \A i \in 1..Len(vmas[r]) : vmas[r][i] \in VmaIds
      BY DEF VmaInv, VmaTyped
    <2>12. VmaTyped'
      BY <2>7, <2>10 DEF VmaInv, VmaTyped
    <2>13. \A v \in VmaIds : Filled(v) => Filled(v)'
      BY <2>8 DEF Filled
    <2>14. \A r \in Procs : \A i \in 1..Len(vmas[r]) : Filled(vmas[r][i])'
      BY <2>7, <2>8, <2>11 DEF VmaInv, Filled
    <2> QED
      BY <2>7, <2>9, <2>12, <2>13, <2>14 DEF VmaInv, Filled
  <1> QED
    BY <1>1, <1>2, <1>3

LEMMA InstallVma ==
    ASSUME VmaInv, NEW p \in Procs, NEW f \in FileIds, Install(p, f),
           UNCHANGED <<parent, vmas, vma, brk>>
    PROVE  VmaInv' /\ \A v \in VmaIds : Grows(v)
  <1>1. heap' = heap \/ heap' = [heap EXCEPT ![p] = <<"file", f>>]
    BY DEF Install
  <1>2. IsFile(<<"file", f>>) /\ <<"file", f>> \in Pointers
    BY PointerKinds DEF IsFile, NoHeap
  <1>3. heap \in [Procs -> Pointers] /\ brk' \in [Procs -> Int]
    BY DEF VmaInv, VmaTyped
  <1>4. heap' \in [Procs -> Pointers] /\ \A r \in Procs : heap'[r] = heap[r] \/ IsFile(heap'[r])
    BY <1>1, <1>2, <1>3
  <1> QED
    BY <1>3, <1>4, VmaUnchanged

LEMMA VmaInvNext ==
    ASSUME VmaInv, [Next]_vars
    PROVE  VmaInv' /\ \A v \in VmaIds : Grows(v)
  <1> DEFINE Goal == VmaInv' /\ \A v \in VmaIds : Grows(v)
  <1>1. ASSUME NEW p \in Procs, NEW q \in Procs, Fork(p, q) PROVE Goal
    BY <1>1, ForkKeeps
  <1>2. ASSUME NEW p \in Procs, NEW r \in Regions, NEW prot \in Prots, Mmap(p, r[1], r[2], prot)
        PROVE  Goal
    <2>1. PICK v \in FreshVmas : v = Min(FreshVmas)
      BY <1>2, FreshIsObject DEF Mmap
    <2>2. PICK w : w = [start |-> AlignDown(r[1]), end |-> AlignUp(r[1] + r[2]),
                        permissions |-> prot]
      OBVIOUS
    <2>3. /\ vma' = [vma EXCEPT ![v] = w] /\ vmas' = [vmas EXCEPT ![p] = <<v>> \o @]
          /\ heap' = heap /\ parent' = parent /\ brk' = brk
      BY <1>2, <2>1, <2>2 DEF Mmap
    <2>4. r[1] \in Nat /\ r[2] \in Nat /\ prot \in SUBSET {"R", "W"} /\ prot # {}
      BY ProcessTablesAssumption
    <2>5. AlignDown(r[1]) \in Int /\ AlignUp(r[1] + r[2]) \in Int
      BY <2>4, Aligned
    <2>6. w \in [start : Int, end : Int, permissions : SUBSET {"R", "W"}] /\ w.permissions # {}
      BY <2>2, <2>4, <2>5
    <2> QED
      BY <2>3, <2>6, FillKeeps
  <1>3. ASSUME NEW p \in Procs, NEW a \in Addresses, Brk(p, a) PROVE Goal
    BY <1>3, BrkKeeps
  <1>4. ASSUME NEW p \in Procs, NEW dev \in Devices, OpenDevice(p, dev) PROVE Goal
    <2>1. CASE dev = "fb0"
      BY <1>4, <2>1, VmaUnchanged DEF OpenDevice, Hang, VmaInv, VmaTyped
    <2>2. CASE dev # "fb0"
      BY <1>4, <2>2, FreshIsObject, InstallVma DEF OpenDevice, DeviceFile, FreshFiles
    <2> QED
      BY <2>1, <2>2
  <1>5. ASSUME NEW p \in Procs, NEW n \in Inodes, OpenDisk(p, n) PROVE Goal
    BY <1>5, FreshIsObject, InstallVma DEF OpenDisk, DiskFile, FreshFiles
  <1>6. ASSUME NEW p \in Procs, NEW n \in Inodes, NEW b \in Breaks, Execve(p, n, b) PROVE Goal
    <2>1. b \in Int
      BY ProcessTablesAssumption
    <2>2. UNCHANGED <<parent, vmas, vma, heap>> /\ brk' \in [Procs -> Int]
      BY <1>6, <2>1 DEF Execve, VmaInv, VmaTyped
    <2> QED
      BY <2>2, VmaUnchanged DEF VmaInv, VmaTyped
  <1>7. ASSUME NEW p \in Procs,
               \/ OpenMissing(p)
               \/ \E i \in Fds : UseDisk(p, i) \/ \E s \in Slaves : Ioctl(p, i, s)
        PROVE  Goal
    <2>1. UNCHANGED <<parent, vmas, vma, heap, brk>>
      BY <1>7 DEF OpenMissing, UseDisk, Hang, Ioctl
    <2> QED
      BY <2>1, VmaUnchanged DEF VmaInv, VmaTyped
  <1>8. CASE UNCHANGED vars
    BY <1>8, VmaUnchanged DEF vars, VmaInv, VmaTyped
  <1> QED
    BY <1>1, <1>2, <1>3, <1>4, <1>5, <1>6, <1>7, <1>8 DEF Next

LEMMA VmaInvInit == Init => VmaInv
  <1> SUFFICES ASSUME Init PROVE VmaInv
    OBVIOUS
  <1>1. /\ 1 \in VmaIds /\ Limit - 2 * PAGE_SIZE \in Int /\ Limit \in Int
        /\ First \in Procs /\ First # NULL
    BY ProcessTablesAssumption DEF VmaIds
  <1>2. \A p \in Procs : vmas[p] \in Seq(VmaIds)
    BY <1>1 DEF Init
  <1>3. VmaTyped
    BY <1>1, <1>2, PointerKinds DEF Init, VmaTyped, Pointers, NoVma
  <1>4. \A p \in Procs : \A i \in 1..Len(vmas[p]) : vmas[p][i] = 1
    BY <1>1 DEF Init
  <1>5. Filled(1)
    BY <1>1 DEF Init, Filled
  <1>6. \A p \in Procs, v \in VmaIds : heap[p] # <<"vma", v>>
    BY DEF Init, NoHeap
  <1> QED
    BY <1>3, <1>4, <1>5, <1>6 DEF VmaInv

(* After fork, find_vma gives parent and child the same VMA. *)
LEMMA ForkLookup ==
    ASSUME VmaInv, NEW p \in Procs, NEW q \in Procs, Fork(p, q), NEW a
    PROVE  Lookup(q, a)' = Lookup(p, a)'
  <1>1. ForkCopies(p, q)
    BY ForkIsCopy
  <1>2. p # q
    BY ProcessTablesAssumption DEF Fork, Live
  <1>3. PICK n : n = Len(vmas[p])
    OBVIOUS
  <1>4. n \in Nat /\ \A i \in 1..n : vmas[p][i] \in VmaIds /\ Filled(vmas[p][i])
    <2>1. vmas[p] \in Seq(VmaIds)
      BY DEF VmaInv, VmaTyped
    <2>2. \A i \in 1..n : Filled(vmas[p][i])
      BY <1>3 DEF VmaInv
    <2> QED
      BY <1>3, <2>1, <2>2
  <1>5. vmas'[p] = vmas[p] /\ Len(vmas'[p]) = n /\ Len(vmas'[q]) = n
    BY <1>1, <1>2, <1>3 DEF ForkCopies, VmaInv, VmaTyped
  <1>6. \A i \in 1..n : vma'[vmas'[q][i]] = vma'[vmas'[p][i]]
    BY <1>1, <1>3, <1>4, <1>5 DEF ForkCopies
  <1> DEFINE Found(r) == {i \in 1..Len(vmas'[r]) : vma'[vmas'[r][i]].start <= a
                                                /\ a < vma'[vmas'[r][i]].end}
  <1>7. Found(q) = Found(p)
    BY <1>5, <1>6
  <1>8. Found(p) # {} => Min(Found(p)) \in 1..n
    <2>1. Found(p) \in SUBSET Nat /\ Found(p) \subseteq 1..n
      BY <1>4, <1>5
    <2> HIDE DEF Found
    <2> QED
      BY <2>1, MinIsMember
  <1>9. \A r \in {p, q} : Lookup(r, a)' = IF Found(r) = {} THEN NoVma ELSE vma'[vmas'[r][Min(Found(r))]]
    BY DEF Lookup
  <1> HIDE DEF Found
  <1>10. CASE Found(p) = {}
    BY <1>7, <1>9, <1>10
  <1>11. CASE Found(p) # {}
    <2>1. PICK m \in 1..n : m = Min(Found(p))
      BY <1>8, <1>11
    <2>2. Lookup(q, a)' = vma'[vmas'[q][m]] /\ Lookup(p, a)' = vma'[vmas'[p][m]]
      BY <1>7, <1>9, <1>11, <2>1
    <2> QED
      BY <1>6, <2>2
  <1> QED
    BY <1>10, <1>11

(* Children find their parents' VMAs, overlaps included, and no relative   *)
(* that shares a heap can move its end down, for any number of processes   *)
(* and VMAs (clone_active_proc, sys_mmap, sys_brk).                        *)
THEOREM VmasAreKept == Spec => VmasKept
  <1>1. ASSUME VmaInv, [Next]_vars
        PROVE  [/\ \A p, q \in Procs : parent[q] = NULL /\ parent'[q] = p =>
                       \A a \in 0..Limit : Lookup(q, a)' = Lookup(p, a)'
                /\ \A p \in Procs : heap[p] # NoHeap /\ heap'[p] = heap[p] =>
                       HeapEnd(p)' >= HeapEnd(p)]_vars
    <2>1. ASSUME NEW p \in Procs, NEW q \in Procs, parent[q] = NULL, parent'[q] = p
          PROVE  \A a \in 0..Limit : Lookup(q, a)' = Lookup(p, a)'
      <3>1. p # NULL /\ parent' # parent
        BY <2>1, ProcessTablesAssumption
      <3>2. PICK r, s \in Procs : Fork(r, s)
        BY <1>1, <3>1 DEF Next, vars, Mmap, Brk, OpenDevice, OpenDisk, OpenMissing, Execve,
                          UseDisk, Ioctl, Hang
      <3>3. parent' = [parent EXCEPT ![s] = r] /\ parent \in [Procs -> Procs \cup {NULL}]
        BY <1>1, <3>2 DEF Fork, VmaInv, VmaTyped
      <3>4. s = q /\ r = p
        BY <2>1, <3>1, <3>3
      <3> QED
        BY <1>1, <3>2, <3>4, ForkLookup
    <2>2. ASSUME NEW p \in Procs, heap[p] # NoHeap, heap'[p] = heap[p]
          PROVE  HeapEnd(p)' >= HeapEnd(p)
      <3>1. heap[p] \in Pointers
        BY <1>1 DEF VmaInv, VmaTyped
      <3>2. CASE heap[p][1] = "vma"
        <4>1. PICK v \in VmaIds : heap[p] = <<"vma", v>>
          BY <2>2, <3>1, <3>2 DEF Pointers
        <4>2. heap[p][2] = v /\ Filled(v)
          BY <1>1, <4>1 DEF VmaInv
        <4>3. vma'[v].end >= vma[v].end
          BY <1>1, <4>2, VmaInvNext DEF Grows
        <4>4. HeapEnd(p)' = vma'[v].end /\ HeapEnd(p) = vma[v].end
          BY <2>2, <3>2, <4>2 DEF HeapEnd
        <4> QED
          BY <4>3, <4>4, Zenon
      <3>3. CASE heap[p][1] # "vma"
        <4>1. HeapEnd(p)' = 0 /\ HeapEnd(p) = 0 /\ 0 >= 0
          BY <2>2, <3>3 DEF HeapEnd
        <4> QED
          BY <4>1, Zenon
      <3> QED
        BY <3>2, <3>3
    <2> QED
      BY <2>1, <2>2
  <1> QED
    BY <1>1, VmaInvInit, VmaInvNext, PTL DEF Spec, VmasKept
-----------------------------------------------------------------------------
(* The kernel's page tables. *)

LEMMA Multiples == \A a, b, s \in Nat : a >= b => a * s >= b * s
  OBVIOUS

LEMMA Division ==
    ASSUME NEW x \in Nat, NEW s \in Nat, s >= 1
    PROVE  /\ x \div s \in Nat /\ x % s \in Nat /\ x % s < s
           /\ x = (x \div s) * s + (x % s)
  <1>1. x = s * (x \div s) + (x % s)
    OBVIOUS
  <1>2. x % s \in Nat /\ x % s < s /\ x \div s \in Nat
    OBVIOUS
  <1> QED
    BY <1>1, <1>2

(* Quotient and remainder are what they are known by. *)
LEMMA DivisionUnique ==
    ASSUME NEW x \in Nat, NEW s \in Nat, s >= 1, NEW q \in Nat, NEW r \in Nat, r < s,
           x = q * s + r
    PROVE  x \div s = q /\ x % s = r
  <1>1. PICK d \in Nat : d = x \div s
    BY Division
  <1>2. PICK m \in Nat : m = x % s
    BY Division
  <1>3. m < s /\ x = d * s + m
    BY <1>1, <1>2, Division
  <1>4. (d + 1) * s = d * s + s /\ (q + 1) * s = q * s + s
    OBVIOUS
  <1>5. d * s \in Nat /\ q * s \in Nat
    OBVIOUS
  <1>6. ~(d >= q + 1)
    <2>1. SUFFICES ASSUME d >= q + 1 PROVE FALSE
      OBVIOUS
    <2>2. d * s >= (q + 1) * s
      BY <2>1, Multiples
    <2> QED
      BY <1>3, <1>4, <1>5, <2>2
  <1>7. ~(q >= d + 1)
    <2>1. SUFFICES ASSUME q >= d + 1 PROVE FALSE
      OBVIOUS
    <2>2. q * s >= (d + 1) * s
      BY <2>1, Multiples
    <2> QED
      BY <1>3, <1>4, <1>5, <2>2
  <1>8. d = q
    BY <1>6, <1>7
  <1>9. m = r
    BY <1>3, <1>5, <1>8
  <1> QED
    BY <1>1, <1>2, <1>8, <1>9

LEMMA MinOfTwo ==
    \A x, y \in Nat :
        Min({x, y}) \in Nat /\ Min({x, y}) <= x /\ Min({x, y}) <= y /\ Min({x, y}) \in {x, y}
  <1> SUFFICES ASSUME NEW x \in Nat, NEW y \in Nat
               PROVE  /\ Min({x, y}) \in Nat /\ Min({x, y}) <= x /\ Min({x, y}) <= y
                      /\ Min({x, y}) \in {x, y}
    BY Zenon
  <1>1. \E m \in {x, y} : \A z \in {x, y} : m <= z
    OBVIOUS
  <1>2. Min({x, y}) \in {x, y} /\ \A z \in {x, y} : Min({x, y}) <= z
    BY <1>1 DEF Min
  <1> QED
    BY <1>2

(* Every page of RAM is in the chunk that ChunkOf names. *)
LEMMA PageInChunk ==
    ASSUME NEW p \in 0..RamPages - 1
    PROVE  ChunkOf(p) \in Chunks /\ p \in PagesOf(ChunkOf(p))
  <1>1. ENTRIES \in Nat /\ ENTRIES >= 1 /\ RamPages \in Nat /\ p \in Nat /\ p < RamPages
        /\ RamPages % ENTRIES = 0
    BY BootAssumption
  <1>2. PICK k \in Nat : k = RamPages \div ENTRIES
    BY <1>1, Division
  <1>3. RamPages = k * ENTRIES
    <2>1. RamPages = k * ENTRIES + (RamPages % ENTRIES)
      BY <1>1, <1>2, Division
    <2>2. k * ENTRIES \in Nat
      BY <1>1
    <2> QED
      BY <1>1, <2>1, <2>2
  <1>4. PICK d \in Nat : d = p \div ENTRIES
    BY <1>1, Division
  <1>5. d * ENTRIES <= p /\ p < d * ENTRIES + ENTRIES /\ d * ENTRIES \in Nat
    <2>1. p % ENTRIES \in Nat /\ p % ENTRIES < ENTRIES /\ p = d * ENTRIES + (p % ENTRIES)
      BY <1>1, <1>4, Division
    <2>2. d * ENTRIES \in Nat
      BY <1>1
    <2> QED
      BY <1>1, <2>1, <2>2
  <1>6. (d + 1) * ENTRIES = d * ENTRIES + ENTRIES
    BY <1>1
  <1>7. ~(d >= k)
    <2>1. SUFFICES ASSUME d >= k PROVE FALSE
      OBVIOUS
    <2>2. d * ENTRIES >= k * ENTRIES
      BY <1>1, <2>1, Multiples
    <2> QED
      BY <1>1, <1>3, <1>5, <2>2
  <1>8. d \in 0..k - 1
    BY <1>7
  <1>9. p \in d * ENTRIES .. (d + 1) * ENTRIES - 1
    BY <1>1, <1>5, <1>6
  <1> QED
    BY <1>2, <1>4, <1>8, <1>9 DEF ChunkOf, Chunks, PagesOf

(* The level 2 table and the words written after map of one page. *)
LEMMA MapPagesTable ==
    ASSUME NEW p, NEW perms
    PROVE  LET r == EnterPages([l2 |-> l2, tables |-> tables, damage |-> damage], p, p, 1, perms)
           IN  MapPages(p, perms).l2 = r.l2 /\ MapPages(p, perms).damage = r.damage
  <1>1. PICK m : m = EnterPages([l2 |-> l2, tables |-> tables, damage |-> damage], p, p, 1, perms)
    OBVIOUS
  <1>2. DOMAIN m = {"l2", "tables", "damage"}
    BY <1>1 DEF EnterPages
  <1>3. [m EXCEPT !.tables = tables].l2 = m.l2 /\ [m EXCEPT !.tables = tables].damage = m.damage
    BY <1>2
  <1> QED
    BY <1>1, <1>3 DEF MapPages
-----------------------------------------------------------------------------
(* The regions that map_high lays. *)

BootRam == 0..RamPages - 1

(* The chunks of RAM: every page is in one. *)
LEMMA ChunkFacts ==
    /\ ENTRIES \in Nat /\ ENTRIES >= 1 /\ RamPages \in Nat /\ Chunks \subseteq Nat
    /\ \A c \in Chunks : PagesOf(c) \subseteq BootRam /\ c * ENTRIES \in PagesOf(c)
    /\ RamPages % ENTRIES = 0 /\ BootPage \in Nat
  <1>1. ENTRIES \in Nat /\ ENTRIES >= 1 /\ RamPages \in Nat
        /\ RamPages % ENTRIES = 0 /\ BootPage \in Nat
    BY BootAssumption
  <1>2. PICK k \in Nat : k = RamPages \div ENTRIES
    BY <1>1, Division
  <1>3. RamPages = k * ENTRIES
    <2>1. RamPages = k * ENTRIES + (RamPages % ENTRIES)
      BY <1>1, <1>2, Division
    <2>2. k * ENTRIES \in Nat
      BY <1>1
    <2> QED
      BY <1>1, <2>1, <2>2
  <1>4. Chunks = 0..k - 1
    BY <1>2 DEF Chunks
  <1>9. ASSUME NEW c \in Chunks
        PROVE  PagesOf(c) \subseteq BootRam /\ c * ENTRIES \in PagesOf(c)
    <2>1. c \in Nat /\ k >= c + 1
      BY <1>4
    <2>2. c * ENTRIES \in Nat /\ (c + 1) * ENTRIES = c * ENTRIES + ENTRIES
      BY <1>1, <2>1
    <2>3. k * ENTRIES >= (c + 1) * ENTRIES
      BY <1>1, <2>1, Multiples
    <2> HIDE DEF Chunks
    <2> QED
      BY <1>1, <1>3, <2>2, <2>3 DEF PagesOf, BootRam
  <1> QED
    BY <1>1, <1>4, <1>9

LEMMA ChunkOfIs ==
    ASSUME NEW c \in Nat, NEW p \in Nat
    PROVE  p \in PagesOf(c) <=> ChunkOf(p) = c
  <1>1. ENTRIES \in Nat /\ ENTRIES >= 1
    BY BootAssumption
  <1>2. c * ENTRIES \in Nat /\ (c + 1) * ENTRIES = c * ENTRIES + ENTRIES
    BY <1>1
  <1>3. ASSUME p \in PagesOf(c)
        PROVE  ChunkOf(p) = c
    <2>1. p >= c * ENTRIES /\ p < c * ENTRIES + ENTRIES
      BY <1>1, <1>2, <1>3 DEF PagesOf
    <2>2. PICK r \in Nat : r < ENTRIES /\ p = c * ENTRIES + r
      <3>1. p - c * ENTRIES \in Nat /\ p - c * ENTRIES < ENTRIES
        BY <1>1, <1>2, <2>1
      <3> QED
        BY <1>1, <1>2, <3>1
    <2> QED
      BY <1>1, <2>2, DivisionUnique DEF ChunkOf
  <1>4. ASSUME ChunkOf(p) = c
        PROVE  p \in PagesOf(c)
    <2>1. p = c * ENTRIES + (p % ENTRIES) /\ p % ENTRIES \in Nat /\ p % ENTRIES < ENTRIES
      BY <1>1, <1>4, Division DEF ChunkOf
    <2> QED
      BY <1>1, <1>2, <2>1 DEF PagesOf
  <1> QED
    BY <1>3, <1>4

LEMMA ChunkOfNat == \A p \in Nat : ChunkOf(p) \in Nat
  BY BootAssumption, Division DEF ChunkOf

LEMMA ChunkOfRam == \A p \in BootRam : p \in Nat /\ ChunkOf(p) \in Chunks /\ p \in PagesOf(ChunkOf(p))
  BY PageInChunk, BootAssumption DEF BootRam

(* ChunkOf keeps the order of pages. *)
LEMMA ChunkOfOrder ==
    ASSUME NEW p \in Nat, NEW q \in Nat, p <= q
    PROVE  ChunkOf(p) <= ChunkOf(q)
  <1>1. ENTRIES \in Nat /\ ENTRIES >= 1
    BY BootAssumption
  <1>2. PICK c \in Nat : c = ChunkOf(p)
    BY ChunkOfNat
  <1>3. PICK d \in Nat : d = ChunkOf(q)
    BY ChunkOfNat
  <1>4. p \in PagesOf(c) /\ q \in PagesOf(d)
    BY <1>2, <1>3, ChunkOfIs
  <1>5. p >= c * ENTRIES /\ q <= (d + 1) * ENTRIES - 1
    BY <1>1, <1>4 DEF PagesOf
  <1>6. SUFFICES ASSUME c >= d + 1 PROVE FALSE
    BY <1>2, <1>3
  <1>7. c * ENTRIES >= (d + 1) * ENTRIES
    BY <1>1, <1>6, Multiples
  <1> QED
    BY <1>1, <1>5, <1>7

(* A multiple of ENTRIES and fewer than ENTRIES pages behind it. *)
LEMMA ChunkAt ==
    ASSUME NEW k \in Nat, NEW r \in Nat, r < ENTRIES
    PROVE  ChunkOf(k * ENTRIES + r) = k /\ (k * ENTRIES + r) % ENTRIES = r
  <1>1. ENTRIES \in Nat /\ ENTRIES >= 1
    BY BootAssumption
  <1>2. k * ENTRIES + r \in Nat
    BY <1>1
  <1> QED
    BY <1>1, <1>2, DivisionUnique DEF ChunkOf

BootPerms == {"RW", "RX", "RO"}
Wanted == [BootRam -> BootPerms \cup {"none"}]
PageFor(p, w) == IF w[p] = "none" THEN NoPage ELSE [pa |-> p, perms |-> w[p]]

(* A level 2 entry gives every page of its chunk its own frame and the     *)
(* permissions w.  A table has at least one page.                          *)
EntryLays(e, c, w) ==
    \/ e = NoEntry /\ \A p \in PagesOf(c) : w[p] = "none"
    \/ /\ e.kind = "block" /\ e.pa = c * ENTRIES /\ e.perms \in BootPerms
       /\ \A p \in PagesOf(c) : w[p] = e.perms
    \/ /\ e.kind = "table" /\ \E p \in PagesOf(c) : w[p] # "none"
       /\ \A p \in PagesOf(c) : e.l3[p] = PageFor(p, w)

TablesIn(t) == {c \in Chunks : t[c].kind = "table"}

(* w with the pages from a to b - 1 mapped with perms. *)
Over(w, a, b, perms) == [p \in BootRam |-> IF a <= p /\ p < b THEN perms ELSE w[p]]

(* The tables give the pages the permissions w, and lo_allocated_pages     *)
(* counts them; level 3 tables are at chunks of T only.                    *)
Laid(m, w, T) ==
    /\ DOMAIN m = {"l2", "tables", "damage"}
    /\ w \in Wanted
    /\ \A c \in Chunks : EntryLays(m.l2[c], c, w)
    /\ TablesIn(m.l2) \subseteq T
    /\ m.tables = 7 + Cardinality(TablesIn(m.l2))

LEMMA EntryKinds == "invalid" # "block" /\ "invalid" # "table" /\ "block" # "table" /\ NoEntry.kind = "invalid"
  BY DEF NoEntry

LEMMA OverTyped ==
    ASSUME NEW w \in Wanted, NEW a, NEW b, NEW perms \in BootPerms
    PROVE  Over(w, a, b, perms) \in Wanted
  BY DEF Over, Wanted

LEMMA EntryLaysSame ==
    ASSUME NEW e, NEW c, NEW w, NEW v, EntryLays(e, c, w), \A p \in PagesOf(c) : v[p] = w[p]
    PROVE  EntryLays(e, c, v)
  <1>1. \A p \in PagesOf(c) : PageFor(p, v) = PageFor(p, w)
    BY DEF PageFor
  <1>2. CASE e = NoEntry /\ \A p \in PagesOf(c) : w[p] = "none"
    BY <1>2 DEF EntryLays
  <1>3. CASE /\ e.kind = "block" /\ e.pa = c * ENTRIES /\ e.perms \in BootPerms
             /\ \A p \in PagesOf(c) : w[p] = e.perms
    BY <1>3 DEF EntryLays
  <1>4. CASE /\ e.kind = "table" /\ \E p \in PagesOf(c) : w[p] # "none"
             /\ \A p \in PagesOf(c) : e.l3[p] = PageFor(p, w)
    <2>1. \E p \in PagesOf(c) : v[p] # "none"
      BY <1>4
    <2>2. \A p \in PagesOf(c) : e.l3[p] = PageFor(p, v)
      BY <1>1, <1>4
    <2> QED
      BY <1>4, <2>1, <2>2 DEF EntryLays
  <1> QED
    BY <1>2, <1>3, <1>4 DEF EntryLays

(* A page that is not mapped is in no block: nothing of RAM is taken for   *)
(* an entry.                                                               *)
LEMMA UnmappedNotInBlock ==
    ASSUME NEW e, NEW c, NEW w, EntryLays(e, c, w), NEW p \in PagesOf(c), w[p] = "none"
    PROVE  e.kind # "block"
  <1>1. "none" \notin BootPerms
    BY DEF BootPerms
  <1> QED
    BY <1>1, EntryKinds DEF EntryLays

LEMMA EntryKind ==
    ASSUME NEW e, NEW c, NEW w, EntryLays(e, c, w)
    PROVE  e.kind \in {"invalid", "block", "table"} /\ (e.kind = "invalid" <=> e = NoEntry)
  BY EntryKinds DEF EntryLays

(* map_l3_range and map_pages of pages that are not mapped yet. *)
LEMMA LayPages ==
    ASSUME NEW m, NEW w, NEW T, Laid(m, w, T), NEW a \in Nat, NEW n \in Nat, a + n <= RamPages,
           NEW perms \in BootPerms, \A p \in BootRam : a <= p /\ p < a + n => w[p] = "none",
           \A p \in BootRam : a <= p /\ p < a + n => ChunkOf(p) \in T
    PROVE  /\ Laid(EnterPages(m, a, a, n, perms), Over(w, a, a + n, perms), T)
           /\ EnterPages(m, a, a, n, perms).damage = m.damage
  <1> DEFINE ps == a..a + n - 1
             touched == {c \in Chunks : PagesOf(c) \cap ps # {}}
             w2 == Over(w, a, a + n, perms)
             New(c) == [kind |-> "table", l3 |-> [p \in PagesOf(c) |->
                LET old == IF m.l2[c].kind = "table" THEN m.l2[c].l3[p] ELSE NoPage IN
                IF p \in ps /\ old = NoPage THEN [pa |-> a + (p - a), perms |-> perms]
                ELSE old]]
  <1>1. PICK r : r = EnterPages(m, a, a, n, perms)
    OBVIOUS
  <1>2. /\ DOMAIN r = {"l2", "tables", "damage"}
        /\ \A c \in Chunks : r.l2[c] = IF c \notin touched \/ m.l2[c].kind = "block" THEN m.l2[c]
                                       ELSE New(c)
        /\ r.tables = m.tables + Cardinality({c \in touched : m.l2[c] = NoEntry})
        /\ r.damage = m.damage \cup {<<m.l2[ChunkOf(p)].pa, p % ENTRIES>> : p \in
                               {p \in ps : m.l2[ChunkOf(p)].kind = "block"}}
    BY <1>1 DEF EnterPages
  <1>3. ps \subseteq BootRam /\ ps \subseteq Nat /\ \A p \in ps : a <= p /\ p < a + n
    BY ChunkFacts DEF BootRam
  <1>4. \A p \in BootRam : p \in ps <=> a <= p /\ p < a + n
    BY ChunkFacts DEF BootRam
  <1>5. \A p \in BootRam : p \notin ps => w2[p] = w[p]
    BY <1>4 DEF Over
  <1>6. \A p \in ps : w2[p] = perms /\ w[p] = "none"
    BY <1>3 DEF Over
  <1>7. perms # "none"
    BY DEF BootPerms
  <1>8. \A c \in Chunks : PagesOf(c) \subseteq BootRam /\ EntryLays(m.l2[c], c, w)
    BY ChunkFacts DEF Laid
  <1>9. \A c \in touched : m.l2[c].kind # "block"
    <2> SUFFICES ASSUME NEW c \in touched
                 PROVE  m.l2[c].kind # "block"
      OBVIOUS
    <2>1. PICK p : p \in PagesOf(c) /\ p \in ps
      OBVIOUS
    <2>2. EntryLays(m.l2[c], c, w)
      BY <1>8
    <2> QED
      BY <1>6, <2>1, <2>2, UnmappedNotInBlock
  <1>10. ASSUME NEW c \in Chunks, c \notin touched
         PROVE  EntryLays(r.l2[c], c, w2)
    <2>1. r.l2[c] = m.l2[c]
      BY <1>2, <1>10
    <2>2. \A p \in PagesOf(c) : w2[p] = w[p]
      BY <1>5, <1>8, <1>10
    <2>3. EntryLays(m.l2[c], c, w)
      BY <1>8
    <2> HIDE DEF w2
    <2> QED
      BY <2>1, <2>2, <2>3, EntryLaysSame
  <1>11. ASSUME NEW c \in touched
         PROVE  EntryLays(r.l2[c], c, w2) /\ r.l2[c].kind = "table"
    <2>1. c \in Chunks /\ r.l2[c] = New(c)
      BY <1>2, <1>9
    <2>2. PICK q : q \in PagesOf(c) /\ q \in ps
      OBVIOUS
    <2>3. EntryLays(m.l2[c], c, w) /\ PagesOf(c) \subseteq BootRam /\ m.l2[c].kind # "block"
      BY <1>8, <1>9
    <2>4. r.l2[c].kind = "table" /\ w2[q] # "none"
      BY <1>6, <1>7, <2>1, <2>2
    <2>5. ASSUME NEW p \in PagesOf(c)
          PROVE  r.l2[c].l3[p] = PageFor(p, w2)
      <3> DEFINE old == IF m.l2[c].kind = "table" THEN m.l2[c].l3[p] ELSE NoPage
      <3>1. r.l2[c].l3[p] = IF p \in ps /\ old = NoPage THEN [pa |-> a + (p - a), perms |-> perms]
                            ELSE old
        BY <2>1
      <3>2. old = PageFor(p, w)
        <4>1. CASE m.l2[c].kind = "table"
          BY <2>3, <4>1, EntryKinds DEF EntryLays
        <4>2. CASE m.l2[c].kind # "table"
          <5>1. w[p] = "none"
            BY <2>3, <4>2 DEF EntryLays
          <5> QED
            BY <4>2, <5>1 DEF PageFor
        <4> QED
          BY <4>1, <4>2
      <3> HIDE DEF old
      <3>3. CASE p \in ps
        <4>1. w[p] = "none" /\ w2[p] = perms
          BY <1>6, <3>3
        <4>2. old = NoPage
          BY <3>2, <4>1 DEF PageFor
        <4>3. a + (p - a) = p
          BY <1>3, <3>3
        <4>4. PageFor(p, w2) = [pa |-> p, perms |-> perms]
          BY <1>7, <4>1 DEF PageFor
        <4> QED
          BY <3>1, <3>3, <4>2, <4>3, <4>4
      <3>4. CASE p \notin ps
        <4>1. w2[p] = w[p]
          BY <1>5, <2>3, <3>4
        <4>2. PageFor(p, w2) = PageFor(p, w)
          BY <4>1 DEF PageFor
        <4> QED
          BY <3>1, <3>2, <3>4, <4>2
      <3> QED
        BY <3>3, <3>4
    <2> HIDE DEF w2
    <2> QED
      BY <2>2, <2>4, <2>5 DEF EntryLays
  <1>12. \A c \in Chunks : EntryLays(r.l2[c], c, w2)
    BY <1>10, <1>11
  <1>13. r.damage = m.damage
    <2>1. {p \in ps : m.l2[ChunkOf(p)].kind = "block"} = {}
      <3> SUFFICES ASSUME NEW p \in ps
                   PROVE  m.l2[ChunkOf(p)].kind # "block"
        OBVIOUS
      <3>1. ChunkOf(p) \in Chunks /\ p \in PagesOf(ChunkOf(p))
        BY <1>3, ChunkOfRam
      <3>2. ChunkOf(p) \in touched
        BY <3>1
      <3> QED
        BY <1>9, <3>2
    <2> QED
      BY <1>2, <2>1
  <1> DEFINE fresh == {c \in touched : m.l2[c] = NoEntry}
  <1>14. TablesIn(r.l2) = TablesIn(m.l2) \cup fresh /\ TablesIn(m.l2) \cap fresh = {}
    <2>1. ASSUME NEW c \in Chunks
          PROVE  r.l2[c].kind = "table" <=> m.l2[c].kind = "table" \/ c \in fresh
      <3>1. EntryLays(m.l2[c], c, w)
        BY <1>8
      <3>2. m.l2[c].kind \in {"invalid", "block", "table"} /\ (m.l2[c].kind = "invalid" <=> m.l2[c] = NoEntry)
        BY <3>1, EntryKind
      <3>3. CASE c \in touched
        <4>1. r.l2[c].kind = "table" /\ m.l2[c].kind # "block"
          BY <1>9, <1>11, <3>3
        <4> QED
          BY <3>2, <3>3, <4>1
      <3>4. CASE c \notin touched
        BY <1>2, <3>4
      <3> QED
        BY <3>3, <3>4
    <2>2. \A c \in fresh : m.l2[c].kind # "table" /\ c \in Chunks
      BY EntryKinds
    <2> HIDE DEF fresh
    <2> QED
      BY <2>1, <2>2 DEF TablesIn
  <1>15. fresh \subseteq T
    <2> SUFFICES ASSUME NEW c \in fresh
                 PROVE  c \in T
      OBVIOUS
    <2>1. PICK p : p \in PagesOf(c) /\ p \in ps
      OBVIOUS
    <2>2. c \in Nat /\ p \in Nat
      BY <1>3, <2>1, ChunkFacts
    <2>3. ChunkOf(p) = c
      BY <2>1, <2>2, ChunkOfIs
    <2> QED
      BY <1>3, <2>1, <2>3
  <1>16. r.tables = 7 + Cardinality(TablesIn(r.l2))
    <2>1. IsFiniteSet(Chunks)
      <3>1. Chunks = 0..(RamPages \div ENTRIES) - 1 /\ RamPages \div ENTRIES \in Nat
        BY ChunkFacts, Division DEF Chunks
      <3>2. 0 \in Int /\ (RamPages \div ENTRIES) - 1 \in Int
        BY <3>1
      <3> QED
        BY <3>1, <3>2, FS_Interval
    <2>2. fresh \subseteq Chunks /\ TablesIn(m.l2) \subseteq Chunks
      BY DEF TablesIn
    <2> HIDE DEF fresh
    <2>3. IsFiniteSet(fresh) /\ IsFiniteSet(TablesIn(m.l2))
      BY <2>1, <2>2, FS_Subset
    <2>4. Cardinality(TablesIn(m.l2) \cup fresh)
            = Cardinality(TablesIn(m.l2)) + Cardinality(fresh) - Cardinality(TablesIn(m.l2) \cap fresh)
      BY <2>3, FS_Union
    <2>5. Cardinality({}) = 0
      BY FS_EmptySet
    <2>6. Cardinality(fresh) \in Nat /\ Cardinality(TablesIn(m.l2)) \in Nat
      BY <2>3, FS_CardinalityType
    <2>7. r.tables = 7 + Cardinality(TablesIn(m.l2)) + Cardinality(fresh)
      <3>1. r.tables = m.tables + Cardinality(fresh)
        BY <1>2 DEF fresh
      <3>2. m.tables = 7 + Cardinality(TablesIn(m.l2))
        BY DEF Laid
      <3> QED
        BY <3>1, <3>2
    <2>8. Cardinality(TablesIn(r.l2)) = Cardinality(TablesIn(m.l2)) + Cardinality(fresh) - 0
      BY <1>14, <2>4, <2>5, Zenon
    <2>9. PICK had \in Nat : had = Cardinality(TablesIn(m.l2))
      BY <2>6
    <2>10. PICK made \in Nat : made = Cardinality(fresh)
      BY <2>6
    <2>11. Cardinality(TablesIn(r.l2)) = had + made - 0 /\ r.tables = 7 + had + made
      BY <2>7, <2>8, <2>9, <2>10, Zenon
    <2> QED
      BY <2>11
  <1>17. w2 \in Wanted /\ TablesIn(m.l2) \subseteq T
    BY OverTyped DEF Laid
  <1> HIDE DEF w2, ps, touched, New, fresh
  <1>18. TablesIn(r.l2) \subseteq T
    BY <1>14, <1>15, <1>17
  <1>19. DOMAIN r = {"l2", "tables", "damage"}
    BY <1>2
  <1>20. Laid(r, w2, T)
    BY <1>12, <1>16, <1>17, <1>18, <1>19 DEF Laid
  <1> QED
    BY <1>1, <1>13, <1>20 DEF w2

(* map_l2_range of chunks without a mapped page. *)
LEMMA LayBlocks ==
    ASSUME NEW m, NEW w, NEW T, Laid(m, w, T), NEW k \in Nat, NEW n \in Nat,
           NEW a \in Nat, a = k * ENTRIES, NEW b \in Nat, b = (k + n) * ENTRIES,
           NEW perms \in BootPerms, \A p \in BootRam : a <= p /\ p < b => w[p] = "none"
    PROVE  /\ Laid(EnterBlocks(m, a, a, n, perms), Over(w, a, b, perms), T)
           /\ EnterBlocks(m, a, a, n, perms).damage = m.damage
  <1> DEFINE w2 == Over(w, a, b, perms)
  <1>1. PICK r : r = EnterBlocks(m, a, a, n, perms)
    OBVIOUS
  <1>2. ENTRIES \in Nat /\ ENTRIES >= 1 /\ Chunks \subseteq Nat
    BY ChunkFacts
  <1>3. ChunkOf(a) = k
    <2>1. a = k * ENTRIES + 0
      BY <1>2
    <2> QED
      BY <1>2, <2>1, ChunkAt
  <1>4. DOMAIN m = {"l2", "tables", "damage"}
    BY DEF Laid
  <1>5. /\ DOMAIN r = {"l2", "tables", "damage"} /\ r.tables = m.tables /\ r.damage = m.damage
        /\ \A c \in Chunks : r.l2[c] = IF c \in k..k + n - 1 /\ m.l2[c] = NoEntry
                                       THEN Block(a + (c - k) * ENTRIES, perms) ELSE m.l2[c]
    BY <1>1, <1>3, <1>4 DEF EnterBlocks
  <1>6. \A c \in Chunks : PagesOf(c) \subseteq BootRam /\ EntryLays(m.l2[c], c, w)
                          /\ c * ENTRIES \in PagesOf(c)
    BY ChunkFacts DEF Laid
  <1>7. ASSUME NEW c \in Chunks, NEW p \in PagesOf(c)
        PROVE  (a <= p /\ p < b) <=> c \in k..k + n - 1
    <2>1. c \in Nat /\ p \in Nat
      BY <1>2, <1>6 DEF BootRam
    <2>2. p >= c * ENTRIES /\ p <= (c + 1) * ENTRIES - 1 /\ c * ENTRIES \in Nat
          /\ (c + 1) * ENTRIES \in Nat
      BY <1>2, <2>1 DEF PagesOf
    <2>3. CASE c < k
      <3>1. k * ENTRIES >= (c + 1) * ENTRIES
        BY <1>2, <2>1, <2>3, Multiples
      <3> QED
        BY <2>1, <2>2, <2>3, <3>1
    <2>4. CASE c >= k /\ c < k + n
      <3>1. c * ENTRIES >= k * ENTRIES /\ (k + n) * ENTRIES >= (c + 1) * ENTRIES
        BY <1>2, <2>1, <2>4, Multiples
      <3>2. c \in k..k + n - 1
        BY <2>1, <2>4
      <3> QED
        BY <2>1, <2>2, <3>1, <3>2
    <2>5. CASE c >= k + n
      <3>1. c * ENTRIES >= (k + n) * ENTRIES
        BY <1>2, <2>1, <2>5, Multiples
      <3> QED
        BY <2>1, <2>2, <2>5, <3>1
    <2> QED
      BY <2>1, <2>3, <2>4, <2>5
  <1>8. ASSUME NEW c \in Chunks, c \in k..k + n - 1
        PROVE  m.l2[c] = NoEntry /\ EntryLays(r.l2[c], c, w2) /\ r.l2[c].kind = "block"
    <2>1. \A p \in PagesOf(c) : w[p] = "none" /\ w2[p] = perms
      BY <1>6, <1>7, <1>8 DEF Over
    <2>2. m.l2[c] = NoEntry
      <3>1. m.l2[c].kind # "block"
        BY <1>6, <2>1, UnmappedNotInBlock
      <3>2. EntryLays(m.l2[c], c, w)
        BY <1>6
      <3> QED
        BY <2>1, <3>1, <3>2, EntryKinds DEF EntryLays
    <2>3. r.l2[c] = Block(a + (c - k) * ENTRIES, perms)
      BY <1>5, <1>8, <2>2
    <2>4. a + (c - k) * ENTRIES = c * ENTRIES
      <3>1. c \in Nat
        BY <1>2
      <3>2. k * ENTRIES + (c - k) * ENTRIES = c * ENTRIES
        BY <1>2, <3>1
      <3> QED
        BY <3>2
    <2>5. r.l2[c].kind = "block" /\ r.l2[c].pa = c * ENTRIES /\ r.l2[c].perms = perms
      BY <2>3, <2>4 DEF Block
    <2> QED
      BY <2>1, <2>2, <2>5 DEF EntryLays
  <1>9. ASSUME NEW c \in Chunks, c \notin k..k + n - 1
        PROVE  r.l2[c] = m.l2[c] /\ EntryLays(r.l2[c], c, w2)
    <2>1. r.l2[c] = m.l2[c]
      BY <1>5, <1>9
    <2>2. \A p \in PagesOf(c) : w2[p] = w[p]
      BY <1>6, <1>7, <1>9 DEF Over
    <2>3. EntryLays(m.l2[c], c, w)
      BY <1>6
    <2> HIDE DEF w2
    <2> QED
      BY <2>1, <2>2, <2>3, EntryLaysSame
  <1>10. TablesIn(r.l2) = TablesIn(m.l2)
    <2>1. \A c \in Chunks : r.l2[c].kind = "table" <=> m.l2[c].kind = "table"
      BY <1>8, <1>9, EntryKinds
    <2> QED
      BY <2>1 DEF TablesIn
  <1>11. w2 \in Wanted
    BY OverTyped DEF Laid
  <1>12. \A c \in Chunks : EntryLays(r.l2[c], c, w2)
    BY <1>8, <1>9
  <1> HIDE DEF w2
  <1>13. Laid(r, w2, T)
    BY <1>5, <1>10, <1>11, <1>12 DEF Laid
  <1> QED
    BY <1>1, <1>5, <1>13 DEF w2

(* No blocks are left out of the level 2 table as it was. *)
LEMMA LayNoBlocks ==
    ASSUME NEW m, NEW w, NEW T, Laid(m, w, T), NEW a \in Nat, NEW perms
    PROVE  /\ Laid(EnterBlocks(m, a, a, 0, perms), w, T)
           /\ EnterBlocks(m, a, a, 0, perms).damage = m.damage
  <1>1. PICK r : r = EnterBlocks(m, a, a, 0, perms)
    OBVIOUS
  <1>2. ChunkOf(a) \in Nat
    BY ChunkOfNat
  <1>3. ChunkOf(a)..ChunkOf(a) + 0 - 1 = {}
    BY <1>2
  <1>4. DOMAIN m = {"l2", "tables", "damage"}
    BY DEF Laid
  <1>5. /\ DOMAIN r = {"l2", "tables", "damage"} /\ r.tables = m.tables /\ r.damage = m.damage
        /\ \A c \in Chunks : r.l2[c] = m.l2[c]
    BY <1>1, <1>3, <1>4 DEF EnterBlocks
  <1>6. TablesIn(r.l2) = TablesIn(m.l2)
    BY <1>5 DEF TablesIn
  <1>7. Laid(r, w, T)
    BY <1>5, <1>6 DEF Laid
  <1> QED
    BY <1>1, <1>5, <1>7

(* The pages in front of the first 2 MiB border are in one chunk, and are  *)
(* all of the region or end at a border.                                   *)
FrontIs(a, n, f) ==
    /\ f \in Nat /\ f <= n
    /\ \A p \in a..a + f - 1 : ChunkOf(p) = ChunkOf(a)
    /\ f > 0 => a % ENTRIES # 0
    /\ f = n \/ \E k \in Nat : a + f = k * ENTRIES

LEMMA FrontPages ==
    ASSUME NEW a \in Nat, NEW n \in Nat, NEW f, f = Min({((ENTRIES - (a % ENTRIES)) % ENTRIES), n})
    PROVE  FrontIs(a, n, f)
  <1>1. ENTRIES \in Nat /\ ENTRIES >= 1
    BY ChunkFacts
  <1>2. PICK x \in Nat : x = a % ENTRIES /\ x < ENTRIES
    BY <1>1, Division
  <1>3. PICK q \in Nat : q = ChunkOf(a)
    BY ChunkOfNat
  <1>4. a = q * ENTRIES + x /\ q * ENTRIES \in Nat
    <2>1. a = q * ENTRIES + x
      BY <1>1, <1>2, <1>3, Division DEF ChunkOf
    <2> QED
      BY <1>1, <2>1
  <1>5. CASE x = 0
    <2>1. (ENTRIES - (a % ENTRIES)) % ENTRIES = 0
      <3>1. ENTRIES = 1 * ENTRIES + 0 /\ ENTRIES - (a % ENTRIES) = ENTRIES
        BY <1>1, <1>2, <1>5
      <3>2. ENTRIES % ENTRIES = 0
        BY <1>1, <3>1, DivisionUnique
      <3> QED
        BY <3>1, <3>2
    <2>2. f = 0
      <3>1. f = Min({0, n})
        BY <2>1
      <3> QED
        BY <3>1, MinOfTwo
    <2>3. a + f = q * ENTRIES
      BY <1>4, <1>5, <2>2
    <2>4. \E k \in Nat : a + f = k * ENTRIES
      BY <2>3, Zenon
    <2>5. 0 \in Nat /\ 0 <= n /\ ~(0 > 0)
      OBVIOUS
    <2>6. a..a + 0 - 1 = {}
      OBVIOUS
    <2>7. \A p \in a..a + f - 1 : ChunkOf(p) = ChunkOf(a)
      BY <2>2, <2>6, Zenon
    <2> QED
      BY <2>2, <2>4, <2>5, <2>7, Zenon DEF FrontIs
  <1>6. CASE x > 0
    <2>1. PICK y \in Nat : y = ENTRIES - x /\ y < ENTRIES
      BY <1>1, <1>2, <1>6
    <2>2. (ENTRIES - (a % ENTRIES)) % ENTRIES = y
      <3>1. y = 0 * ENTRIES + y
        BY <1>1
      <3>2. y % ENTRIES = y
        BY <1>1, <2>1, <3>1, DivisionUnique
      <3> QED
        BY <1>2, <2>1, <3>2
    <2>3. f \in Nat /\ f <= y /\ f <= n /\ f \in {y, n}
      <3>1. f = Min({y, n})
        BY <2>2
      <3> QED
        BY <3>1, MinOfTwo
    <2>4. (q + 1) * ENTRIES = q * ENTRIES + ENTRIES
      BY <1>1
    <2>5. ASSUME NEW p \in a..a + f - 1
          PROVE  ChunkOf(p) = ChunkOf(a)
      <3>1. p \in Nat /\ p >= q * ENTRIES /\ p <= (q + 1) * ENTRIES - 1
        BY <1>1, <1>4, <2>1, <2>3, <2>4
      <3>2. p \in PagesOf(q)
        BY <1>1, <1>4, <2>4, <3>1 DEF PagesOf
      <3> QED
        BY <1>3, <3>1, <3>2, ChunkOfIs
    <2>6. ASSUME f # n
          PROVE  a + f = (q + 1) * ENTRIES
      <3>1. f = y
        BY <2>3, <2>6
      <3> QED
        BY <1>1, <1>4, <2>1, <2>4, <3>1
    <2>7. a % ENTRIES # 0
      BY <1>2, <1>6
    <2>8. q + 1 \in Nat
      OBVIOUS
    <2>9. f = n \/ \E k \in Nat : a + f = k * ENTRIES
      BY <2>6, <2>8, Zenon
    <2> QED
      BY <2>3, <2>5, <2>7, <2>9, Zenon DEF FrontIs
  <1>7. x = 0 \/ x > 0
    OBVIOUS
  <1> QED
    BY <1>5, <1>6, <1>7, Zenon

LEMMA OverOver ==
    ASSUME NEW w, NEW a \in Nat, NEW c \in Nat, NEW b \in Nat, a <= c, c <= b, NEW perms
    PROVE  Over(Over(w, a, c, perms), c, b, perms) = Over(w, a, b, perms)
  <1>1. \A p \in BootRam : p \in Int
    BY DEF BootRam
  <1>2. ASSUME NEW p \in BootRam
        PROVE  (IF c <= p /\ p < b THEN perms ELSE (IF a <= p /\ p < c THEN perms ELSE w[p]))
                 = (IF a <= p /\ p < b THEN perms ELSE w[p])
    BY <1>1
  <1> QED
    BY <1>2 DEF Over

LEMMA OverNothing ==
    ASSUME NEW w \in Wanted, NEW a \in Nat, NEW perms
    PROVE  Over(w, a, a, perms) = w
  <1>1. \A p \in BootRam : ~(a <= p /\ p < a)
    BY DEF BootRam
  <1> QED
    BY <1>1 DEF Over, Wanted

(* map_lo of a region of which no page is mapped yet maps all of it and    *)
(* nothing else, whatever borders it crosses.  It needs a level 3 table    *)
(* for its first chunk and for its last one, if they are not whole.        *)
LEMMA LayRegion ==
    ASSUME NEW m, NEW w, NEW T, Laid(m, w, T), NEW a \in Nat, NEW b \in Nat, a <= b, b <= RamPages,
           NEW perms \in BootPerms, \A p \in BootRam : a <= p /\ p < b => w[p] = "none",
           a < b /\ a % ENTRIES # 0 => ChunkOf(a) \in T,
           a < b /\ b % ENTRIES # 0 => ChunkOf(b) \in T
    PROVE  /\ Laid(MapLo(m, a, a, b - a, perms), Over(w, a, b, perms), T)
           /\ MapLo(m, a, a, b - a, perms).damage = m.damage
  <1>1. ENTRIES \in Nat /\ ENTRIES >= 1 /\ RamPages \in Nat
    BY ChunkFacts
  <1>2. PICK n \in Nat : n = b - a
    OBVIOUS
  <1>3. PICK f : f = Min({((ENTRIES - (a % ENTRIES)) % ENTRIES), n})
    OBVIOUS
  <1>a. FrontIs(a, n, f)
    BY <1>3, FrontPages
  <1>4. /\ f \in Nat /\ f <= n
        /\ \A p \in a..a + f - 1 : ChunkOf(p) = ChunkOf(a)
        /\ f > 0 => a % ENTRIES # 0
        /\ f = n \/ \E k \in Nat : a + f = k * ENTRIES
    BY <1>a, Zenon DEF FrontIs
  <1>5. PICK d \in Nat : d = n - f
    BY <1>4
  <1>6. PICK blocks \in Nat : blocks = d \div ENTRIES
    BY <1>1, Division
  <1>7. PICK rest \in Nat : rest = d % ENTRIES /\ rest < ENTRIES
    BY <1>1, Division
  <1>8. PICK be \in Nat : be = blocks * ENTRIES
    BY <1>1
  <1>9. d = be + rest
    BY <1>1, <1>6, <1>7, <1>8, Division
  <1>10. PICK m1 : m1 = EnterPages(m, a, a, f, perms)
    OBVIOUS
  <1>11. PICK m2 : m2 = EnterBlocks(m1, a + f, a + f, blocks, perms)
    OBVIOUS
  <1>12. MapLo(m, a, a, b - a, perms) = EnterPages(m2, a + f + be, a + f + be, rest, perms)
    BY <1>2, <1>3, <1>5, <1>6, <1>7, <1>8, <1>10, <1>11 DEF MapLo
  <1>13. a + f \in Nat /\ a + f + be \in Nat /\ a + f <= a + f + be /\ a + f + be + rest = b
         /\ a + f <= b /\ a + f <= RamPages
    BY <1>1, <1>2, <1>4, <1>5, <1>9
  <1>14. PICK w1 : w1 = Over(w, a, a + f, perms)
    OBVIOUS
  <1>15. Laid(m1, w1, T) /\ m1.damage = m.damage
    <2>1. a + f <= RamPages
      BY <1>13
    <2>2. \A p \in BootRam : a <= p /\ p < a + f => w[p] = "none"
      BY <1>13 DEF BootRam
    <2>3. ASSUME NEW p \in BootRam, a <= p, p < a + f
          PROVE  ChunkOf(p) \in T
      <3>1. p \in a..a + f - 1
        BY <1>4, <2>3 DEF BootRam
      <3>2. f > 0 /\ a < b
        BY <1>2, <1>4, <2>3 DEF BootRam
      <3> QED
        BY <1>4, <3>1, <3>2
    <2> QED
      BY <1>4, <1>10, <1>14, <2>1, <2>2, <2>3, LayPages
  <1>16. PICK w2 : w2 = Over(w, a, a + f + be, perms)
    OBVIOUS
  <1>17. Laid(m2, w2, T) /\ m2.damage = m.damage
    <2>1. CASE f = n
      <3>1. d = 0
        BY <1>4, <1>5, <2>1
      <3>2. blocks = 0 /\ be = 0
        <4>1. 0 = 0 * ENTRIES + 0
          BY <1>1
        <4>2. 0 \div ENTRIES = 0
          BY <1>1, <4>1, DivisionUnique
        <4>3. blocks = 0
          BY <1>6, <3>1, <4>2
        <4> QED
          BY <1>1, <1>8, <4>3
      <3>3. w2 = w1
        BY <1>13, <1>14, <1>16, <3>2
      <3> QED
        BY <1>11, <1>13, <1>15, <3>2, <3>3, LayNoBlocks
    <2>2. ASSUME NEW k \in Nat, a + f = k * ENTRIES
          PROVE  Laid(m2, w2, T) /\ m2.damage = m.damage
      <3>1. PICK s \in Nat : s = a + f
        BY <1>13
      <3>2. PICK e \in Nat : e = s + be
        BY <3>1
      <3>3. e = (k + blocks) * ENTRIES /\ s = k * ENTRIES
        <4>1. (k + blocks) * ENTRIES = k * ENTRIES + blocks * ENTRIES
          BY <1>1
        <4> QED
          BY <1>8, <2>2, <3>1, <3>2, <4>1
      <3>4. \A p \in BootRam : s <= p /\ p < e => w1[p] = "none"
        <4> SUFFICES ASSUME NEW p \in BootRam, s <= p, p < e
                     PROVE  w1[p] = "none"
          OBVIOUS
        <4>1. p \in Int /\ ~(p < a + f) /\ a <= p /\ p < b
          BY <1>4, <1>13, <3>1, <3>2 DEF BootRam
        <4> QED
          BY <1>14, <4>1 DEF Over
      <3>5. m2 = EnterBlocks(m1, s, s, blocks, perms)
        BY <1>11, <3>1
      <3>6. Laid(m2, Over(w1, s, e, perms), T) /\ m2.damage = m1.damage
        BY <1>15, <3>3, <3>4, <3>5, LayBlocks
      <3>7. Over(w1, s, e, perms) = w2
        <4>1. a <= s /\ s <= e /\ e = a + f + be
          BY <1>4, <3>1, <3>2
        <4>2. w1 = Over(w, a, s, perms) /\ w2 = Over(w, a, e, perms)
          BY <1>14, <1>16, <3>1, <4>1
        <4> QED
          BY <4>1, <4>2, OverOver
      <3> QED
        BY <1>15, <3>6, <3>7
    <2> QED
      BY <1>4, <2>1, <2>2
  <1>18. PICK e \in Nat : e = a + f + be
    BY <1>13
  <1>19. ASSUME NEW p \in BootRam, e <= p, p < e + rest
         PROVE  ChunkOf(p) \in T
    <2>1. p \in Nat /\ rest > 0 /\ e <= b /\ e + rest = b /\ a <= e /\ a < b
      BY <1>4, <1>13, <1>18, <1>19 DEF BootRam
    <2>2. f # n
      <3>1. SUFFICES ASSUME f = n PROVE FALSE
        OBVIOUS
      <3> QED
        BY <1>4, <1>5, <1>9, <2>1, <3>1
    <2>3. PICK k \in Nat : a + f = k * ENTRIES
      BY <1>4, <2>2
    <2>4. PICK j \in Nat : j = k + blocks
      OBVIOUS
    <2>5. e = j * ENTRIES
      <3>1. (k + blocks) * ENTRIES = k * ENTRIES + blocks * ENTRIES
        BY <1>1
      <3> QED
        BY <1>8, <1>18, <2>3, <2>4, <3>1
    <2>6. ChunkOf(b) = j /\ b % ENTRIES = rest
      <3>1. b = j * ENTRIES + rest
        BY <2>1, <2>5
      <3> QED
        BY <1>7, <3>1, ChunkAt
    <2>7. PICK r \in Nat : r = p - e /\ r < ENTRIES
      BY <1>1, <1>7, <1>19, <2>1
    <2>8. ChunkOf(p) = j
      <3>1. p = j * ENTRIES + r
        BY <2>1, <2>5, <2>7
      <3> QED
        BY <2>7, <3>1, ChunkAt
    <2> QED
      BY <2>1, <2>6, <2>8
  <1>20. \A p \in BootRam : e <= p /\ p < e + rest => w2[p] = "none"
    <2> SUFFICES ASSUME NEW p \in BootRam, e <= p, p < e + rest
                 PROVE  w2[p] = "none"
      OBVIOUS
    <2>1. p \in Int /\ ~(p < a + f + be) /\ a <= p /\ p < b
      BY <1>4, <1>13, <1>18 DEF BootRam
    <2> QED
      BY <1>16, <2>1 DEF Over
  <1>21. PICK m3 : m3 = EnterPages(m2, e, e, rest, perms)
    OBVIOUS
  <1>22. e + rest <= RamPages
    BY <1>13, <1>18
  <1>23. Laid(m3, Over(w2, e, e + rest, perms), T) /\ m3.damage = m2.damage
    BY <1>17, <1>19, <1>20, <1>21, <1>22, LayPages
  <1>24. Over(w2, e, e + rest, perms) = Over(w, a, b, perms)
    <2>1. e + rest = b /\ a <= e /\ e <= b
      BY <1>4, <1>13, <1>18
    <2>2. w2 = Over(w, a, e, perms)
      BY <1>16, <1>18
    <2> QED
      BY <2>1, <2>2, OverOver
  <1>25. MapLo(m, a, a, b - a, perms) = m3
    BY <1>12, <1>18, <1>21
  <1> QED
    BY <1>17, <1>23, <1>24, <1>25

(* map of a page that is mapped: its entry stays, in a table and in a block. *)
LEMMA RemapPage ==
    ASSUME NEW m, NEW w, NEW T, Laid(m, w, T), NEW v \in BootRam, w[v] # "none", NEW perms,
           NEW r, r = EnterPages(m, v, v, 1, perms)
    PROVE  (\A c \in Chunks : EntryLays(r.l2[c], c, w)) /\ TablesIn(r.l2) = TablesIn(m.l2)
  <1> DEFINE ps == v..v + 1 - 1
             touched == {c \in Chunks : PagesOf(c) \cap ps # {}}
             New(c) == [kind |-> "table", l3 |-> [p \in PagesOf(c) |->
                LET old == IF m.l2[c].kind = "table" THEN m.l2[c].l3[p] ELSE NoPage IN
                IF p \in ps /\ old = NoPage THEN [pa |-> v + (p - v), perms |-> perms]
                ELSE old]]
  <1>1. \A c \in Chunks : r.l2[c] = IF c \notin touched \/ m.l2[c].kind = "block" THEN m.l2[c]
                                    ELSE New(c)
    BY DEF EnterPages
  <1>2. ps = {v} /\ v \in Int /\ v >= 0
    BY ChunkFacts DEF BootRam
  <1>3. ASSUME NEW c \in Chunks
        PROVE  EntryLays(r.l2[c], c, w) /\ (r.l2[c].kind = "table" <=> m.l2[c].kind = "table")
    <2>1. EntryLays(m.l2[c], c, w)
      BY DEF Laid
    <2>2. CASE r.l2[c] = m.l2[c]
      BY <2>1, <2>2
    <2>3. CASE r.l2[c] # m.l2[c]
      <3>1. c \in touched /\ m.l2[c].kind # "block" /\ r.l2[c] = New(c)
        BY <1>1, <2>3
      <3>2. v \in PagesOf(c)
        BY <1>2, <3>1
      <3>3. /\ m.l2[c].kind = "table" /\ \E p \in PagesOf(c) : w[p] # "none"
            /\ \A p \in PagesOf(c) : m.l2[c].l3[p] = PageFor(p, w)
        BY <2>1, <3>1, <3>2 DEF EntryLays
      <3>4. r.l2[c].kind = "table"
        BY <3>1
      <3>5. ASSUME NEW p \in PagesOf(c)
            PROVE  r.l2[c].l3[p] = PageFor(p, w)
        <4>1. r.l2[c].l3[p] = IF p \in ps /\ m.l2[c].l3[p] = NoPage
                              THEN [pa |-> v + (p - v), perms |-> perms] ELSE m.l2[c].l3[p]
          BY <3>1, <3>3
        <4>2. p \in ps => PageFor(p, w) # NoPage
          <5> SUFFICES ASSUME p \in ps
                       PROVE  PageFor(p, w) # NoPage
            OBVIOUS
          <5>1. p = v
            BY <1>2
          <5>2. PageFor(p, w).pa = v
            BY <5>1 DEF PageFor
          <5>3. NoPage.pa = -1
            BY DEF NoPage
          <5> QED
            BY <1>2, <5>2, <5>3
        <4> QED
          BY <3>3, <4>1, <4>2
      <3> QED
        BY <3>3, <3>4, <3>5 DEF EntryLays
    <2> QED
      BY <2>2, <2>3
  <1> QED
    BY <1>3 DEF TablesIn
-----------------------------------------------------------------------------
(* Where the linker script puts the sections, in pages. *)

LEMMA PageRounding ==
    ASSUME NEW a \in Nat
    PROVE  /\ PageDown(a) \in Nat /\ PageUp(a) \in Nat /\ PageDown(a) <= PageUp(a)
           /\ PageDown(a) * PageUnits <= a /\ a <= PageUp(a) * PageUnits
           /\ a < (PageDown(a) + 1) * PageUnits
           /\ PageUp(a) * PageUnits < a + PageUnits
  <1>1. PageUnits \in Nat /\ PageUnits >= 1
    BY BootAssumption
  <1>2. PICK u \in Nat : u = PageUnits /\ u >= 1
    BY <1>1
  <1>3. PICK d \in Nat : d = PageDown(a) /\ d * u <= a /\ a < d * u + u /\ d * u \in Nat
    <2>1. a = (a \div u) * u + (a % u) /\ a \div u \in Nat /\ a % u \in Nat /\ a % u < u
      BY <1>2, Division
    <2>2. PICK d \in Nat : d = a \div u
      BY <2>1
    <2>3. d * u \in Nat
      BY <1>2
    <2>4. d * u <= a /\ a < d * u + u
      BY <1>2, <2>1, <2>2, <2>3
    <2> QED
      BY <1>2, <2>2, <2>3, <2>4 DEF PageDown
  <1>4. PICK x \in Nat : x = a + u - 1
    BY <1>2
  <1>5. PICK e \in Nat : e = PageUp(a) /\ e * u <= x /\ x < e * u + u /\ e * u \in Nat
    <2>1. x = (x \div u) * u + (x % u) /\ x \div u \in Nat /\ x % u \in Nat /\ x % u < u
      BY <1>2, Division
    <2>2. PICK e \in Nat : e = x \div u
      BY <2>1
    <2>3. e * u \in Nat
      BY <1>2
    <2>4. e * u <= x /\ x < e * u + u
      BY <1>2, <2>1, <2>2, <2>3
    <2> QED
      BY <1>2, <1>4, <2>2, <2>3, <2>4 DEF PageUp
  <1>6. a <= e * u /\ e * u < a + u
    BY <1>2, <1>4, <1>5
  <1>7. (d + 1) * u = d * u + u /\ (e + 1) * u = e * u + u
    BY <1>2
  <1>8. d <= e
    <2>1. SUFFICES ASSUME d >= e + 1 PROVE FALSE
      BY <1>3, <1>5
    <2>2. d * u >= (e + 1) * u
      BY <1>2, <2>1, Multiples
    <2> QED
      BY <1>2, <1>3, <1>6, <1>7, <2>2
  <1> QED
    BY <1>2, <1>3, <1>5, <1>6, <1>7, <1>8

(* Rounding keeps the order of addresses. *)
LEMMA PageRoundingOrder ==
    ASSUME NEW a \in Nat, NEW b \in Nat, a <= b
    PROVE  PageDown(a) <= PageDown(b) /\ PageUp(a) <= PageUp(b) /\ PageDown(a) <= PageUp(b)
  <1>1. PICK u \in Nat : u = PageUnits /\ u >= 1
    BY BootAssumption
  <1>2. PICK d \in Nat : d = PageDown(a)
    BY PageRounding
  <1>3. PICK e \in Nat : e = PageDown(b)
    BY PageRounding
  <1>4. PICK f \in Nat : f = PageUp(a)
    BY PageRounding
  <1>5. PICK g \in Nat : g = PageUp(b)
    BY PageRounding
  <1>6. /\ d * u <= a /\ b < (e + 1) * u /\ f * u < a + u /\ b <= g * u /\ d <= f
        /\ d * u \in Nat /\ (e + 1) * u \in Nat /\ f * u \in Nat /\ g * u \in Nat
    <2>1. d * u <= a /\ f * u < a + u /\ d <= f
      BY <1>1, <1>2, <1>4, PageRounding
    <2>2. b < (e + 1) * u /\ b <= g * u
      BY <1>1, <1>3, <1>5, PageRounding
    <2>3. d * u \in Nat /\ (e + 1) * u \in Nat /\ f * u \in Nat /\ g * u \in Nat
      OBVIOUS
    <2> QED
      BY <2>1, <2>2, <2>3
  <1>7. d <= e
    <2>1. SUFFICES ASSUME d >= e + 1 PROVE FALSE
      OBVIOUS
    <2>2. d * u >= (e + 1) * u
      BY <1>1, <2>1, Multiples
    <2> QED
      BY <1>6, <2>2
  <1>8. f <= g
    <2>1. SUFFICES ASSUME f >= g + 1 PROVE FALSE
      OBVIOUS
    <2>2. f * u >= (g + 1) * u
      BY <1>1, <2>1, Multiples
    <2>3. (g + 1) * u = g * u + u
      BY <1>1
    <2> QED
      BY <1>1, <1>6, <2>2, <2>3
  <1> QED
    BY <1>2, <1>3, <1>4, <1>5, <1>6, <1>7, <1>8

LEMMA WholePages ==
    ASSUME NEW k \in Nat
    PROVE  k * PageUnits \in Nat /\ PageDown(k * PageUnits) = k /\ PageUp(k * PageUnits) = k
  <1>1. PICK u \in Nat : u = PageUnits /\ u >= 1
    BY BootAssumption
  <1>2. PICK a \in Nat : a = k * u
    BY <1>1
  <1>3. a = k * u + 0
    BY <1>2
  <1>4. a \div u = k
    BY <1>1, <1>3, DivisionUnique
  <1>5. PICK r \in Nat : r = u - 1 /\ r < u
    BY <1>1
  <1>6. PICK x \in Nat : x = a + u - 1
    BY <1>1
  <1>7. x = k * u + r
    BY <1>1, <1>2, <1>5, <1>6
  <1>8. x \div u = k
    BY <1>1, <1>5, <1>7, DivisionUnique
  <1> QED
    BY <1>1, <1>2, <1>4, <1>6, <1>8 DEF PageDown, PageUp

(* Sections come in the order of the linker script, and those that have    *)
(* permissions of their own share no page.                                 *)
FromPage(s) == PageDown(layout[s][1])
ToPage(s) == PageUp(layout[s][2])
SectionNames == {"text", "rodata", "data", "bss", "kstack", "pfa", "static", "test"}

LayoutPlaced ==
    /\ \E text, rodata, data, bss, pfa, static, test \in Nat :
          /\ layout = Placed(text, rodata, data, bss, pfa, static, test)
          /\ test >= 1
    /\ PageUp(layout.test[2]) <= RamPages

InOrder ==
    /\ \A s \in SectionNames : FromPage(s) \in Nat /\ ToPage(s) \in Nat
    /\ BootPage <= FromPage("text") /\ FromPage("text") <= ToPage("text")
    /\ ToPage("text") = FromPage("rodata") /\ FromPage("rodata") <= ToPage("rodata")
    /\ ToPage("rodata") = FromPage("data") /\ FromPage("data") <= FromPage("bss")
    /\ ToPage("data") <= ToPage("bss") /\ FromPage("bss") <= ToPage("bss")
    /\ ToPage("bss") = FromPage("kstack") /\ FromPage("kstack") <= ToPage("kstack")
    /\ ToPage("kstack") = FromPage("pfa") /\ FromPage("pfa") <= ToPage("pfa")
    /\ ToPage("pfa") = FromPage("static") /\ FromPage("static") <= ToPage("static")
    /\ ToPage("static") = FromPage("test") /\ FromPage("test") < ToPage("test")
    /\ ToPage("test") <= RamPages

LEMMA PlacedInOrder == LayoutPlaced => InOrder
  <1> SUFFICES ASSUME LayoutPlaced PROVE InOrder
    OBVIOUS
  <1>1. PICK text, rodata, data, bss, pfa, static, test \in Nat :
            layout = Placed(text, rodata, data, bss, pfa, static, test) /\ test >= 1
    BY DEF LayoutPlaced
  <1>2. PICK u \in Nat : u = PageUnits /\ u >= 1
    BY BootAssumption
  <1>3. PICK z \in Nat : z = BootPage + BootPages /\ z >= BootPage
    BY ChunkFacts, BootAssumption
  <1>4. PICK t0 \in Nat : t0 = z * u + 1
    BY <1>2
  <1>5. PICK T1 \in Nat : T1 = PageUp(t0 + text)
    BY PageRounding
  <1>6. PICK t1 \in Nat : t1 = T1 * u
    OBVIOUS
  <1>7. PICK R1 \in Nat : R1 = PageUp(t1 + rodata)
    BY PageRounding
  <1>8. PICK r1 \in Nat : r1 = R1 * u
    OBVIOUS
  <1>9. PICK b0 \in Nat : b0 = r1 + data
    OBVIOUS
  <1>10. PICK b1 \in Nat : b1 = b0 + bss
    OBVIOUS
  <1>11. PICK K0 \in Nat : K0 = PageUp(b1)
    BY PageRounding
  <1>12. PICK k0 \in Nat : k0 = K0 * u
    OBVIOUS
  <1>13. PICK f0 \in Nat : f0 = k0 + 2 * u
    OBVIOUS
  <1>14. PICK s0 \in Nat : s0 = f0 + pfa * u
    OBVIOUS
  <1>15. PICK e0 \in Nat : e0 = s0 + static * u
    OBVIOUS
  <1>16. PICK x0 \in Nat : x0 = e0 + test * u
    OBVIOUS
  <1>17. layout = [text |-> <<t0, t1>>, rodata |-> <<t1, r1>>, data |-> <<r1, b0>>, bss |-> <<b0, b1>>,
                   kstack |-> <<k0, f0>>, pfa |-> <<f0, s0>>, static |-> <<s0, e0>>,
                   test |-> <<e0, x0>>]
    BY <1>1, <1>2, <1>3, <1>4, <1>5, <1>6, <1>7, <1>8, <1>9, <1>10, <1>11, <1>12, <1>13, <1>14,
       <1>15, <1>16 DEF Placed
  <1>18. /\ FromPage("text") = PageDown(t0) /\ ToPage("text") = PageUp(t1)
         /\ FromPage("rodata") = PageDown(t1) /\ ToPage("rodata") = PageUp(r1)
         /\ FromPage("data") = PageDown(r1) /\ ToPage("data") = PageUp(b0)
         /\ FromPage("bss") = PageDown(b0) /\ ToPage("bss") = PageUp(b1)
    BY <1>17 DEF FromPage, ToPage
  <1>19. /\ FromPage("kstack") = PageDown(k0) /\ ToPage("kstack") = PageUp(f0)
         /\ FromPage("pfa") = PageDown(f0) /\ ToPage("pfa") = PageUp(s0)
         /\ FromPage("static") = PageDown(s0) /\ ToPage("static") = PageUp(e0)
         /\ FromPage("test") = PageDown(e0) /\ ToPage("test") = PageUp(x0)
    BY <1>17 DEF FromPage, ToPage
  <1>20. ToPage("test") <= RamPages
    BY DEF LayoutPlaced, ToPage
  <1>21. PICK F0 \in Nat : F0 = K0 + 2
    OBVIOUS
  <1>22. PICK S0 \in Nat : S0 = F0 + pfa
    OBVIOUS
  <1>23. PICK E0 \in Nat : E0 = S0 + static
    OBVIOUS
  <1>24. f0 = F0 * u /\ s0 = S0 * u /\ e0 = E0 * u
    <2>1. \A x, y, v \in Nat : (x + y) * v = x * v + y * v
      OBVIOUS
    <2> QED
      BY <1>12, <1>13, <1>14, <1>15, <1>21, <1>22, <1>23, <2>1
  <1>25. PageDown(t1) = T1 /\ PageUp(t1) = T1 /\ PageDown(r1) = R1 /\ PageUp(r1) = R1
         /\ PageDown(k0) = K0 /\ PageUp(k0) = K0
    BY <1>2, <1>6, <1>8, <1>12, WholePages
  <1>26. PageDown(f0) = F0 /\ PageUp(f0) = F0 /\ PageDown(s0) = S0 /\ PageUp(s0) = S0
         /\ PageDown(e0) = E0 /\ PageUp(e0) = E0
    BY <1>2, <1>24, WholePages
  <1>27. \A a \in Nat : PageDown(a) \in Nat /\ PageUp(a) \in Nat
    BY PageRounding
  <1>28. \A s \in SectionNames : FromPage(s) \in Nat /\ ToPage(s) \in Nat
    BY <1>18, <1>19, <1>27 DEF SectionNames
  <1>29. BootPage <= PageDown(t0) /\ PageDown(t0) <= T1
    <2>1. PageDown(z * u) = z /\ z * u \in Nat
      BY <1>2, WholePages
    <2>2. z * u <= t0 /\ t0 <= t0 + text /\ t0 + text \in Nat
      BY <1>4, <2>1
    <2>3. PageDown(z * u) <= PageDown(t0) /\ PageDown(t0) <= PageUp(t0 + text)
      BY <2>1, <2>2, PageRoundingOrder
    <2>4. BootPage \in Nat
      BY ChunkFacts
    <2> QED
      BY <1>3, <1>5, <1>27, <2>1, <2>3, <2>4
  <1>30. T1 <= R1 /\ R1 <= PageDown(b0)
    <2>1. t1 <= t1 + rodata /\ t1 + rodata \in Nat /\ r1 <= b0
      BY <1>9
    <2>2. PageUp(t1) <= PageUp(t1 + rodata) /\ PageDown(r1) <= PageDown(b0)
      BY <2>1, PageRoundingOrder
    <2> QED
      BY <1>7, <1>25, <2>2
  <1>31. PageUp(b0) <= PageUp(b1) /\ PageDown(b0) <= PageUp(b1)
    <2>1. b0 <= b1
      BY <1>10
    <2> QED
      BY <2>1, PageRoundingOrder
  <1>32. E0 < PageUp(x0)
    <2>1. PICK X0 \in Nat : X0 = E0 + test
      OBVIOUS
    <2>2. \A x, y, v \in Nat : (x + y) * v = x * v + y * v
      OBVIOUS
    <2>3. x0 = X0 * u
      BY <1>16, <1>24, <2>1, <2>2
    <2>4. PageUp(x0) = X0
      BY <1>2, <2>3, WholePages
    <2> QED
      BY <1>1, <2>1, <2>4
  <1>33. K0 <= F0 /\ F0 <= S0 /\ S0 <= E0
    BY <1>21, <1>22, <1>23
  <1>34. /\ BootPage <= FromPage("text") /\ FromPage("text") <= ToPage("text")
         /\ ToPage("text") = FromPage("rodata") /\ FromPage("rodata") <= ToPage("rodata")
         /\ ToPage("rodata") = FromPage("data") /\ FromPage("data") <= FromPage("bss")
         /\ ToPage("data") <= ToPage("bss") /\ FromPage("bss") <= ToPage("bss")
    BY <1>18, <1>25, <1>29, <1>30, <1>31
  <1>35. /\ ToPage("bss") = FromPage("kstack") /\ FromPage("kstack") <= ToPage("kstack")
         /\ ToPage("kstack") = FromPage("pfa") /\ FromPage("pfa") <= ToPage("pfa")
         /\ ToPage("pfa") = FromPage("static") /\ FromPage("static") <= ToPage("static")
         /\ ToPage("static") = FromPage("test") /\ FromPage("test") < ToPage("test")
    BY <1>11, <1>18, <1>19, <1>25, <1>26, <1>32, <1>33
  <1> QED
    BY <1>20, <1>28, <1>34, <1>35, Zenon DEF InOrder
-----------------------------------------------------------------------------
(* The regions of map_high. *)

RegionFrom(k) == BootRegions[k].pages[1]
RegionTo(k) == BootRegions[k].pages[2]
RegionPerms(k) == BootRegions[k].perms
InRegion(k, p) == RegionFrom(k) <= p /\ p < RegionTo(k)

LEMMA RegionsAre ==
    /\ Len(BootRegions) = 8
    /\ RegionFrom(1) = 0 /\ RegionTo(1) = BootPage /\ RegionPerms(1) = "RW"
    /\ RegionFrom(2) = FromPage("text") /\ RegionTo(2) = ToPage("text") /\ RegionPerms(2) = "RX"
    /\ RegionFrom(3) = FromPage("rodata") /\ RegionTo(3) = ToPage("rodata") /\ RegionPerms(3) = "RO"
    /\ RegionFrom(4) = FromPage("bss") /\ RegionTo(4) = ToPage("bss") /\ RegionPerms(4) = "RW"
    /\ RegionFrom(5) = FromPage("static") /\ RegionTo(5) = ToPage("static") /\ RegionPerms(5) = "RW"
    /\ RegionFrom(6) = FromPage("kstack") /\ RegionTo(6) = ToPage("kstack") /\ RegionPerms(6) = "RW"
    /\ RegionFrom(7) = FromPage("pfa") /\ RegionTo(7) = ToPage("pfa") /\ RegionPerms(7) = "RW"
    /\ RegionFrom(8) = ToPage("test") /\ RegionTo(8) = RamPages /\ RegionPerms(8) = "RW"
  BY DEF BootRegions, RegionFrom, RegionTo, RegionPerms, Covering, FromPage, ToPage

(* Chunks where map_high may need a level 3 table. *)
TableChunks ==
    (ChunkOf(BootPage)..ChunkOf(ToPage("kstack")))
      \cup {ChunkOf(ToPage("pfa")), ChunkOf(ToPage("static")), ChunkOf(ToPage("test"))}

LEMMA PagesTyped ==
    InOrder => /\ FromPage("text") \in Nat /\ ToPage("text") \in Nat
               /\ FromPage("rodata") \in Nat /\ ToPage("rodata") \in Nat
               /\ FromPage("data") \in Nat /\ ToPage("data") \in Nat
               /\ FromPage("bss") \in Nat /\ ToPage("bss") \in Nat
               /\ FromPage("kstack") \in Nat /\ ToPage("kstack") \in Nat
               /\ FromPage("pfa") \in Nat /\ ToPage("pfa") \in Nat
               /\ FromPage("static") \in Nat /\ ToPage("static") \in Nat
               /\ FromPage("test") \in Nat /\ ToPage("test") \in Nat
  BY DEF InOrder, SectionNames

LEMMA RegionBounds ==
    ASSUME InOrder, NEW k \in 1..8
    PROVE  /\ RegionFrom(k) \in Nat /\ RegionTo(k) \in Nat /\ RegionFrom(k) <= RegionTo(k)
           /\ RegionTo(k) <= RamPages /\ RegionPerms(k) \in BootPerms
  <1>1. BootPage \in Nat /\ RamPages \in Nat
    BY ChunkFacts
  <1>4. k \in {1, 2, 3, 4, 5, 6, 7, 8}
    OBVIOUS
  <1> QED
    BY <1>1, <1>4, RegionsAre, PagesTyped DEF InOrder, BootPerms

LEMMA RegionsApart ==
    ASSUME InOrder, NEW j \in 1..8, NEW k \in 1..8, j # k
    PROVE  RegionTo(j) <= RegionFrom(k) \/ RegionTo(k) <= RegionFrom(j)
  <1>1. BootPage \in Nat /\ RamPages \in Nat
    BY ChunkFacts
  <1>4. k \in {1, 2, 3, 4, 5, 6, 7, 8} /\ j \in {1, 2, 3, 4, 5, 6, 7, 8}
    OBVIOUS
  <1> QED
    BY <1>1, <1>4, RegionsAre, PagesTyped DEF InOrder

(* Where a region begins or ends inside of a chunk there is a table. *)
LEMMA RegionTables ==
    ASSUME InOrder, NEW k \in 1..8
    PROVE  /\ RegionFrom(k) % ENTRIES # 0 => ChunkOf(RegionFrom(k)) \in TableChunks
           /\ RegionTo(k) % ENTRIES # 0 => ChunkOf(RegionTo(k)) \in TableChunks
  <1>1. BootPage \in Nat /\ RamPages \in Nat /\ RamPages % ENTRIES = 0
    BY ChunkFacts
  <1>4. ASSUME NEW p \in Nat, BootPage <= p, p <= ToPage("kstack")
        PROVE  ChunkOf(p) \in TableChunks
    <2>1. ChunkOf(BootPage) <= ChunkOf(p) /\ ChunkOf(p) <= ChunkOf(ToPage("kstack"))
      BY <1>1, PagesTyped, <1>4, ChunkOfOrder
    <2>2. ChunkOf(BootPage) \in Nat /\ ChunkOf(p) \in Nat /\ ChunkOf(ToPage("kstack")) \in Nat
      BY <1>1, PagesTyped, ChunkOfNat
    <2>3. ChunkOf(p) \in ChunkOf(BootPage)..ChunkOf(ToPage("kstack"))
      BY <2>1, <2>2
    <2> QED
      BY <2>3 DEF TableChunks
  <1>5. /\ ChunkOf(ToPage("pfa")) \in TableChunks /\ ChunkOf(ToPage("static")) \in TableChunks
        /\ ChunkOf(ToPage("test")) \in TableChunks
    BY DEF TableChunks
  <1>6. 0 % ENTRIES = 0
    <2>1. ENTRIES \in Nat /\ ENTRIES >= 1
      BY ChunkFacts
    <2>2. 0 = 0 * ENTRIES + 0
      BY <2>1
    <2> QED
      BY <2>1, <2>2, DivisionUnique
  <1>7. /\ BootPage <= FromPage("text") /\ FromPage("text") <= ToPage("kstack")
        /\ BootPage <= ToPage("text") /\ ToPage("text") <= ToPage("kstack")
        /\ BootPage <= FromPage("rodata") /\ FromPage("rodata") <= ToPage("kstack")
        /\ BootPage <= ToPage("rodata") /\ ToPage("rodata") <= ToPage("kstack")
        /\ BootPage <= FromPage("bss") /\ FromPage("bss") <= ToPage("kstack")
        /\ BootPage <= ToPage("bss") /\ ToPage("bss") <= ToPage("kstack")
        /\ BootPage <= FromPage("kstack") /\ FromPage("kstack") <= ToPage("kstack")
        /\ BootPage <= ToPage("kstack") /\ ToPage("kstack") <= ToPage("kstack")
        /\ BootPage <= BootPage
    BY <1>1, PagesTyped DEF InOrder
  <1>8. /\ ChunkOf(FromPage("text")) \in TableChunks /\ ChunkOf(ToPage("text")) \in TableChunks
        /\ ChunkOf(FromPage("rodata")) \in TableChunks /\ ChunkOf(ToPage("rodata")) \in TableChunks
        /\ ChunkOf(FromPage("bss")) \in TableChunks /\ ChunkOf(ToPage("bss")) \in TableChunks
        /\ ChunkOf(FromPage("kstack")) \in TableChunks /\ ChunkOf(ToPage("kstack")) \in TableChunks
        /\ ChunkOf(BootPage) \in TableChunks
    BY <1>1, PagesTyped, <1>4, <1>7
  <1>9. ToPage("kstack") = FromPage("pfa") /\ ToPage("pfa") = FromPage("static")
    BY DEF InOrder
  <1>10. k \in {1, 2, 3, 4, 5, 6, 7, 8}
    OBVIOUS
  <1> QED
    BY <1>1, <1>5, <1>6, <1>8, <1>9, <1>10, RegionsAre

(* Five chunks and three more: the tables of early boot are at most 15. *)
LEMMA FewTableChunks ==
    ASSUME InOrder, ChunkOf(ToPage("kstack")) - ChunkOf(BootPage) <= 4
    PROVE  IsFiniteSet(TableChunks) /\ Cardinality(TableChunks) <= 8
  <1>1. BootPage \in Nat /\ ToPage("kstack") \in Nat
    BY ChunkFacts DEF InOrder, SectionNames
  <1>2. PICK a \in Nat : a = ChunkOf(BootPage)
    BY <1>1, ChunkOfNat
  <1>3. PICK b \in Nat : b = ChunkOf(ToPage("kstack"))
    BY <1>1, ChunkOfNat
  <1>4. IsFiniteSet(a..b) /\ Cardinality(a..b) <= 5 /\ Cardinality(a..b) \in Nat
    <2>1. IsFiniteSet(a..b) /\ Cardinality(a..b) = IF a > b THEN 0 ELSE b - a + 1
      BY FS_Interval
    <2> QED
      BY <1>2, <1>3, <2>1
  <1>5. ASSUME NEW S, IsFiniteSet(S), NEW x
        PROVE  /\ IsFiniteSet(S \cup {x}) /\ Cardinality(S \cup {x}) \in Nat
               /\ Cardinality(S \cup {x}) <= Cardinality(S) + 1
    <2>1. IsFiniteSet(S \cup {x}) /\ (Cardinality(S \cup {x}) = Cardinality(S)
                                       \/ Cardinality(S \cup {x}) = Cardinality(S) + 1)
      BY <1>5, FS_AddElement
    <2>2. Cardinality(S) \in Nat
      BY <1>5, FS_CardinalityType
    <2> QED
      BY <2>1, <2>2
  <1>6. PICK x : x = ChunkOf(ToPage("pfa"))
    OBVIOUS
  <1>7. PICK y : y = ChunkOf(ToPage("static"))
    OBVIOUS
  <1>8. PICK z : z = ChunkOf(ToPage("test"))
    OBVIOUS
  <1>9. PICK S1 : S1 = (a..b) \cup {x}
    OBVIOUS
  <1>10. PICK S2 : S2 = S1 \cup {y}
    OBVIOUS
  <1>11. PICK S3 : S3 = S2 \cup {z}
    OBVIOUS
  <1>12. IsFiniteSet(S1) /\ Cardinality(S1) \in Nat /\ Cardinality(S1) <= Cardinality(a..b) + 1
    BY <1>4, <1>5, <1>9
  <1>13. IsFiniteSet(S2) /\ Cardinality(S2) \in Nat /\ Cardinality(S2) <= Cardinality(S1) + 1
    BY <1>5, <1>10, <1>12
  <1>14. IsFiniteSet(S3) /\ Cardinality(S3) \in Nat /\ Cardinality(S3) <= Cardinality(S2) + 1
    BY <1>5, <1>11, <1>13
  <1>15. TableChunks = S3
    BY <1>2, <1>3, <1>6, <1>7, <1>8, <1>9, <1>10, <1>11 DEF TableChunks
  <1>16. Cardinality(S3) <= 8
    BY <1>4, <1>12, <1>13, <1>14
  <1> QED
    BY <1>14, <1>15, <1>16

(* The pages of the regions mapped so far have their permissions, and no   *)
(* other page is mapped.                                                   *)
LaidUpTo(w) ==
    /\ Laid([l2 |-> l2, tables |-> tables, damage |-> damage], w, TableChunks)
    /\ \A k \in 1..8 : \A p \in BootRam :
          InRegion(k, p) => w[p] = IF k < stage THEN RegionPerms(k) ELSE "none"
    /\ \A p \in BootRam : w[p] # "none" => \E k \in 1..8 : InRegion(k, p)

MapInv ==
    /\ stage \in 0..9 /\ maps \in Nat
    /\ maps = 0 => damage = {}
    /\ \A word \in damage : word[1] \in FreeRam
    /\ stage < 9 => maps = 0
    /\ stage = 0 => l2 = [c \in Chunks |-> NoEntry] /\ tables = 0
    /\ stage > 0 => LayoutPlaced /\ \E w : LaidUpTo(w)

LEMMA MapInvInit == BootInit => MapInv
  <1> SUFFICES ASSUME BootInit PROVE MapInv
    OBVIOUS
  <1>1. stage = 0 /\ maps = 0 /\ damage = {} /\ tables = 0 /\ l2 = [c \in Chunks |-> NoEntry]
    BY DEF BootInit
  <1>2. stage \in 0..9 /\ maps \in Nat /\ ~(stage > 0)
    BY <1>1
  <1> QED
    BY <1>1, <1>2 DEF MapInv

(* Before the first region nothing is mapped. *)
LEMMA NothingLaid ==
    LayoutPlaced /\ stage = 1 /\ l2 = [c \in Chunks |-> NoEntry] /\ tables = 7 => \E w : LaidUpTo(w)
  <1> SUFFICES ASSUME LayoutPlaced, stage = 1, l2 = [c \in Chunks |-> NoEntry], tables = 7
               PROVE  \E w : LaidUpTo(w)
    OBVIOUS
  <1>1. PICK w : w = [p \in BootRam |-> "none"]
    OBVIOUS
  <1>2. PICK m : m = [l2 |-> l2, tables |-> tables, damage |-> damage]
    OBVIOUS
  <1>3. \A c \in Chunks : EntryLays(m.l2[c], c, w)
    <2> SUFFICES ASSUME NEW c \in Chunks
                 PROVE  EntryLays(m.l2[c], c, w)
      OBVIOUS
    <2>1. m.l2[c] = NoEntry
      BY <1>2
    <2>2. \A p \in PagesOf(c) : w[p] = "none"
      BY <1>1, ChunkFacts
    <2> QED
      BY <2>1, <2>2 DEF EntryLays
  <1>4. TablesIn(m.l2) = {}
    BY <1>2, EntryKinds DEF TablesIn
  <1>5. m.tables = 7 + Cardinality(TablesIn(m.l2))
    <2>1. Cardinality({}) = 0
      BY FS_EmptySet
    <2> QED
      BY <1>2, <1>4, <2>1
  <1>6. w \in Wanted
    BY <1>1 DEF Wanted
  <1>7. DOMAIN m = {"l2", "tables", "damage"}
    BY <1>2
  <1>8. Laid(m, w, TableChunks)
    BY <1>3, <1>4, <1>5, <1>6, <1>7 DEF Laid
  <1>9. \A p \in BootRam : w[p] = "none"
    BY <1>1
  <1>10. \A k \in 1..8 : \A p \in BootRam :
            InRegion(k, p) => w[p] = IF k < stage THEN RegionPerms(k) ELSE "none"
    BY <1>9
  <1>11. LaidUpTo(w)
    BY <1>2, <1>8, <1>9, <1>10 DEF LaidUpTo
  <1> QED
    BY <1>11

LEMMA MapInvLink ==
    ASSUME MapInv, Link
    PROVE  MapInv'
  <1>1. stage = 0 /\ stage' = 1 /\ tables' = 7 /\ l2' = l2 /\ damage' = damage /\ maps' = maps
    BY DEF Link
  <1>2. l2' = [c \in Chunks |-> NoEntry] /\ maps = 0 /\ damage = {}
    BY <1>1 DEF MapInv
  <1>3. LayoutPlaced'
    <2>1. ImageSizes \subseteq Nat /\ TailSizes \subseteq Nat \ {0}
      BY BootAssumption
    <2>2. PICK text, rodata, data, bss \in ImageSizes, pfa, static, test \in TailSizes :
              /\ layout' = Placed(text, rodata, data, bss, pfa, static, test)
              /\ PageUp(layout'.test[2]) <= RamPages
      BY DEF Link
    <2>3. text \in Nat /\ rodata \in Nat /\ data \in Nat /\ bss \in Nat /\ pfa \in Nat
          /\ static \in Nat /\ test \in Nat /\ test >= 1
      BY <2>1
    <2> QED
      BY <2>2, <2>3, Zenon DEF LayoutPlaced
  <1>4. (LayoutPlaced /\ stage = 1 /\ l2 = [c \in Chunks |-> NoEntry] /\ tables = 7)'
    BY <1>1, <1>2, <1>3
  <1>5. (\E w : LaidUpTo(w))'
    BY <1>4, NothingLaid, PTL
  <1> QED
    BY <1>1, <1>2, <1>3, <1>5 DEF MapInv

LEMMA RegionsStay ==
    ASSUME layout' = layout
    PROVE  /\ BootRegions' = BootRegions /\ TableChunks' = TableChunks
           /\ LayoutPlaced => LayoutPlaced'
  BY DEF BootRegions, Covering, TableChunks, ToPage, LayoutPlaced

LEMMA MapInvRegion ==
    ASSUME MapInv, MapRegion
    PROVE  MapInv'
  <1>1. PICK k \in 1..8 : k = stage
    BY RegionsAre DEF MapRegion
  <1>2. LayoutPlaced /\ maps = 0 /\ damage = {} /\ InOrder
    BY <1>1, PlacedInOrder DEF MapInv
  <1>3. PICK w : LaidUpTo(w)
    BY <1>1 DEF MapInv
  <1>4. PICK m : m = [l2 |-> l2, tables |-> tables, damage |-> damage]
    OBVIOUS
  <1>5. PICK a \in Nat : a = RegionFrom(k)
    BY <1>2, RegionBounds
  <1>6. PICK b \in Nat : b = RegionTo(k) /\ a <= b /\ b <= RamPages
    BY <1>2, <1>5, RegionBounds
  <1>7. PICK perms \in BootPerms : perms = RegionPerms(k)
    BY <1>2, RegionBounds
  <1>8. PICK r : r = MapLo(m, a, a, b - a, perms)
    OBVIOUS
  <1>9. /\ l2' = r.l2 /\ tables' = r.tables /\ damage' = r.damage
        /\ stage' = k + 1 /\ layout' = layout /\ maps' = maps
    BY <1>1, <1>4, <1>5, <1>6, <1>7, <1>8 DEF MapRegion, RegionFrom, RegionTo, RegionPerms
  <1>10. Laid(m, w, TableChunks) /\ w \in Wanted
    BY <1>3, <1>4 DEF LaidUpTo, Laid
  <1>11. \A p \in BootRam : a <= p /\ p < b => w[p] = "none"
    BY <1>1, <1>3, <1>5, <1>6 DEF LaidUpTo, InRegion
  <1>12. /\ a % ENTRIES # 0 => ChunkOf(a) \in TableChunks
         /\ b % ENTRIES # 0 => ChunkOf(b) \in TableChunks
    BY <1>2, <1>5, <1>6, RegionTables
  <1>13. PICK w2 : w2 = Over(w, a, b, perms)
    OBVIOUS
  <1>14. Laid(r, w2, TableChunks) /\ r.damage = m.damage
    BY <1>6, <1>8, <1>10, <1>11, <1>12, <1>13, LayRegion
  <1>15. damage' = {}
    BY <1>2, <1>4, <1>9, <1>14
  <1>16. PICK m2 : m2 = [l2 |-> l2', tables |-> tables', damage |-> damage']
    OBVIOUS
  <1>17. Laid(m2, w2, TableChunks)
    <2>1. m2.l2 = r.l2 /\ m2.tables = r.tables /\ DOMAIN m2 = {"l2", "tables", "damage"}
      BY <1>9, <1>16
    <2> QED
      BY <1>14, <2>1 DEF Laid
  <1>18. ASSUME NEW j \in 1..8, NEW p \in BootRam, InRegion(j, p)
         PROVE  w2[p] = IF j < k + 1 THEN RegionPerms(j) ELSE "none"
    <2>1. CASE j = k
      <3>1. a <= p /\ p < b
        BY <1>5, <1>6, <1>18, <2>1 DEF InRegion
      <3> QED
        BY <1>7, <1>13, <2>1, <3>1 DEF Over
    <2>2. CASE j # k
      <3>1. p \in Int
        BY DEF BootRam
      <3>2. RegionTo(j) <= a \/ b <= RegionFrom(j)
        BY <1>2, <1>5, <1>6, <2>2, RegionsApart
      <3>3. RegionFrom(j) \in Nat /\ RegionTo(j) \in Nat
        BY <1>2, RegionBounds
      <3>4. ~(a <= p /\ p < b)
        BY <1>18, <3>1, <3>2, <3>3 DEF InRegion
      <3>5. w2[p] = w[p]
        BY <1>13, <3>4 DEF Over
      <3>6. w[p] = IF j < k THEN RegionPerms(j) ELSE "none"
        BY <1>1, <1>3, <1>18 DEF LaidUpTo
      <3>7. j < k <=> j < k + 1
        BY <2>2
      <3> QED
        BY <3>5, <3>6, <3>7
    <2> QED
      BY <2>1, <2>2
  <1>19. ASSUME NEW p \in BootRam, w2[p] # "none"
         PROVE  \E j \in 1..8 : InRegion(j, p)
    <2>1. CASE a <= p /\ p < b
      BY <1>5, <1>6, <2>1 DEF InRegion
    <2>2. CASE ~(a <= p /\ p < b)
      <3>1. w[p] # "none"
        BY <1>13, <1>19, <2>2 DEF Over
      <3> QED
        BY <1>3, <3>1 DEF LaidUpTo
    <2> QED
      BY <2>1, <2>2
  <1>20. BootRegions' = BootRegions /\ TableChunks' = TableChunks /\ LayoutPlaced'
    BY <1>2, <1>9, RegionsStay
  <1>21. /\ \A j : RegionFrom(j)' = RegionFrom(j) /\ RegionTo(j)' = RegionTo(j)
                   /\ RegionPerms(j)' = RegionPerms(j)
         /\ \A j, p : InRegion(j, p)' <=> InRegion(j, p)
    BY <1>20 DEF RegionFrom, RegionTo, RegionPerms, InRegion
  <1>22. Laid([l2 |-> l2', tables |-> tables', damage |-> damage'], w2, TableChunks')
    BY <1>16, <1>17, <1>20
  <1>23. \A j \in 1..8 : \A p \in BootRam :
            InRegion(j, p)' => w2[p] = IF j < stage' THEN RegionPerms(j)' ELSE "none"
    BY <1>9, <1>18, <1>21
  <1>24. \A p \in BootRam : w2[p] # "none" => \E j \in 1..8 : InRegion(j, p)'
    BY <1>19, <1>21
  <1>25. LaidUpTo(w2)'
    BY <1>22, <1>23, <1>24, Zenon DEF LaidUpTo
  <1>26. stage' \in 0..9 /\ stage' # 0 /\ maps' = 0
    BY <1>2, <1>9
  <1>27. (\E v : LaidUpTo(v))'
    BY <1>25
  <1> QED
    BY <1>15, <1>20, <1>26, <1>27 DEF MapInv

LEMMA MapInvMap ==
    ASSUME MapInv, Map
    PROVE  MapInv'
  <1>1. stage = 9 /\ maps \in Nat
    BY RegionsAre DEF Map, MapInv
  <1>2. LayoutPlaced /\ InOrder
    BY <1>1, PlacedInOrder DEF MapInv
  <1>3. PICK w : LaidUpTo(w)
    BY <1>1 DEF MapInv
  <1>4. PICK v \in ToPage("test")..RamPages - 1, perms \in {"RW", "RO"} :
            l2' = MapPages(v, perms).l2 /\ damage' = MapPages(v, perms).damage
    BY DEF Map, ToPage
  <1>5. /\ maps' = maps + 1 /\ stage' = stage /\ layout' = layout /\ tables' = tables
    BY DEF Map
  <1>6. v \in BootRam /\ ToPage("test") <= v /\ v < RamPages
    BY <1>2, <1>4, ChunkFacts DEF InOrder, SectionNames, BootRam
  <1>7. InRegion(8, v)
    BY <1>6, RegionsAre DEF InRegion
  <1>8. w[v] = "RW"
    <2>1. 8 \in 1..8 /\ 8 < stage
      BY <1>1
    <2>2. w[v] = IF 8 < stage THEN RegionPerms(8) ELSE "none"
      BY <1>3, <1>6, <1>7, <2>1 DEF LaidUpTo
    <2> QED
      BY <2>1, <2>2, RegionsAre
  <1>9. PICK m : m = [l2 |-> l2, tables |-> tables, damage |-> damage]
    OBVIOUS
  <1>10. PICK r : r = EnterPages(m, v, v, 1, perms)
    OBVIOUS
  <1>11. l2' = r.l2 /\ damage' = r.damage
    BY <1>4, <1>9, <1>10, MapPagesTable
  <1>12. Laid(m, w, TableChunks)
    BY <1>3, <1>9 DEF LaidUpTo
  <1>13. (\A c \in Chunks : EntryLays(r.l2[c], c, w)) /\ TablesIn(r.l2) = TablesIn(m.l2)
    <2>1. w[v] # "none"
      BY <1>8
    <2> QED
      BY <1>6, <1>10, <1>12, <2>1, RemapPage
  <1>14. PICK m2 : m2 = [l2 |-> l2', tables |-> tables', damage |-> damage']
    OBVIOUS
  <1>15. Laid(m2, w, TableChunks)
    <2>1. m2.l2 = r.l2 /\ m2.tables = m.tables /\ DOMAIN m2 = {"l2", "tables", "damage"}
      BY <1>5, <1>9, <1>11, <1>14
    <2> QED
      BY <1>12, <1>13, <2>1 DEF Laid
  <1>16. BootRegions' = BootRegions /\ TableChunks' = TableChunks /\ LayoutPlaced'
    BY <1>2, <1>5, RegionsStay
  <1>17. /\ \A j : RegionFrom(j)' = RegionFrom(j) /\ RegionTo(j)' = RegionTo(j)
                   /\ RegionPerms(j)' = RegionPerms(j)
         /\ \A j, p : InRegion(j, p)' <=> InRegion(j, p)
    BY <1>16 DEF RegionFrom, RegionTo, RegionPerms, InRegion
  <1>18. Laid([l2 |-> l2', tables |-> tables', damage |-> damage'], w, TableChunks')
    BY <1>14, <1>15, <1>16
  <1>19. \A j \in 1..8 : \A p \in BootRam :
            InRegion(j, p)' => w[p] = IF j < stage' THEN RegionPerms(j)' ELSE "none"
    BY <1>3, <1>5, <1>17 DEF LaidUpTo
  <1>20. \A p \in BootRam : w[p] # "none" => \E j \in 1..8 : InRegion(j, p)'
    BY <1>3, <1>17 DEF LaidUpTo
  <1>21. LaidUpTo(w)'
    BY <1>18, <1>19, <1>20, Zenon DEF LaidUpTo
  <1>22. (\E u : LaidUpTo(u))'
    BY <1>21
  <1>23. stage' = 9 /\ maps' \in Nat /\ maps' # 0
    BY <1>1, <1>5
  <1>24. \A word \in damage' : word[1] \in FreeRam'
    <2>1. FreeRam' = FreeRam /\ FreeRam = ToPage("test")..RamPages - 1
      BY <1>5 DEF FreeRam, ToPage
    <2>2. v..v + 1 - 1 = {v}
      BY <1>6, ChunkFacts DEF BootRam
    <2>3. damage' = damage \cup {<<l2[ChunkOf(p)].pa, p % ENTRIES>> : p \in
                                 {p \in {v} : l2[ChunkOf(p)].kind = "block"}}
      BY <1>9, <1>10, <1>11, <2>2 DEF EnterPages
    <2>4. ASSUME l2[ChunkOf(v)].kind = "block"
          PROVE  l2[ChunkOf(v)].pa \in FreeRam
      <3>1. PICK c \in Chunks : c = ChunkOf(v) /\ v \in PagesOf(c) /\ c \in Nat /\ v \in Nat
        BY <1>6, ChunkOfRam, ChunkFacts
      <3>2. EntryLays(l2[c], c, w)
        BY <1>9, <1>12 DEF Laid
      <3>3. l2[c].pa = c * ENTRIES /\ \A p \in PagesOf(c) : w[p] = l2[c].perms
        BY <2>4, <3>1, <3>2, EntryKinds DEF EntryLays
      <3>4. \A p \in PagesOf(c) : w[p] = "RW"
        BY <1>8, <3>1, <3>3
      <3>5. PICK a \in Nat : a = c * ENTRIES /\ a \in PagesOf(c) /\ a <= v
        <4>1. c * ENTRIES \in PagesOf(c) /\ c * ENTRIES \in Nat
          BY <3>1, ChunkFacts
        <4>2. c * ENTRIES <= v
          BY <3>1, <4>1, ChunkFacts DEF PagesOf
        <4> QED
          BY <4>1, <4>2
      <3>6. PICK t \in Nat : t = ToPage("test") /\ FromPage("test") < t /\ FromPage("test") \in Nat
        BY <1>2 DEF InOrder, SectionNames
      <3>7. a >= t
        <4> SUFFICES ASSUME a < t PROVE FALSE
          BY <3>5, <3>6
        <4>1. PICK q \in Nat : q = t - 1 /\ a <= q /\ q < v /\ FromPage("test") <= q /\ q < t
          BY <1>6, <3>5, <3>6
        <4>2. q \in PagesOf(c) /\ q \in BootRam
          BY <1>6, <3>1, <3>5, <4>1, ChunkFacts DEF PagesOf, BootRam
        <4>3. ASSUME NEW k \in 1..8
              PROVE  ~InRegion(k, q)
          <5>1. k \in {1, 2, 3, 4, 5, 6, 7, 8} /\ BootPage \in Nat /\ RamPages \in Nat
            BY ChunkFacts
          <5> QED
            BY <1>2, PagesTyped, <3>6, <4>1, <5>1, RegionsAre DEF InOrder, InRegion
        <4>4. w[q] = "none"
          BY <1>3, <4>2, <4>3 DEF LaidUpTo
        <4> QED
          BY <3>4, <4>2, <4>4
      <3>8. a <= RamPages - 1 /\ RamPages \in Int
        BY <1>6, <3>1, <3>5, ChunkFacts DEF BootRam
      <3>9. a \in FreeRam
        BY <2>1, <3>5, <3>6, <3>7, <3>8
      <3> QED
        BY <3>1, <3>3, <3>5, <3>9
    <2>5. \A word \in damage : word[1] \in FreeRam
      BY DEF MapInv
    <2> QED
      BY <2>1, <2>3, <2>4, <2>5
  <1> QED
    BY <1>16, <1>22, <1>23, <1>24 DEF MapInv

LEMMA MapInvNext == MapInv /\ [BootNext]_bootVars => MapInv'
  <1>1. ASSUME MapInv, UNCHANGED bootVars
        PROVE  MapInv'
    <2>1. layout' = layout /\ stage' = stage /\ l2' = l2 /\ tables' = tables /\ damage' = damage
          /\ maps' = maps
      BY <1>1 DEF bootVars
    <2>2. BootRegions' = BootRegions /\ TableChunks' = TableChunks
      BY <2>1, RegionsStay
    <2>3. \A w : LaidUpTo(w)' <=> LaidUpTo(w)
      BY <2>1, <2>2 DEF LaidUpTo, InRegion, RegionFrom, RegionTo, RegionPerms
    <2>4. LayoutPlaced' <=> LayoutPlaced
      BY <2>1 DEF LayoutPlaced
    <2>5. FreeRam' = FreeRam
      BY <2>1 DEF FreeRam
    <2> QED
      BY <1>1, <2>1, <2>3, <2>4, <2>5, Zenon DEF MapInv
  <1> QED
    BY <1>1, MapInvLink, MapInvRegion, MapInvMap DEF BootNext

(* What the entries say, translate_va finds. *)
LEMMA TranslatesAsLaid ==
    ASSUME NEW w, LaidUpTo(w), NEW p \in BootRam
    PROVE  TranslateVa(p) = PageFor(p, w)
  <1>1. PICK c \in Chunks : c = ChunkOf(p) /\ p \in PagesOf(c) /\ c \in Nat /\ p \in Nat
    BY ChunkOfRam, ChunkFacts
  <1>2. EntryLays(l2[c], c, w)
    <2>1. PICK m : m = [l2 |-> l2, tables |-> tables, damage |-> damage]
      OBVIOUS
    <2>2. m.l2 = l2 /\ Laid(m, w, TableChunks)
      BY <2>1 DEF LaidUpTo
    <2> QED
      BY <2>2 DEF Laid
  <1>3. TranslateVa(p) = CASE l2[c].kind = "invalid" -> NoPage
                           [] l2[c].kind = "block" -> [pa |-> l2[c].pa + (p % ENTRIES), perms |-> l2[c].perms]
                           [] OTHER -> l2[c].l3[p]
    BY <1>1 DEF TranslateVa
  <1>4. c * ENTRIES + (p % ENTRIES) = p
    BY <1>1, ChunkFacts, Division DEF ChunkOf
  <1>5. CASE l2[c] = NoEntry /\ \A q \in PagesOf(c) : w[q] = "none"
    BY <1>1, <1>3, <1>5, EntryKinds DEF PageFor
  <1>6. CASE /\ l2[c].kind = "block" /\ l2[c].pa = c * ENTRIES /\ l2[c].perms \in BootPerms
             /\ \A q \in PagesOf(c) : w[q] = l2[c].perms
    <2>1. w[p] = l2[c].perms /\ w[p] # "none"
      BY <1>1, <1>6 DEF BootPerms
    <2>2. TranslateVa(p) = [pa |-> p, perms |-> w[p]]
      BY <1>3, <1>4, <1>6, <2>1, EntryKinds
    <2> QED
      BY <2>1, <2>2 DEF PageFor
  <1>7. CASE /\ l2[c].kind = "table" /\ \E q \in PagesOf(c) : w[q] # "none"
             /\ \A q \in PagesOf(c) : l2[c].l3[q] = PageFor(q, w)
    BY <1>1, <1>3, <1>7, EntryKinds
  <1> QED
    BY <1>2, <1>5, <1>6, <1>7 DEF EntryLays

LEMMA MapInvSegments ==
    ASSUME MapInv
    PROVE  SegmentsMapped
  <1> SUFFICES ASSUME stage > Len(BootRegions)
               PROVE  /\ \A p \in Holding("text") : TranslateVa(p) = [pa |-> p, perms |-> "RX"]
                      /\ \A p \in Holding("rodata") : TranslateVa(p) = [pa |-> p, perms |-> "RO"]
                      /\ \A s \in {"bss", "kstack", "pfa", "static"} : \A p \in Holding(s) :
                             TranslateVa(p) = [pa |-> p, perms |-> "RW"]
                      /\ \A p \in Holding("data") : TranslateVa(p) = NoPage <=> p \notin Holding("bss")
                      /\ \A p \in Holding("test") : TranslateVa(p) = NoPage
                      /\ \A p \in FreeRam : TranslateVa(p) = [pa |-> p, perms |-> "RW"]
    BY Zenon DEF SegmentsMapped
  <1>1. stage = 9
    BY RegionsAre DEF MapInv
  <1>2. InOrder
    BY <1>1, PlacedInOrder DEF MapInv
  <1>3. PICK w : LaidUpTo(w)
    BY <1>1 DEF MapInv
  <1>4. ASSUME NEW k \in 1..8, NEW p \in BootRam, InRegion(k, p)
        PROVE  TranslateVa(p) = [pa |-> p, perms |-> RegionPerms(k)]
    <2>1. w[p] = RegionPerms(k)
      BY <1>1, <1>3, <1>4 DEF LaidUpTo
    <2>2. RegionPerms(k) # "none"
      BY <1>2, RegionBounds DEF BootPerms
    <2>3. TranslateVa(p) = PageFor(p, w)
      BY <1>3, TranslatesAsLaid
    <2> QED
      BY <2>1, <2>2, <2>3 DEF PageFor
  <1>5. ASSUME NEW p \in BootRam, \A k \in 1..8 : ~InRegion(k, p)
        PROVE  TranslateVa(p) = NoPage
    <2>1. w[p] = "none"
      BY <1>3, <1>5 DEF LaidUpTo
    <2>2. TranslateVa(p) = PageFor(p, w)
      BY <1>3, TranslatesAsLaid
    <2> QED
      BY <2>1, <2>2 DEF PageFor
  <1>6. \A s : \A p : p \in Holding(s) <=> p \in BootRam /\ FromPage(s) <= p /\ p < ToPage(s)
    BY DEF Holding, FromPage, ToPage, BootRam
  <1>7. \A p \in Holding("text") : TranslateVa(p) = [pa |-> p, perms |-> "RX"]
    <2> SUFFICES ASSUME NEW p \in Holding("text")
                 PROVE  TranslateVa(p) = [pa |-> p, perms |-> "RX"]
      OBVIOUS
    <2>1. p \in BootRam /\ InRegion(2, p) /\ 2 \in 1..8
      BY <1>6, RegionsAre DEF InRegion
    <2> QED
      BY <1>4, <2>1, RegionsAre
  <1>8. \A p \in Holding("rodata") : TranslateVa(p) = [pa |-> p, perms |-> "RO"]
    <2> SUFFICES ASSUME NEW p \in Holding("rodata")
                 PROVE  TranslateVa(p) = [pa |-> p, perms |-> "RO"]
      OBVIOUS
    <2>1. p \in BootRam /\ InRegion(3, p) /\ 3 \in 1..8
      BY <1>6, RegionsAre DEF InRegion
    <2> QED
      BY <1>4, <2>1, RegionsAre
  <1>9. \A s \in {"bss", "kstack", "pfa", "static"} : \A p \in Holding(s) :
            TranslateVa(p) = [pa |-> p, perms |-> "RW"]
    <2> SUFFICES ASSUME NEW s \in {"bss", "kstack", "pfa", "static"}, NEW p \in Holding(s)
                 PROVE  TranslateVa(p) = [pa |-> p, perms |-> "RW"]
      OBVIOUS
    <2>1. PICK k \in 1..8 : RegionFrom(k) = FromPage(s) /\ RegionTo(k) = ToPage(s) /\ RegionPerms(k) = "RW"
      <3>1. 4 \in 1..8 /\ 5 \in 1..8 /\ 6 \in 1..8 /\ 7 \in 1..8
        OBVIOUS
      <3> QED
        BY <3>1, RegionsAre
    <2>2. p \in BootRam /\ InRegion(k, p)
      BY <1>6, <2>1 DEF InRegion
    <2> QED
      BY <1>4, <2>1, <2>2
  <1>10. BootPage \in Nat /\ RamPages \in Nat
    BY ChunkFacts
  <1>11. \A p \in Holding("data") : TranslateVa(p) = NoPage <=> p \notin Holding("bss")
    <2> SUFFICES ASSUME NEW p \in Holding("data")
                 PROVE  TranslateVa(p) = NoPage <=> p \notin Holding("bss")
      OBVIOUS
    <2>1. p \in BootRam /\ p \in Int /\ FromPage("data") <= p /\ p < ToPage("data")
      BY <1>6 DEF BootRam
    <2>2. CASE p \in Holding("bss")
      <3>1. TranslateVa(p).pa = p /\ NoPage.pa = -1 /\ p # -1
        BY <1>9, <2>1, <2>2 DEF NoPage, BootRam
      <3> QED
        BY <2>2, <3>1
    <2>3. CASE p \notin Holding("bss")
      <3>1. p < FromPage("bss")
        BY <1>2, <1>6, <1>10, PagesTyped, <2>1, <2>3 DEF InOrder
      <3>2. ASSUME NEW k \in 1..8
            PROVE  ~InRegion(k, p)
        <4>1. k \in {1, 2, 3, 4, 5, 6, 7, 8}
          OBVIOUS
        <4> QED
          BY <1>2, <1>10, PagesTyped, <2>1, <3>1, <4>1, RegionsAre DEF InOrder, InRegion
      <3> QED
        BY <1>5, <2>1, <2>3, <3>2
    <2> QED
      BY <2>2, <2>3
  <1>12. \A p \in Holding("test") : TranslateVa(p) = NoPage
    <2> SUFFICES ASSUME NEW p \in Holding("test")
                 PROVE  TranslateVa(p) = NoPage
      OBVIOUS
    <2>1. p \in BootRam /\ p \in Int /\ FromPage("test") <= p /\ p < ToPage("test")
      BY <1>6 DEF BootRam
    <2>2. ASSUME NEW k \in 1..8
          PROVE  ~InRegion(k, p)
      <3>1. k \in {1, 2, 3, 4, 5, 6, 7, 8}
        OBVIOUS
      <3> QED
        BY <1>2, <1>10, PagesTyped, <2>1, <3>1, RegionsAre DEF InOrder, InRegion
    <2> QED
      BY <1>5, <2>1, <2>2
  <1>13. \A p \in FreeRam : TranslateVa(p) = [pa |-> p, perms |-> "RW"]
    <2> SUFFICES ASSUME NEW p \in FreeRam
                 PROVE  TranslateVa(p) = [pa |-> p, perms |-> "RW"]
      OBVIOUS
    <2>1. p \in BootRam /\ InRegion(8, p) /\ 8 \in 1..8
      <3>1. p \in ToPage("test")..RamPages - 1 /\ ToPage("test") \in Nat /\ RamPages \in Nat
        BY <1>2, <1>10, PagesTyped DEF FreeRam, ToPage
      <3> QED
        BY <3>1, RegionsAre DEF InRegion, BootRam
    <2> QED
      BY <1>4, <2>1, RegionsAre
  <1> QED
    BY <1>7, <1>8, <1>9, <1>11, <1>12, <1>13, Zenon

(* When map_high returns, and after any calls of map, every section of the *)
(* kernel is mapped to its own frames with its own permissions, .data only *)
(* where it shares a page with .bss, the test section not at all, and the  *)
(* RAM behind it writable; the tables are at most the 15 pages of early    *)
(* boot if the kernel ends at most four blocks above where it starts;      *)
(* map_high follows no block as a table, and what map writes into blocks   *)
(* is behind the kernel.  For any first page and any sizes of the          *)
(* sections, of RAM, of pages and of tables (map_high, map_lo, map_pages). *)
THEOREM KernelIsMapped == BootSpec => []KernelMapped
  <1>1. ASSUME MapInv
        PROVE  KernelMapped
    <2>1. SegmentsMapped
      BY <1>1, MapInvSegments
    <2>2. ASSUME ChunkOf(PageUp(layout.kstack[2])) - ChunkOf(BootPage) <= 4
          PROVE  tables <= 15
      <3>1. CASE stage = 0
        BY <1>1, <3>1 DEF MapInv
      <3>2. CASE stage # 0
        <4>1. stage > 0
          BY <1>1, <3>2 DEF MapInv
        <4>2. InOrder
          BY <1>1, <4>1, PlacedInOrder DEF MapInv
        <4>3. PICK w : LaidUpTo(w)
          BY <1>1, <4>1 DEF MapInv
        <4>4. PICK m : m = [l2 |-> l2, tables |-> tables, damage |-> damage]
          OBVIOUS
        <4>5. TablesIn(m.l2) \subseteq TableChunks /\ tables = 7 + Cardinality(TablesIn(m.l2))
          <5>1. Laid(m, w, TableChunks) /\ m.tables = tables
            BY <4>3, <4>4 DEF LaidUpTo
          <5> QED
            BY <5>1 DEF Laid
        <4>6. IsFiniteSet(TableChunks) /\ Cardinality(TableChunks) <= 8
          <5>1. ChunkOf(ToPage("kstack")) - ChunkOf(BootPage) <= 4
            BY <2>2 DEF ToPage
          <5> QED
            BY <4>2, <5>1, FewTableChunks
        <4>7. /\ Cardinality(TablesIn(m.l2)) <= Cardinality(TableChunks)
              /\ IsFiniteSet(TablesIn(m.l2))
          BY <4>5, <4>6, FS_Subset
        <4>8. Cardinality(TablesIn(m.l2)) \in Nat /\ Cardinality(TableChunks) \in Nat
          BY <4>6, <4>7, FS_CardinalityType
        <4> QED
          BY <4>5, <4>6, <4>7, <4>8
      <3> QED
        BY <3>1, <3>2
    <2>3. (maps = 0 => damage = {}) /\ \A word \in damage : word[1] \in FreeRam
      BY <1>1 DEF MapInv
    <2> QED
      BY <2>1, <2>2, <2>3, Zenon DEF KernelMapped
  <1> QED
    BY <1>1, MapInvInit, MapInvNext, PTL DEF BootSpec
-----------------------------------------------------------------------------
(* The keyboard's ring.  Arithmetic of its counters first. *)

LEMMA MultiplesInt == \A a, b \in Int, s \in Nat : a >= b => a * s >= b * s
  OBVIOUS

LEMMA Remainder ==
    \A x \in Int, s \in Nat : s >= 1 =>
        x % s \in Nat /\ x % s < s /\ x \div s \in Int /\ x = (x \div s) * s + (x % s)
  <1> SUFFICES ASSUME NEW x \in Int, NEW s \in Nat, s >= 1
               PROVE  x % s \in Nat /\ x % s < s /\ x \div s \in Int
                      /\ x = (x \div s) * s + (x % s)
    OBVIOUS
  <1>1. x = s * (x \div s) + (x % s)
    OBVIOUS
  <1>2. x % s \in Nat /\ x % s < s /\ x \div s \in Int
    OBVIOUS
  <1>3. x = (x \div s) * s + (x % s)
    BY <1>1, <1>2
  <1> QED
    BY <1>2, <1>3

(* The remainder under a name, with its quotient. *)
LEMMA Remains ==
    \A x \in Int, s \in Nat : s >= 1 =>
        \E r \in Nat, q \in Int : r = x % s /\ r < s /\ x = q * s + r
  BY Remainder, Zenon

LEMMA RemainderUnique ==
    \A x, q \in Int, s, r \in Nat : s >= 1 /\ r < s /\ x = q * s + r => x % s = r
  <1> SUFFICES ASSUME NEW x \in Int, NEW q \in Int, NEW s \in Nat, NEW r \in Nat,
                      s >= 1, r < s, x = q * s + r
               PROVE  x % s = r
    BY Zenon
  <1>1. PICK m \in Nat, d \in Int : m = x % s /\ m < s /\ x = d * s + m
    BY Remains, Zenon
  <1>2. d * s + m = q * s + r /\ m < s /\ r < s
    BY <1>1, Zenon
  <1>3. (d + 1) * s = d * s + s /\ (q + 1) * s = q * s + s /\ d * s \in Int /\ q * s \in Int
    OBVIOUS
  <1>4. ~(d >= q + 1)
    <2>1. SUFFICES ASSUME d >= q + 1 PROVE FALSE
      OBVIOUS
    <2>2. d * s >= (q + 1) * s
      BY <2>1, MultiplesInt
    <2> QED
      BY <1>2, <1>3, <2>2
  <1>5. ~(q >= d + 1)
    <2>1. SUFFICES ASSUME q >= d + 1 PROVE FALSE
      OBVIOUS
    <2>2. q * s >= (d + 1) * s
      BY <2>1, MultiplesInt
    <2> QED
      BY <1>2, <1>3, <2>2
  <1>6. d = q
    BY <1>4, <1>5
  <1>7. m = r
    BY <1>2, <1>3, <1>6
  <1> QED
    BY <1>1, <1>7, Zenon

(* A counter that wraps counts on. *)
LEMMA WrapAdd ==
    \A x, n, s \in Nat : s >= 1 => ((x % s) + n) % s = (x + n) % s
  <1> SUFFICES ASSUME NEW x \in Nat, NEW n \in Nat, NEW s \in Nat, s >= 1
               PROVE  ((x % s) + n) % s = (x + n) % s
    BY Zenon
  <1>0. x \in Int /\ x + n \in Int
    OBVIOUS
  <1>1. PICK r \in Nat, q \in Int : r = x % s /\ r < s /\ x = q * s + r
    BY <1>0, Remains, Zenon
  <1>2. r + n \in Int
    OBVIOUS
  <1>3. PICK m \in Nat, d \in Int : m = (r + n) % s /\ m < s /\ r + n = d * s + m
    BY <1>2, Remains, Zenon
  <1>4. x = q * s + r /\ r + n = d * s + m
    BY <1>1, <1>3, Zenon
  <1>5. q + d \in Int /\ x + n = (q + d) * s + m
    <2>1. (q + d) * s = q * s + d * s /\ q * s \in Int /\ d * s \in Int
      OBVIOUS
    <2> QED
      BY <1>4, <2>1
  <1>6. (x + n) % s = m
    BY <1>0, <1>3, <1>5, RemainderUnique, Zenon
  <1> QED
    BY <1>1, <1>3, <1>6, Zenon

(* The difference of two wrapped counters is that of the counters. *)
LEMMA WrapDifference ==
    \A x, y, s \in Nat : y <= x /\ x - y < s => ((x % s) - (y % s)) % s = x - y
  <1> SUFFICES ASSUME NEW x \in Nat, NEW y \in Nat, NEW s \in Nat, y <= x, x - y < s
               PROVE  ((x % s) - (y % s)) % s = x - y
    BY Zenon
  <1>0. s >= 1 /\ x \in Int /\ y \in Int /\ x - y \in Nat
    OBVIOUS
  <1>1. PICK r \in Nat, q \in Int : r = x % s /\ r < s /\ x = q * s + r
    BY <1>0, Remains, Zenon
  <1>2. PICK m \in Nat, d \in Int : m = y % s /\ m < s /\ y = d * s + m
    BY <1>0, Remains, Zenon
  <1>3. x = q * s + r /\ y = d * s + m
    BY <1>1, <1>2, Zenon
  <1>4. d - q \in Int /\ r - m \in Int /\ r - m = (d - q) * s + (x - y)
    <2>1. (d - q) * s = d * s - q * s /\ q * s \in Int /\ d * s \in Int
      OBVIOUS
    <2> QED
      BY <1>3, <2>1
  <1>5. (r - m) % s = x - y
    BY <1>0, <1>4, RemainderUnique, Zenon
  <1> QED
    BY <1>1, <1>2, <1>5, Zenon

(* The index of a wrapped counter in the ring is that of the counter. *)
LEMMA WrapIndex ==
    \A x, s, w \in Nat : s >= 1 /\ w >= 1 /\ w % s = 0 => (x % w) % s = x % s
  <1> SUFFICES ASSUME NEW x \in Nat, NEW s \in Nat, NEW w \in Nat, s >= 1, w >= 1, w % s = 0
               PROVE  (x % w) % s = x % s
    BY Zenon
  <1>0. x \in Int /\ w \in Int
    OBVIOUS
  <1>1. PICK z \in Nat, k \in Int : z = w % s /\ z < s /\ w = k * s + z
    BY <1>0, Remains, Zenon
  <1>2. z = 0 /\ w = k * s + z
    BY <1>1, Zenon
  <1>3. PICK r \in Nat, q \in Int : r = x % w /\ r < w /\ x = q * w + r
    BY <1>0, Remains, Zenon
  <1>4. PICK m \in Nat, d \in Int : m = x % s /\ m < s /\ x = d * s + m
    BY <1>0, Remains, Zenon
  <1>5. x = q * w + r /\ x = d * s + m /\ w = k * s
    <2>1. w = k * s
      BY <1>2
    <2> QED
      BY <1>3, <1>4, <2>1, Zenon
  <1>6. q * w = (q * k) * s /\ q * k \in Int
    <2>1. q * (k * s) = (q * k) * s /\ q * k \in Int
      OBVIOUS
    <2> QED
      BY <1>5, <2>1, Zenon
  <1>7. PICK e \in Int : e = q * k
    BY <1>6
  <1>8. d - e \in Int /\ r \in Int /\ r = (d - e) * s + m
    <2>1. (d - e) * s = d * s - e * s /\ d * s \in Int /\ e * s \in Int
      OBVIOUS
    <2>2. q * w = e * s
      BY <1>6, <1>7, Zenon
    <2> QED
      BY <1>5, <2>1, <2>2
  <1>9. r % s = m
    BY <1>4, <1>8, RemainderUnique, Zenon
  <1> QED
    BY <1>3, <1>4, <1>9, Zenon

(* Two counters less than the ring's size apart have different indexes. *)
LEMMA IndexesDiffer ==
    \A x, y, s \in Nat : y < x /\ x < y + s => x % s # y % s
  <1> SUFFICES ASSUME NEW x \in Nat, NEW y \in Nat, NEW s \in Nat, y < x, x < y + s,
                      x % s = y % s
               PROVE  FALSE
    BY Zenon
  <1>0. s >= 1 /\ x \in Int /\ y \in Int
    OBVIOUS
  <1>1. PICK r \in Nat, q \in Int : r = x % s /\ r < s /\ x = q * s + r
    BY <1>0, Remains, Zenon
  <1>2. PICK m \in Nat, d \in Int : m = y % s /\ m < s /\ y = d * s + m
    BY <1>0, Remains, Zenon
  <1>3. x = q * s + r /\ y = d * s + m /\ m = r
    BY <1>1, <1>2, Zenon
  <1>5. q * s \in Int /\ d * s \in Int /\ (d + 1) * s = d * s + s
    OBVIOUS
  <1>6. ~(d >= q)
    <2>1. SUFFICES ASSUME d >= q PROVE FALSE
      OBVIOUS
    <2>2. d * s >= q * s
      BY <2>1, MultiplesInt
    <2> QED
      BY <1>3, <1>5, <2>2
  <1>7. ~(q >= d + 1)
    <2>1. SUFFICES ASSUME q >= d + 1 PROVE FALSE
      OBVIOUS
    <2>2. q * s >= (d + 1) * s
      BY <2>1, MultiplesInt
    <2> QED
      BY <1>3, <1>5, <2>2
  <1> QED
    BY <1>6, <1>7

(* The numbers of the ring. *)
LEMMA RingSizes ==
    /\ RingBytes \in Nat /\ RingBytes >= 1 /\ RingBytes < Word /\ Word \in Nat /\ Word >= 1
    /\ Word % RingBytes = 0 /\ BufAddress \in Nat /\ HalfWord \in Nat
    /\ RingBytes < HalfWord /\ HalfWord >= 1
  <1>1. /\ RingBytes \in Nat /\ RingBytes > 0 /\ HalfWord \in Nat /\ Word \in Nat
        /\ RingBytes < HalfWord /\ HalfWord <= Word /\ BufAddress \in 0..Word - 1
    BY KeyRingAssumption, Zenon
  <1>2. Word % RingBytes = 0
    BY KeyRingAssumption, Zenon
  <1>3. /\ RingBytes >= 1 /\ RingBytes < Word /\ Word >= 1
        /\ BufAddress \in Nat /\ HalfWord >= 1
    BY <1>1
  <1> QED
    BY <1>1, <1>2, <1>3, Zenon

(* The index of a counter in the ring, and the one i places further on, up *)
(* to the end of the ring and behind it.                                   *)
RingIndex(x) == x % RingBytes

LEMMA RingIndexAfter ==
    ASSUME NEW x \in Nat, NEW i \in Nat
    PROVE  /\ RingIndex(x) \in Nat /\ RingIndex(x) < RingBytes
           /\ RingIndex(x) + i < RingBytes => RingIndex(x + i) = RingIndex(x) + i
           /\ RingBytes <= RingIndex(x) + i /\ RingIndex(x) + i < 2 * RingBytes
                 => RingIndex(x + i) = RingIndex(x) + i - RingBytes
  <1>0. x \in Int /\ x + i \in Int /\ RingBytes \in Nat /\ RingBytes >= 1
    BY RingSizes
  <1>1. PICK r \in Nat, q \in Int : r = x % RingBytes /\ r < RingBytes /\ x = q * RingBytes + r
    BY <1>0, Remains, Zenon
  <1>2. x = q * RingBytes + r
    BY <1>1, Zenon
  <1>3. ASSUME r + i < RingBytes PROVE (x + i) % RingBytes = r + i
    <2>1. x + i = q * RingBytes + (r + i) /\ r + i \in Nat
      BY <1>0, <1>2
    <2> QED
      BY <1>0, <1>3, <2>1, RemainderUnique, Zenon
  <1>4. ASSUME RingBytes <= r + i, r + i < 2 * RingBytes
        PROVE  (x + i) % RingBytes = r + i - RingBytes
    <2>1. r + i - RingBytes \in Nat /\ r + i - RingBytes < RingBytes
      BY <1>0, <1>4
    <2>2. q + 1 \in Int /\ x + i = (q + 1) * RingBytes + (r + i - RingBytes)
      <3>1. (q + 1) * RingBytes = q * RingBytes + RingBytes /\ q * RingBytes \in Int
        BY <1>0
      <3> QED
        BY <1>0, <1>2, <3>1
    <2> QED
      BY <1>0, <2>1, <2>2, RemainderUnique, Zenon
  <1> QED
    BY <1>1, <1>3, <1>4, Zenon DEF RingIndex

(* The first copy of pipe_read ends at the end of the ring at the latest,  *)
(* and the second one, if there is one, starts at its start.               *)
LEMMA FirstCopy ==
    ASSUME NEW x \in Nat, NEW f \in Nat, RingIndex(x) + f <= RingBytes, NEW i \in 1..f
    PROVE  /\ RingIndex(x) + i - 1 \in 0..RingBytes - 1
           /\ RingIndex(x + (i - 1)) = RingIndex(x) + i - 1
  <1>1. PICK j \in Nat : j = i - 1
    OBVIOUS
  <1>2. RingBytes \in Nat
    BY RingSizes, Zenon
  <1>3. PICK p \in Nat : p = RingIndex(x)
    BY RingIndexAfter
  <1>4. p + j < RingBytes => RingIndex(x + j) = p + j
    BY <1>3, RingIndexAfter
  <1>5. p + j < RingBytes /\ p + i - 1 = p + j /\ p + j \in 0..RingBytes - 1
    BY <1>1, <1>2, <1>3
  <1> QED
    BY <1>1, <1>3, <1>4, <1>5, Zenon

LEMMA SecondCopy ==
    ASSUME NEW x \in Nat, NEW f \in Nat, NEW n \in Nat, n <= RingBytes,
           RingIndex(x) + f = RingBytes, NEW i \in 1..n - f
    PROVE  /\ i - 1 \in 0..RingBytes - 1
           /\ RingIndex(x + ((f + i) - 1)) = i - 1
  <1>1. PICK j \in Nat : j = (f + i) - 1
    OBVIOUS
  <1>2. RingBytes \in Nat
    BY RingSizes, Zenon
  <1>3. PICK p \in Nat : p = RingIndex(x)
    BY RingIndexAfter
  <1>4. RingBytes <= p + j /\ p + j < 2 * RingBytes => RingIndex(x + j) = p + j - RingBytes
    BY <1>3, RingIndexAfter
  <1>5. /\ RingBytes <= p + j /\ p + j < 2 * RingBytes /\ p + j - RingBytes = i - 1
        /\ i - 1 \in 0..RingBytes - 1
    BY <1>1, <1>2, <1>3
  <1> QED
    BY <1>1, <1>4, <1>5, Zenon

(* n keys from the tail t are copied, f of them before the end of the ring. *)
Copied(b, t, n, f, c1, c2) ==
    /\ f \in Nat /\ f <= n /\ RingIndex(t) + f <= RingBytes
    /\ f = n \/ RingIndex(t) + f = RingBytes
    /\ c1 = [i \in 1..f |-> b[RingIndex(t) + i - 1]]
    /\ c2 = [i \in 1..n - f |-> b[i - 1]]

(* The wrapping of the counters, with the word's size and the ring's. *)
LEMMA WrapWord == \A x, n \in Nat : ((x % Word) + n) % Word = (x + n) % Word
  <1>1. Word \in Nat /\ Word >= 1
    BY RingSizes, Zenon
  <1> QED
    BY <1>1, WrapAdd, Zenon

LEMMA WrapRing == \A x, n \in Nat : ((x % RingBytes) + n) % RingBytes = (x + n) % RingBytes
  <1>1. RingBytes \in Nat /\ RingBytes >= 1
    BY RingSizes, Zenon
  <1> QED
    BY <1>1, WrapAdd, Zenon

LEMMA WordIndex == \A x \in Nat : (x % Word) % RingBytes = x % RingBytes
  <1>1. RingBytes \in Nat /\ RingBytes >= 1 /\ Word \in Nat /\ Word >= 1 /\ Word % RingBytes = 0
    BY RingSizes, Zenon
  <1> QED
    BY <1>1, WrapIndex, Zenon

LEMMA FunctionIsSeq ==
    \A n \in Nat : \A f \in [1..n -> Nat] : f \in Seq(Nat) /\ Len(f) = n
  OBVIOUS

(* acc keys were stored and del of them were read: the counters are those  *)
(* numbers, wrapped, and the keys between them are in the ring.            *)
RingState(b, h, t, acc, del) ==
    /\ b \in [0..RingBytes - 1 -> Nat]
    /\ acc \in Seq(Nat) /\ del \in Seq(Nat)
    /\ Len(del) <= Len(acc) /\ Len(acc) <= Len(del) + RingBytes
    /\ h = (BufAddress + Len(acc)) % Word
    /\ t = (BufAddress + Len(del)) % Word
    /\ \A k \in Len(del)..Len(acc) - 1 : b[(BufAddress + k) % RingBytes] = acc[k + 1]
    /\ \A k \in 1..Len(del) : del[k] = acc[k]

(* head - tail, in the counters' width, is the number of unread keys. *)
LEMMA RingHolds ==
    ASSUME NEW b, NEW h, NEW t, NEW acc, NEW del, RingState(b, h, t, acc, del)
    PROVE  /\ Len(acc) \in Nat /\ Len(del) \in Nat
           /\ (h - t) % Word = Len(acc) - Len(del)
           /\ Len(acc) - Len(del) \in 0..RingBytes
           /\ h \in Nat /\ t \in Nat
           /\ h % RingBytes = (BufAddress + Len(acc)) % RingBytes
           /\ t % RingBytes = (BufAddress + Len(del)) % RingBytes
  <1>1. acc \in Seq(Nat) /\ del \in Seq(Nat)
    BY Zenon DEF RingState
  <1>2. PICK a \in Nat : a = Len(acc)
    BY <1>1, LenProperties
  <1>3. PICK d \in Nat : d = Len(del)
    BY <1>1, LenProperties
  <1>4. d <= a /\ a <= d + RingBytes /\ h = (BufAddress + a) % Word
        /\ t = (BufAddress + d) % Word
    BY <1>2, <1>3, Zenon DEF RingState
  <1>5. /\ BufAddress + d <= BufAddress + a /\ (BufAddress + a) - (BufAddress + d) < Word
        /\ BufAddress + d \in Nat /\ BufAddress + a \in Nat
        /\ (BufAddress + a) - (BufAddress + d) = a - d /\ a - d \in 0..RingBytes
    <2>1. d <= a /\ a <= d + RingBytes
      BY <1>4, Zenon
    <2>2. RingBytes \in Nat /\ RingBytes < Word /\ Word \in Nat /\ BufAddress \in Nat
      BY RingSizes, Zenon
    <2> QED
      BY <2>1, <2>2
  <1>6. (h - t) % Word = a - d
    BY <1>4, <1>5, RingSizes, WrapDifference, Zenon
  <1>7. BufAddress + d \in Int /\ BufAddress + a \in Int
    BY <1>5
  <1>8. h \in Nat /\ t \in Nat
    BY <1>4, <1>7, RingSizes, Remainder, Zenon
  <1>9. h % RingBytes = (BufAddress + a) % RingBytes /\ t % RingBytes = (BufAddress + d) % RingBytes
    <2>1. h % RingBytes = (BufAddress + a) % RingBytes
      BY <1>4, <1>5, WordIndex, Zenon
    <2>2. t % RingBytes = (BufAddress + d) % RingBytes
      BY <1>4, <1>5, WordIndex, Zenon
    <2> QED
      BY <2>1, <2>2, Zenon
  <1> QED
    BY <1>2, <1>3, <1>5, <1>6, <1>8, <1>9, Zenon

(* handle_keyboard_event stores behind the unread keys, on none of them. *)
LEMMA PressKeeps ==
    ASSUME NEW b, NEW h, NEW t, NEW acc, NEW del, NEW c \in Nat,
           RingState(b, h, t, acc, del), ~((h - t) % Word >= RingBytes)
    PROVE  RingState([b EXCEPT ![h % RingBytes] = c], (h + 1) % Word, t, Append(acc, c), del)
  <1>0. /\ (h - t) % Word = Len(acc) - Len(del) /\ Len(acc) - Len(del) \in 0..RingBytes
        /\ h % RingBytes = (BufAddress + Len(acc)) % RingBytes
    BY RingHolds
  <1>1. acc \in Seq(Nat) /\ del \in Seq(Nat) /\ b \in [0..RingBytes - 1 -> Nat]
    BY Zenon DEF RingState
  <1>2. PICK a \in Nat : a = Len(acc)
    BY RingHolds, Zenon
  <1>3. PICK d \in Nat : d = Len(del)
    BY RingHolds, Zenon
  <1>4. a - d < RingBytes /\ d <= a
    <2>1. ~(a - d >= RingBytes) /\ a - d \in 0..RingBytes
      BY <1>0, <1>2, <1>3, Zenon
    <2> QED
      BY <2>1, RingSizes
  <1>5. PICK e : e = Append(acc, c)
    OBVIOUS
  <1>6. e \in Seq(Nat) /\ Len(e) = a + 1 /\ e[a + 1] = c /\ \A i \in 1..a : e[i] = acc[i]
    BY <1>1, <1>2, <1>5, AppendProperties
  <1>7. PICK p : p = h % RingBytes
    OBVIOUS
  <1>8. p = (BufAddress + a) % RingBytes
    BY <1>0, <1>2, <1>7, Zenon
  <1>9. p \in 0..RingBytes - 1
    <2>1. BufAddress + a \in Int
      BY RingSizes
    <2>2. p \in Nat /\ p < RingBytes
      BY <1>8, <2>1, RingSizes, Remainder, Zenon
    <2> QED
      BY <2>2, RingSizes
  <1>10. PICK bb : bb = [b EXCEPT ![p] = c]
    OBVIOUS
  <1>11. /\ bb \in [0..RingBytes - 1 -> Nat] /\ bb[p] = c
         /\ \A i \in 0..RingBytes - 1 : i # p => bb[i] = b[i]
    BY <1>1, <1>9, <1>10
  <1>12. (h + 1) % Word = (BufAddress + (a + 1)) % Word
    <2>1. h = (BufAddress + a) % Word
      BY <1>2, Zenon DEF RingState
    <2>2. BufAddress + a \in Nat /\ (BufAddress + a) + 1 = BufAddress + (a + 1) /\ 1 \in Nat
      BY RingSizes
    <2>3. PICK x \in Nat : x = BufAddress + a
      BY <2>2
    <2>4. ((x % Word) + 1) % Word = (x + 1) % Word
      BY <2>2, WrapWord, Zenon
    <2> QED
      BY <2>1, <2>2, <2>3, <2>4, Zenon
  <1>13. t = (BufAddress + d) % Word
    BY <1>3, Zenon DEF RingState
  <1>14. \A k \in d..a - 1 : b[(BufAddress + k) % RingBytes] = acc[k + 1]
    BY <1>2, <1>3, Zenon DEF RingState
  <1>15. \A k \in d..(a + 1) - 1 : bb[(BufAddress + k) % RingBytes] = e[k + 1]
    <2> SUFFICES ASSUME NEW k \in d..(a + 1) - 1
                 PROVE  bb[(BufAddress + k) % RingBytes] = e[k + 1]
      BY Zenon
    <2>1. CASE k = a
      BY <1>6, <1>8, <1>11, <2>1, Zenon
    <2>2. CASE k # a
      <3>1. /\ k \in d..a - 1 /\ k + 1 \in 1..a
            /\ BufAddress + k \in Nat /\ BufAddress + a \in Nat /\ BufAddress + k \in Int
            /\ BufAddress + k < BufAddress + a /\ BufAddress + a < (BufAddress + k) + RingBytes
        BY <1>4, <2>2, RingSizes
      <3>2. PICK i : i = (BufAddress + k) % RingBytes
        OBVIOUS
      <3>3. i # p
        BY <1>8, <3>1, <3>2, IndexesDiffer, RingSizes, Zenon
      <3>4. i \in Nat /\ i < RingBytes
        BY <3>1, <3>2, RingSizes, Remainder, Zenon
      <3>5. i \in 0..RingBytes - 1
        BY <3>4, RingSizes
      <3>6. bb[i] = b[i]
        BY <1>11, <3>3, <3>5, Zenon
      <3>7. b[i] = acc[k + 1] /\ e[k + 1] = acc[k + 1]
        BY <1>6, <1>14, <3>1, <3>2, Zenon
      <3> QED
        BY <3>2, <3>6, <3>7, Zenon
    <2> QED
      BY <2>1, <2>2
  <1>16. \A k \in 1..d : del[k] = e[k]
    <2>1. \A k \in 1..d : del[k] = acc[k]
      BY <1>3, Zenon DEF RingState
    <2>2. \A k \in 1..d : k \in 1..a
      BY <1>4
    <2> QED
      BY <1>6, <2>1, <2>2, Zenon
  <1>17. d <= a + 1 /\ a + 1 <= d + RingBytes
    BY <1>4, RingSizes
  <1>18. RingState(bb, (h + 1) % Word, t, e, del)
    BY <1>1, <1>3, <1>6, <1>11, <1>12, <1>13, <1>15, <1>16, <1>17, Zenon DEF RingState
  <1> QED
    BY <1>5, <1>7, <1>10, <1>18, Zenon

(* The index of the i-th unread key, from the tail. *)
LEMMA UnreadKey ==
    ASSUME NEW b, NEW h, NEW t, NEW acc, NEW del, RingState(b, h, t, acc, del),
           NEW d \in Nat, d = Len(del), NEW i \in 1..Len(acc) - Len(del)
    PROVE  /\ b[((BufAddress + d) + (i - 1)) % RingBytes] = acc[d + i]
           /\ ((BufAddress + d) + (i - 1)) % RingBytes \in 0..RingBytes - 1
  <1>1. PICK a \in Nat : a = Len(acc)
    BY RingHolds
  <1>2. \A k \in d..a - 1 : b[(BufAddress + k) % RingBytes] = acc[k + 1]
    BY <1>1, Zenon DEF RingState
  <1>3. i \in 1..a - d
    BY <1>1, Zenon
  <1>4. /\ d + (i - 1) \in d..a - 1 /\ (d + (i - 1)) + 1 = d + i
        /\ BufAddress + (d + (i - 1)) = (BufAddress + d) + (i - 1)
        /\ (BufAddress + d) + (i - 1) \in Int
    BY <1>3, RingSizes
  <1>5. b[((BufAddress + d) + (i - 1)) % RingBytes] = acc[d + i]
    BY <1>2, <1>4
  <1>6. PICK j : j = ((BufAddress + d) + (i - 1)) % RingBytes
    OBVIOUS
  <1>7. j \in Nat /\ j < RingBytes
    BY <1>4, <1>6, RingSizes, Remainder, Zenon
  <1>8. j \in 0..RingBytes - 1
    BY <1>7, RingSizes
  <1> QED
    BY <1>5, <1>6, <1>8, Zenon

(* pipe_read's two copies are the next n keys. *)
LEMMA ReadKeeps ==
    ASSUME NEW b, NEW h, NEW t, NEW acc, NEW del, RingState(b, h, t, acc, del),
           NEW n \in Nat, n <= Len(acc) - Len(del),
           NEW f \in Nat, NEW c1, NEW c2, Copied(b, t, n, f, c1, c2)
    PROVE  RingState(b, h, (t + n) % Word, acc, del \o c1 \o c2)
  <1>0. /\ Len(acc) - Len(del) \in 0..RingBytes /\ Len(acc) \in Nat /\ Len(del) \in Nat
        /\ t % RingBytes = (BufAddress + Len(del)) % RingBytes
    BY RingHolds
  <1>1. acc \in Seq(Nat) /\ del \in Seq(Nat) /\ b \in [0..RingBytes - 1 -> Nat]
    BY Zenon DEF RingState
  <1>2. PICK a \in Nat : a = Len(acc)
    BY <1>0
  <1>3. PICK d \in Nat : d = Len(del)
    BY <1>0
  <1>4. PICK x \in Nat : x = BufAddress + d
    BY RingSizes
  <1>5. RingIndex(t) = RingIndex(x)
    BY <1>0, <1>3, <1>4, Zenon DEF RingIndex
  <1>6. /\ f <= n /\ RingIndex(x) + f <= RingBytes
        /\ f = n \/ RingIndex(x) + f = RingBytes
        /\ c1 = [i \in 1..f |-> b[RingIndex(x) + i - 1]]
        /\ c2 = [i \in 1..n - f |-> b[i - 1]]
    BY <1>5, Zenon DEF Copied
  <1>7. n <= a - d /\ a - d \in 0..RingBytes /\ n <= RingBytes
    <2>1. n <= a - d /\ a - d \in 0..RingBytes
      BY <1>0, <1>2, <1>3, Zenon
    <2> QED
      BY <2>1, RingSizes
  <1>8. \A i \in 1..a - d : /\ b[RingIndex(x + (i - 1))] = acc[d + i]
                            /\ RingIndex(x + (i - 1)) \in 0..RingBytes - 1
    <2> SUFFICES ASSUME NEW i \in 1..a - d
                 PROVE  /\ b[RingIndex(x + (i - 1))] = acc[d + i]
                        /\ RingIndex(x + (i - 1)) \in 0..RingBytes - 1
      BY Zenon
    <2>1. i \in 1..Len(acc) - Len(del)
      BY <1>2, <1>3, Zenon
    <2>2. /\ b[((BufAddress + d) + (i - 1)) % RingBytes] = acc[d + i]
          /\ ((BufAddress + d) + (i - 1)) % RingBytes \in 0..RingBytes - 1
      BY <1>3, <2>1, UnreadKey
    <2> QED
      BY <1>4, <2>2, Zenon DEF RingIndex
  <1>a. RingBytes \in Nat /\ RingBytes >= 1
    BY RingSizes, Zenon
  <1>b. f <= n /\ n - f \in Nat
    BY <1>6
  <1>9. \A i \in 1..f : /\ RingIndex(x) + i - 1 \in 0..RingBytes - 1
                         /\ b[RingIndex(x) + i - 1] = acc[d + i]
    <2> SUFFICES ASSUME NEW i \in 1..f
                 PROVE  /\ RingIndex(x) + i - 1 \in 0..RingBytes - 1
                        /\ b[RingIndex(x) + i - 1] = acc[d + i]
      BY Zenon
    <2>1. i \in 1..a - d
      BY <1>7, <1>b
    <2>2. RingIndex(x) + f <= RingBytes
      BY <1>6, Zenon
    <2>3. /\ RingIndex(x) + i - 1 \in 0..RingBytes - 1
          /\ RingIndex(x + (i - 1)) = RingIndex(x) + i - 1
      BY <2>2, FirstCopy, Zenon
    <2> QED
      BY <1>8, <2>1, <2>3, Zenon
  <1>10. \A i \in 1..n - f : i - 1 \in 0..RingBytes - 1 /\ b[i - 1] = acc[d + f + i]
    <2> SUFFICES ASSUME NEW i \in 1..n - f
                 PROVE  i - 1 \in 0..RingBytes - 1 /\ b[i - 1] = acc[d + f + i]
      BY Zenon
    <2>1. f # n /\ f + i \in 1..a - d /\ d + (f + i) = d + f + i
      BY <1>7, <1>b
    <2>2. RingIndex(x) + f = RingBytes /\ n <= RingBytes
      BY <1>6, <1>7, <2>1, Zenon
    <2>3. i - 1 \in 0..RingBytes - 1 /\ RingIndex(x + ((f + i) - 1)) = i - 1
      BY <2>2, SecondCopy
    <2>4. b[RingIndex(x + ((f + i) - 1))] = acc[d + (f + i)]
      BY <1>8, <2>1, Zenon
    <2> QED
      BY <2>1, <2>3, <2>4, Zenon
  <1>11. /\ c1 \in [1..f -> Nat] /\ \A i \in 1..f : c1[i] = acc[d + i]
    <2>1. \A i \in 1..f : b[RingIndex(x) + i - 1] \in Nat
      BY <1>1, <1>9
    <2>2. c1 = [i \in 1..f |-> b[RingIndex(x) + i - 1]]
      BY <1>6, Zenon
    <2> QED
      BY <1>9, <2>1, <2>2
  <1>12. /\ c2 \in [1..n - f -> Nat] /\ \A i \in 1..n - f : c2[i] = acc[d + f + i]
    <2>1. \A i \in 1..n - f : b[i - 1] \in Nat
      BY <1>1, <1>10
    <2>2. c2 = [i \in 1..n - f |-> b[i - 1]]
      BY <1>6, Zenon
    <2> QED
      BY <1>10, <2>1, <2>2
  <1>13. n - f \in Nat
    BY <1>b
  <1>14. c1 \in Seq(Nat) /\ Len(c1) = f /\ c2 \in Seq(Nat) /\ Len(c2) = n - f
    BY <1>11, <1>12, <1>13, FunctionIsSeq, Zenon
  <1>15. PICK e : e = del \o c1
    OBVIOUS
  <1>16. /\ e \in Seq(Nat) /\ Len(e) = d + f
         /\ \A i \in 1..d + f : e[i] = IF i <= d THEN del[i] ELSE c1[i - d]
    BY <1>1, <1>3, <1>14, <1>15, ConcatProperties
  <1>17. PICK g : g = e \o c2
    OBVIOUS
  <1>18. /\ g \in Seq(Nat) /\ Len(g) = d + f + (n - f)
         /\ \A i \in 1..d + f + (n - f) : g[i] = IF i <= d + f THEN e[i] ELSE c2[i - (d + f)]
    <2>1. /\ g \in Seq(Nat) /\ Len(g) = Len(e) + Len(c2)
          /\ \A i \in 1..Len(e) + Len(c2) :
                g[i] = IF i <= Len(e) THEN e[i] ELSE c2[i - Len(e)]
      <3>1. e \in Seq(Nat) /\ c2 \in Seq(Nat)
        BY <1>14, <1>16, Zenon
      <3> QED
        BY <1>17, <3>1, ConcatProperties, Zenon
    <2> QED
      BY <1>14, <1>16, <2>1, Zenon
  <1>19. d + f + (n - f) = d + n
    OBVIOUS
  <1>20. \A k \in 1..d : del[k] = acc[k]
    BY <1>3, Zenon DEF RingState
  <1>21. \A k \in 1..d + n : g[k] = acc[k]
    <2> SUFFICES ASSUME NEW k \in 1..d + n
                 PROVE  g[k] = acc[k]
      BY Zenon
    <2>1. g[k] = IF k <= d + f THEN e[k] ELSE c2[k - (d + f)]
      BY <1>18, <1>19, Zenon
    <2>2. CASE k <= d
      <3>1. k \in 1..d /\ k \in 1..d + f /\ k <= d + f
        BY <2>2
      <3> QED
        BY <1>16, <1>20, <2>1, <2>2, <3>1, Zenon
    <2>3. CASE ~(k <= d) /\ k <= d + f
      <3>1. k \in 1..d + f /\ k - d \in 1..f /\ d + (k - d) = k
        BY <2>3
      <3> QED
        BY <1>11, <1>16, <2>1, <2>3, <3>1, Zenon
    <2>4. CASE ~(k <= d + f)
      <3>1. k - (d + f) \in 1..n - f /\ d + f + (k - (d + f)) = k
        BY <2>4
      <3> QED
        BY <1>12, <2>1, <2>4, <3>1, Zenon
    <2> QED
      BY <2>2, <2>3, <2>4
  <1>22. (t + n) % Word = (BufAddress + (d + n)) % Word
    <2>1. t = x % Word
      BY <1>3, <1>4, Zenon DEF RingState
    <2>2. ((x % Word) + n) % Word = (x + n) % Word
      BY WrapWord, Zenon
    <2>3. x + n = BufAddress + (d + n)
      BY <1>4, RingSizes
    <2> QED
      BY <2>1, <2>2, <2>3, Zenon
  <1>23. d + n <= a /\ a <= (d + n) + RingBytes /\ \A k \in (d + n)..a - 1 : k \in d..a - 1
    BY <1>7, RingSizes
  <1>24. h = (BufAddress + a) % Word
         /\ \A k \in d..a - 1 : b[(BufAddress + k) % RingBytes] = acc[k + 1]
    BY <1>2, <1>3, Zenon DEF RingState
  <1>25. Len(g) = d + n
    BY <1>18, <1>19, Zenon
  <1>26. RingState(b, h, (t + n) % Word, acc, g)
    <2>1. \A k \in (d + n)..a - 1 : b[(BufAddress + k) % RingBytes] = acc[k + 1]
      BY <1>23, <1>24, Zenon
    <2>2. g \in Seq(Nat)
      BY <1>18, Zenon
    <2>3. d + n <= a /\ a <= (d + n) + RingBytes
      BY <1>23, Zenon
    <2>4. h = (BufAddress + a) % Word
      BY <1>24, Zenon
    <2> QED
      BY <1>1, <1>2, <1>21, <1>22, <1>25, <2>1, <2>2, <2>3, <2>4, Zenon DEF RingState
  <1> QED
    BY <1>15, <1>17, <1>26, Zenon

(* What was read, followed by what the ring holds, is what was stored. *)
LEMMA RingOrder ==
    ASSUME NEW b, NEW h, NEW t, NEW acc, NEW del, RingState(b, h, t, acc, del)
    PROVE  del \o [i \in 1..(h - t) % Word |-> b[(t + i - 1) % RingBytes]] = acc
  <1>0. /\ (h - t) % Word = Len(acc) - Len(del) /\ t \in Nat
        /\ Len(acc) - Len(del) \in 0..RingBytes /\ Len(acc) \in Nat /\ Len(del) \in Nat
        /\ t % RingBytes = (BufAddress + Len(del)) % RingBytes
    BY RingHolds
  <1>1. acc \in Seq(Nat) /\ del \in Seq(Nat) /\ b \in [0..RingBytes - 1 -> Nat]
    BY Zenon DEF RingState
  <1>2. PICK a \in Nat : a = Len(acc)
    BY <1>0, Zenon
  <1>3. PICK d \in Nat : d = Len(del)
    BY <1>0, Zenon
  <1>4. PICK n : n = a - d
    OBVIOUS
  <1>5. n \in Nat /\ (h - t) % Word = n /\ d + n = a
    <2>1. a - d \in 0..RingBytes /\ (h - t) % Word = a - d
      BY <1>0, <1>2, <1>3, Zenon
    <2>2. a - d \in Nat /\ d + (a - d) = a
      BY <2>1, RingSizes
    <2> QED
      BY <1>4, <2>1, <2>2, Zenon
  <1>6. \A i \in 1..n : b[(t + i - 1) % RingBytes] = acc[d + i]
    <2> SUFFICES ASSUME NEW i \in 1..n
                 PROVE  b[(t + i - 1) % RingBytes] = acc[d + i]
      BY Zenon
    <2>1. PICK j \in Nat : j = i - 1
      BY <1>5
    <2>2. t + i - 1 = t + j
      BY <1>0, <1>5, <2>1
    <2>3. i \in 1..Len(acc) - Len(del)
      BY <1>2, <1>3, <1>4, Zenon
    <2>4. b[((BufAddress + d) + (i - 1)) % RingBytes] = acc[d + i]
      BY <1>3, <2>3, UnreadKey
    <2>5. PICK x \in Nat : x = BufAddress + d
      BY RingSizes
    <2>6. t \in Nat
      BY <1>0, Zenon
    <2>7. ((t % RingBytes) + j) % RingBytes = (t + j) % RingBytes
      BY <2>6, WrapRing, Zenon
    <2>8. ((x % RingBytes) + j) % RingBytes = (x + j) % RingBytes
      BY WrapRing, Zenon
    <2>9. t % RingBytes = x % RingBytes
      BY <1>0, <1>3, <2>5, Zenon
    <2> QED
      BY <2>1, <2>2, <2>4, <2>5, <2>7, <2>8, <2>9, Zenon
  <1>7. PICK c : c = [i \in 1..n |-> b[(t + i - 1) % RingBytes]]
    OBVIOUS
  <1>8. DOMAIN c = 1..n /\ \A i \in 1..n : c[i] = acc[d + i]
    BY <1>6, <1>7, Zenon
  <1>9. c \in [1..n -> Nat]
    <2>1. \A i \in 1..n : d + i \in 1..a
      BY <1>5
    <2>2. \A i \in 1..n : acc[d + i] \in Nat
      BY <1>1, <1>2, <2>1, ElementOfSeq
    <2>3. \A i \in 1..n : b[(t + i - 1) % RingBytes] \in Nat
      BY <1>6, <2>2, Zenon
    <2> QED
      BY <1>7, <2>3, Zenon
  <1>10. c \in Seq(Nat) /\ Len(c) = n
    BY <1>5, <1>9, FunctionIsSeq, Zenon
  <1>11. PICK g : g = del \o c
    OBVIOUS
  <1>12. /\ g \in Seq(Nat) /\ Len(g) = d + n
         /\ \A i \in 1..d + n : g[i] = IF i <= d THEN del[i] ELSE c[i - d]
    BY <1>1, <1>3, <1>10, <1>11, ConcatProperties
  <1>13. \A k \in 1..d : del[k] = acc[k]
    BY <1>3, Zenon DEF RingState
  <1>14. \A k \in 1..Len(g) : g[k] = acc[k]
    <2> SUFFICES ASSUME NEW k \in 1..d + n
                 PROVE  g[k] = acc[k]
      BY <1>12, Zenon
    <2>1. g[k] = IF k <= d THEN del[k] ELSE c[k - d]
      BY <1>12, Zenon
    <2>2. CASE k <= d
      <3>1. k \in 1..d
        BY <1>5, <2>2
      <3> QED
        BY <1>13, <2>1, <2>2, <3>1, Zenon
    <2>3. CASE ~(k <= d)
      <3>1. k - d \in 1..n /\ d + (k - d) = k
        BY <1>5, <2>3
      <3> QED
        BY <1>8, <2>1, <2>3, <3>1, Zenon
    <2> QED
      BY <2>2, <2>3
  <1>15. Len(g) = Len(acc)
    BY <1>2, <1>5, <1>12, Zenon
  <1>16. g = acc
    BY <1>1, <1>12, <1>14, <1>15, SeqEqual
  <1> QED
    BY <1>5, <1>7, <1>11, <1>16, Zenon
-----------------------------------------------------------------------------
RingInv ==
    /\ RingState(buf, head, tail, accepted, delivered)
    /\ presses \in Nat

LEMMA RingInvInit == RingInit => RingInv
  <1> SUFFICES ASSUME RingInit PROVE RingInv
    OBVIOUS
  <1>1. /\ buf = [i \in 0..RingBytes - 1 |-> 0] /\ head = BufAddress /\ tail = BufAddress
        /\ presses = 0 /\ accepted = <<>> /\ delivered = <<>>
    BY Zenon DEF RingInit
  <1>2. BufAddress \in Int /\ BufAddress < Word /\ BufAddress \in Nat
    BY KeyRingAssumption
  <1>3. BufAddress = 0 * Word + BufAddress /\ 0 \in Int
    BY <1>2, RingSizes
  <1>4. BufAddress % Word = BufAddress
    BY <1>2, <1>3, RingSizes, RemainderUnique, Zenon
  <1>5. BufAddress + 0 = BufAddress /\ 0 <= 0 /\ 0 <= 0 + RingBytes
    BY <1>2, RingSizes
  <1>6. <<>> \in Seq(Nat) /\ Len(<<>>) = 0
    BY EmptySeq
  <1>7. [i \in 0..RingBytes - 1 |-> 0] \in [0..RingBytes - 1 -> Nat]
    OBVIOUS
  <1>8. (\A k \in 0..0 - 1 : FALSE) /\ (\A k \in 1..0 : FALSE)
    OBVIOUS
  <1>9. RingState([i \in 0..RingBytes - 1 |-> 0], BufAddress, BufAddress, <<>>, <<>>)
    BY <1>4, <1>5, <1>6, <1>7, <1>8, Zenon DEF RingState
  <1>10. presses \in Nat
    BY <1>1
  <1> QED
    BY <1>1, <1>9, <1>10, Zenon DEF RingInv

LEMMA RingInvPress ==
    ASSUME RingInv, Press
    PROVE  RingInv'
  <1>1. RingState(buf, head, tail, accepted, delivered) /\ presses \in Nat
    BY Zenon DEF RingInv
  <1>2. presses' = presses + 1 /\ tail' = tail /\ delivered' = delivered
    BY Zenon DEF Press
  <1>3. presses' \in Nat
    BY <1>1, <1>2
  <1>4. CASE Occupancy >= RingBytes
    <2>1. buf' = buf /\ head' = head /\ accepted' = accepted
      BY <1>4, Zenon DEF Press
    <2> QED
      BY <1>1, <1>2, <1>3, <2>1, Zenon DEF RingInv
  <1>5. CASE ~(Occupancy >= RingBytes)
    <2>1. /\ buf' = [buf EXCEPT ![head % RingBytes] = presses]
          /\ head' = (head + 1) % Word
          /\ accepted' = Append(accepted, presses)
      BY <1>5, Zenon DEF Press
    <2>2. ~((head - tail) % Word >= RingBytes)
      BY <1>5, Zenon DEF Occupancy
    <2>3. RingState([buf EXCEPT ![head % RingBytes] = presses], (head + 1) % Word, tail,
                    Append(accepted, presses), delivered)
      BY <1>1, <2>2, PressKeeps, Zenon
    <2> QED
      BY <1>2, <1>3, <2>1, <2>3, Zenon DEF RingInv
  <1> QED
    BY <1>4, <1>5, Zenon

LEMMA RingInvRead ==
    ASSUME RingInv, NEW count \in Counts, PipeRead(count)
    PROVE  RingInv'
  <1>1. RingState(buf, head, tail, accepted, delivered) /\ presses \in Nat
    BY Zenon DEF RingInv
  <1>2. PICK avail : avail = Occupancy % HalfWord
    OBVIOUS
  <1>3. PICK n : n = Min({avail, count % HalfWord})
    OBVIOUS
  <1>4. PICK f : f = Min({n, RingBytes - (tail % RingBytes)})
    OBVIOUS
  <1>5. PICK c1 : c1 = [i \in 1..f |-> buf[(tail % RingBytes) + i - 1]]
    OBVIOUS
  <1>6. PICK c2 : c2 = [i \in 1..n - f |-> buf[i - 1]]
    OBVIOUS
  <1>7. /\ delivered' = delivered \o c1 \o c2 /\ tail' = (tail + n) % Word
        /\ buf' = buf /\ head' = head /\ presses' = presses /\ accepted' = accepted
    BY <1>2, <1>3, <1>4, <1>5, <1>6, Zenon DEF PipeRead
  <1>8. /\ (head - tail) % Word = Len(accepted) - Len(delivered) /\ tail \in Nat
        /\ Len(accepted) - Len(delivered) \in 0..RingBytes
    BY <1>1, RingHolds
  <1>9. PICK o : o = Len(accepted) - Len(delivered)
    OBVIOUS
  <1>10. o \in Nat /\ o \in Int /\ o < HalfWord /\ o = 0 * HalfWord + o /\ 0 \in Int
    <2>1. o \in 0..RingBytes
      BY <1>8, <1>9, Zenon
    <2>2. RingBytes \in Nat /\ HalfWord \in Nat /\ RingBytes < HalfWord
      BY RingSizes, Zenon
    <2> QED
      BY <2>1, <2>2
  <1>11. o % HalfWord = o
    BY <1>10, RingSizes, RemainderUnique, Zenon
  <1>12. avail = o
    BY <1>2, <1>8, <1>9, <1>11, Zenon DEF Occupancy
  <1>13. count \in Int
    BY KeyRingAssumption
  <1>14. count % HalfWord \in Nat
    BY <1>13, RingSizes, Remainder, Zenon
  <1>15. n \in Nat /\ n <= o
    BY <1>3, <1>10, <1>12, <1>14, MinOfTwo, Zenon
  <1>16. PICK p \in Nat : p = RingIndex(tail) /\ p < RingBytes
    BY <1>8, RingIndexAfter
  <1>17. RingBytes - p \in Nat
    BY <1>16, RingSizes
  <1>18. f = Min({n, RingBytes - p})
    BY <1>4, <1>16, Zenon DEF RingIndex
  <1>19. f \in Nat /\ f <= n /\ f <= RingBytes - p /\ f \in {n, RingBytes - p}
    BY <1>15, <1>17, <1>18, MinOfTwo, Zenon
  <1>20. p + f <= RingBytes /\ (f = n \/ p + f = RingBytes)
    BY <1>16, <1>19, RingSizes
  <1>21. Copied(buf, tail, n, f, c1, c2)
    BY <1>5, <1>6, <1>16, <1>19, <1>20, Zenon DEF Copied, RingIndex
  <1>22. n <= Len(accepted) - Len(delivered)
    BY <1>9, <1>15, Zenon
  <1>23. RingState(buf, head, (tail + n) % Word, accepted, delivered \o c1 \o c2)
    BY <1>1, <1>15, <1>19, <1>21, <1>22, ReadKeeps, Zenon
  <1> QED
    BY <1>1, <1>7, <1>23, Zenon DEF RingInv

LEMMA RingInvNext == RingInv /\ [RingNext]_ringVars => RingInv'
  <1> SUFFICES ASSUME RingInv, [RingNext]_ringVars PROVE RingInv'
    OBVIOUS
  <1>1. CASE UNCHANGED ringVars
    BY <1>1, Zenon DEF ringVars, RingInv
  <1>2. CASE Press
    BY <1>2, RingInvPress, Zenon
  <1>3. ASSUME NEW n \in Counts, PipeRead(n) PROVE RingInv'
    BY <1>3, RingInvRead, Zenon
  <1> QED
    BY <1>1, <1>2, <1>3, Zenon DEF RingNext

(* The readers of the keyboard pipe get the keys that the interrupt stored, *)
(* in their order, each once, for every size of the ring and wherever the   *)
(* buffer's address puts the wrap of the counters (handle_keyboard_event    *)
(* and pipe_read).                                                          *)
THEOREM KeysStayInOrder == RingSpec => []KeysInOrder
  <1>1. RingInv => KeysInOrder
    BY RingOrder, Zenon DEF RingInv, KeysInOrder, Occupancy
  <1> QED
    BY <1>1, RingInvInit, RingInvNext, PTL DEF RingSpec
-----------------------------------------------------------------------------
(* The blocks of a file: a position stays in its block up to the block's   *)
(* end, and the position behind that is in the next one.                   *)
LEMMA WithinBlock ==
    ASSUME NEW pos \in Nat, NEW k \in Nat, (pos % BlockBytes) + k < BlockBytes
    PROVE  (pos + k) \div BlockBytes = pos \div BlockBytes /\ (pos + k) % BlockBytes = (pos % BlockBytes) + k
  <1>0. BlockBytes \in Nat /\ BlockBytes >= 1
    BY Ext4Assumption
  <1>1. PICK q \in Nat : q = pos \div BlockBytes
    BY <1>0, Division
  <1>2. PICK r \in Nat : r = pos % BlockBytes
    BY <1>0, Division
  <1>3. pos = q * BlockBytes + r
    BY <1>0, <1>1, <1>2, Division
  <1>4. q * BlockBytes \in Nat
    BY <1>0
  <1>5. pos + k = q * BlockBytes + (r + k) /\ r + k \in Nat /\ r + k < BlockBytes
    BY <1>2, <1>3, <1>4
  <1>6. (pos + k) \div BlockBytes = q /\ (pos + k) % BlockBytes = r + k
    <2>1. PICK x \in Nat : x = pos + k
      OBVIOUS
    <2>2. PICK y \in Nat : y = r + k
      OBVIOUS
    <2>3. x \div BlockBytes = q /\ x % BlockBytes = y
      BY <1>0, <1>5, <2>1, <2>2, DivisionUnique
    <2> QED
      BY <2>1, <2>2, <2>3
  <1> QED
    BY <1>1, <1>2, <1>6

LEMMA NextBlock ==
    ASSUME NEW pos \in Nat
    PROVE  /\ (pos % BlockBytes) \in Nat /\ (pos % BlockBytes) < BlockBytes /\ pos \div BlockBytes \in Nat
           /\ (pos + (BlockBytes - (pos % BlockBytes))) \div BlockBytes = pos \div BlockBytes + 1
  <1>0. BlockBytes \in Nat /\ BlockBytes >= 1
    BY Ext4Assumption
  <1>1. PICK q \in Nat : q = pos \div BlockBytes
    BY <1>0, Division
  <1>2. PICK r \in Nat : r = pos % BlockBytes
    BY <1>0, Division
  <1>3. pos = q * BlockBytes + r /\ r < BlockBytes
    BY <1>0, <1>1, <1>2, Division
  <1>4. q * BlockBytes \in Nat /\ (q + 1) * BlockBytes = q * BlockBytes + BlockBytes
    BY <1>0
  <1>5. pos + (BlockBytes - r) = (q + 1) * BlockBytes + 0 /\ pos + (BlockBytes - r) \in Nat
    BY <1>0, <1>3, <1>4
  <1>6. (pos + (BlockBytes - r)) \div BlockBytes = q + 1
    BY <1>0, <1>5, DivisionUnique
  <1>7. (pos + (BlockBytes - (pos % BlockBytes))) \div BlockBytes = pos \div BlockBytes + 1
    BY <1>1, <1>2, <1>6
  <1>8. (pos % BlockBytes) \in Nat /\ (pos % BlockBytes) < BlockBytes
    BY <1>2, <1>3
  <1>9. pos \div BlockBytes \in Nat
    BY <1>1
  <1> QED
    BY <1>7, <1>8, <1>9

LEMMA BlockBelow ==
    ASSUME NEW pos \in Nat, NEW n \in Nat
    PROVE  pos < n * BlockBytes <=> pos \div BlockBytes < n
  <1>0. BlockBytes \in Nat /\ BlockBytes >= 1
    BY Ext4Assumption
  <1>1. PICK q \in Nat : q = pos \div BlockBytes
    BY <1>0, Division
  <1>2. PICK r \in Nat : r = pos % BlockBytes
    BY <1>0, Division
  <1>3. pos = q * BlockBytes + r /\ r < BlockBytes
    BY <1>0, <1>1, <1>2, Division
  <1>4. q * BlockBytes \in Nat /\ n * BlockBytes \in Nat /\ (q + 1) * BlockBytes = q * BlockBytes + BlockBytes
    BY <1>0
  <1>5. ASSUME q < n PROVE pos < n * BlockBytes
    <2>1. n * BlockBytes >= (q + 1) * BlockBytes
      BY <1>0, <1>5, Multiples
    <2> QED
      BY <1>3, <1>4, <2>1, <1>0
  <1>6. ASSUME q >= n PROVE ~(pos < n * BlockBytes)
    <2>1. q * BlockBytes >= n * BlockBytes
      BY <1>0, <1>6, Multiples
    <2> QED
      BY <1>3, <1>4, <2>1
  <1> QED
    BY <1>1, <1>5, <1>6

LEMMA FunctionIsSeqOf ==
    ASSUME NEW S, NEW n \in Nat, NEW g \in [1..n -> S]
    PROVE  g \in Seq(S) /\ Len(g) = n
  OBVIOUS

LEMMA Joined ==
    ASSUME NEW S, NEW s \in Seq(S), NEW t \in Seq(S)
    PROVE  /\ s \o t \in Seq(S) /\ Len(s \o t) = Len(s) + Len(t)
           /\ \A i \in 1..Len(s) : (s \o t)[i] = s[i]
           /\ \A i \in 1..Len(t) : (s \o t)[Len(s) + i] = t[i]
  OBVIOUS

(* What read_file_block adds to the bytes read so far: f, of m bytes. *)
FetchIs(bytes, f, pos, count, b, m) ==
    /\ Len(f) = m /\ bytes \o f \in Seq(Nat \X Nat)
    /\ Len(bytes \o f) = Len(bytes) + m /\ Len(bytes) + m <= count
    /\ \A i \in 1..Len(bytes) : (bytes \o f)[i] = bytes[i]
    /\ \A i \in 1..m : /\ (pos % BlockBytes) + (i - 1) < BlockBytes
                       /\ (bytes \o f)[Len(bytes) + i] = IF b = 0 THEN Zero ELSE <<b, (pos % BlockBytes) + i - 1>>
    /\ Len(bytes) + m < count => m = BlockBytes - (pos % BlockBytes)
    /\ Len(bytes) < count => m >= 1

LEMMA FetchedBytes ==
    ASSUME NEW pos \in Nat, NEW count \in Nat, NEW bytes \in Seq(Nat \X Nat), Len(bytes) <= count,
           NEW b \in Nat
    PROVE  \E m \in Nat : FetchIs(bytes, ReadFileBlock(pos, count - Len(bytes), b), pos, count, b, m)
  <1> DEFINE f == ReadFileBlock(pos, count - Len(bytes), b)
  <1>1. PICK r \in Nat : r = pos % BlockBytes
    BY NextBlock
  <1>2. BlockBytes \in Nat /\ r < BlockBytes
    BY <1>1, NextBlock, Ext4Assumption
  <1>3. PICK n \in Nat : n = count - Len(bytes)
    OBVIOUS
  <1>4. PICK m \in Nat : m = Min({n, BlockBytes - r})
    BY <1>2, MinOfTwo
  <1>5. m <= n /\ m <= BlockBytes - r /\ (m = n \/ m = BlockBytes - r)
    <2>1. BlockBytes - r \in Nat
      BY <1>2
    <2> QED
      BY <1>4, <2>1, MinOfTwo
  <1>6. f = [i \in 1..m |-> IF b = 0 THEN Zero ELSE <<b, r + i - 1>>]
    BY <1>1, <1>3, <1>4 DEF ReadFileBlock
  <1>7. \A i \in 1..m : (IF b = 0 THEN Zero ELSE <<b, r + i - 1>>) \in Nat \X Nat
    <2> SUFFICES ASSUME NEW i \in 1..m
                 PROVE  (IF b = 0 THEN Zero ELSE <<b, r + i - 1>>) \in Nat \X Nat
      OBVIOUS
    <2>1. r + i - 1 \in Nat
      OBVIOUS
    <2> QED
      BY <2>1 DEF Zero
  <1> HIDE DEF f
  <1>8. f \in Seq(Nat \X Nat) /\ Len(f) = m
    <2>1. f \in [1..m -> Nat \X Nat]
      BY <1>6, <1>7
    <2> QED
      BY <2>1, FunctionIsSeqOf, Zenon
  <1>9. bytes \o f \in Seq(Nat \X Nat) /\ Len(bytes \o f) = Len(bytes) + m
    BY <1>8, Joined
  <1>10. \A i \in 1..Len(bytes) : (bytes \o f)[i] = bytes[i]
    BY <1>8, Joined, Zenon
  <1>11. \A i \in 1..m : (bytes \o f)[Len(bytes) + i] = f[i]
    <2>1. \A i \in 1..Len(f) : (bytes \o f)[Len(bytes) + i] = f[i]
      <3>1. f \in Seq(Nat \X Nat)
        BY <1>8, Zenon
      <3> QED
        BY <3>1, Joined
    <2> QED
      BY <1>8, <2>1
  <1>12. \A i \in 1..m : (bytes \o f)[Len(bytes) + i] = IF b = 0 THEN Zero ELSE <<b, r + i - 1>>
    BY <1>6, <1>11, Zenon
  <1>13. \A i \in 1..m : r + (i - 1) < BlockBytes
    BY <1>2, <1>5
  <1>14. Len(bytes) + m <= count /\ (Len(bytes) + m < count => m = BlockBytes - r) /\ (Len(bytes) < count => m >= 1)
    BY <1>2, <1>3, <1>5
  <1> QED
    <2>1. \A i \in 1..m : /\ (pos % BlockBytes) + (i - 1) < BlockBytes
                           /\ (bytes \o f)[Len(bytes) + i] = IF b = 0 THEN Zero ELSE <<b, (pos % BlockBytes) + i - 1>>
      BY <1>1, <1>12, <1>13, Zenon
    <2>2. Len(bytes) + m < count => m = BlockBytes - (pos % BlockBytes)
      BY <1>1, <1>14
    <2>3. FetchIs(bytes, f, pos, count, b, m)
      BY <1>8, <1>9, <1>10, <1>14, <2>1, <2>2, Zenon DEF FetchIs
    <2> QED
      BY <2>3 DEF f

-----------------------------------------------------------------------------
(* read.  The invariant: what was read so far is the file from last.from   *)
(* on, and the loop that runs is at the block of the file position: the    *)
(* index in i_block, or the block number taken from the table.             *)
Ext4Types ==
    /\ handle \in [ino : DOMAIN DiskInodes \cup {0}, path : Seq(PathChars), pos : Nat]
    /\ call \in [op : {"none", "open", "direct", "single"}, at : Nat, block : Nat]
    /\ last \in [from : Nat, count : Nat, bytes : Seq(Nat \X Nat)]
    /\ Len(last.bytes) <= last.count

NothingReadYet == (call.op = "open" \/ handle.ino = 0) => last = NoRead /\ call.op \in {"none", "open"}

InBlocks(iblock, from, count) ==
    \/ from + count <= DirectBlocks * BlockBytes
    \/ /\ from >= DirectBlocks * BlockBytes
       /\ from + count <= (DirectBlocks + TableEntries) * BlockBytes
       /\ iblock[DirectBlocks + 1] # 0

PositionIs ==
    (last.count > 0 \/ call.op \in {"direct", "single"}) => handle.pos = last.from + Len(last.bytes)

BytesAre ==
    last.count > 0 /\ InBlocks(DiskInodes[handle.ino], last.from, last.count) =>
        \A i \in 1..Len(last.bytes) : last.bytes[i] = ContentAt(DiskInodes[handle.ino], last.from + i - 1)

DirectAt ==
    call.op = "direct" =>
        /\ last.from < DirectBlocks * BlockBytes
        /\ call.at < InodeBlocks /\ call.at = handle.pos \div BlockBytes
        /\ Len(last.bytes) < last.count \/ last.count = 0

SingleAt ==
    call.op = "single" =>
        /\ last.from >= DirectBlocks * BlockBytes
        /\ Len(last.bytes) < last.count =>
              /\ handle.pos \div BlockBytes = DirectBlocks + call.at
              /\ call.at < TableEntries => call.block = BlockNumbers(DiskInodes[handle.ino])[call.at + 1]

ReadComplete ==
    call.op = "none" /\ last.count > 0 /\ InBlocks(DiskInodes[handle.ino], last.from, last.count) =>
        /\ last.bytes # <<>>
        /\ last.from + last.count <= DirectBlocks * BlockBytes => Len(last.bytes) = last.count

ReadInv == Ext4Types /\ NothingReadYet /\ PositionIs /\ BytesAre /\ DirectAt /\ SingleAt /\ ReadComplete

LEMMA Ext4Sizes ==
    /\ BlockBytes \in Nat /\ BlockBytes >= 1 /\ DirectBlocks \in Nat /\ DirectBlocks >= 1 /\ TableEntries \in Nat
    /\ InodeBlocks = DirectBlocks + 3 /\ NumberLimit \in Nat /\ MaxPath \in Nat
    /\ ReadCounts \subseteq Nat /\ SeekOffsets \subseteq Nat /\ BehindTable \subseteq Nat
    /\ RootInode \in DOMAIN DiskInodes /\ 0 \notin DOMAIN DiskInodes
    /\ DirectBlocks * BlockBytes \in Nat /\ (DirectBlocks + TableEntries) * BlockBytes \in Nat
  <1>1. BlockBytes \in Nat /\ BlockBytes >= 1 /\ DirectBlocks \in Nat /\ DirectBlocks >= 1 /\ TableEntries \in Nat
    BY Ext4Assumption
  <1>2. DirectBlocks * BlockBytes \in Nat /\ (DirectBlocks + TableEntries) * BlockBytes \in Nat
    BY <1>1
  <1>3. 0 \notin DOMAIN DiskInodes
    BY DiskAssumption
  <1> QED
    BY <1>1, <1>2, <1>3, Ext4Assumption

LEMMA NumbersTyped ==
    ASSUME NEW n \in DOMAIN DiskInodes
    PROVE  /\ DiskInodes[n] \in [1..InodeBlocks -> Nat]
           /\ BlockNumbers(DiskInodes[n]) \in [1..TableEntries -> Nat]
           /\ DiskInodes[n][DirectBlocks + 1] # 0 =>
                  BlockNumbers(DiskInodes[n]) = Tables[DiskInodes[n][DirectBlocks + 1]]
  BY DiskAssumption DEF BlockNumbers

LEMMA ReadInodeTyped == \A n : ReadInode(n) \in DOMAIN DiskInodes \cup {0}
  BY DEF ReadInode

LEMMA LookupTyped == \A dir, name : LookupName(dir, name) \in DOMAIN DiskInodes \cup {0}
  BY ReadInodeTyped, Zenon DEF LookupName

(* The bytes that a loop fetches from the block of the file position are   *)
(* the next bytes of the file.                                             *)
LEMMA FetchKeeps ==
    ASSUME ReadInv, NEW b \in Nat, Fetch(b), call.op \in {"direct", "single"},
           InBlocks(DiskInodes[handle.ino], last.from, last.count) /\ last.count > 0
               => b = FileBlock(DiskInodes[handle.ino], handle.pos \div BlockBytes)
    PROVE  /\ last' \in [from : Nat, count : Nat, bytes : Seq(Nat \X Nat)]
           /\ last'.from = last.from /\ last'.count = last.count /\ Len(last'.bytes) <= last.count
           /\ handle' \in [ino : DOMAIN DiskInodes \cup {0}, path : Seq(PathChars), pos : Nat]
           /\ handle'.ino = handle.ino /\ handle'.path = handle.path
           /\ handle'.pos = last.from + Len(last'.bytes)
           /\ Len(last'.bytes) < last.count => handle'.pos \div BlockBytes = (handle.pos \div BlockBytes) + 1
           /\ Len(last.bytes) < last.count => last'.bytes # <<>>
           /\ BytesAre'
  <1> DEFINE f == ReadFileBlock(handle.pos, last.count - Len(last.bytes), b)
             node == DiskInodes[handle.ino]
  <1>1. /\ handle.pos \in Nat /\ last.count \in Nat /\ last.from \in Nat /\ last.bytes \in Seq(Nat \X Nat)
        /\ Len(last.bytes) <= last.count /\ handle.pos = last.from + Len(last.bytes)
    BY DEF ReadInv, Ext4Types, PositionIs
  <1>a. PICK m \in Nat : FetchIs(last.bytes, f, handle.pos, last.count, b, m)
    BY <1>1, FetchedBytes, Zenon
  <1>2. /\ Len(f) = m /\ last.bytes \o f \in Seq(Nat \X Nat)
        /\ Len(last.bytes \o f) = Len(last.bytes) + m /\ Len(last.bytes) + m <= last.count
        /\ \A i \in 1..Len(last.bytes) : (last.bytes \o f)[i] = last.bytes[i]
        /\ \A i \in 1..m : /\ (handle.pos % BlockBytes) + (i - 1) < BlockBytes
                           /\ (last.bytes \o f)[Len(last.bytes) + i]
                                 = IF b = 0 THEN Zero ELSE <<b, (handle.pos % BlockBytes) + i - 1>>
        /\ Len(last.bytes) + m < last.count => m = BlockBytes - (handle.pos % BlockBytes)
        /\ Len(last.bytes) < last.count => m >= 1
    BY <1>a, Zenon DEF FetchIs
  <1>3. last' = [last EXCEPT !.bytes = last.bytes \o f] /\ handle' = [handle EXCEPT !.pos = @ + Len(f)]
    BY DEF Fetch
  <1> HIDE DEF f
  <1>4. last'.from = last.from /\ last'.count = last.count /\ last'.bytes = last.bytes \o f
        /\ last' \in [from : Nat, count : Nat, bytes : Seq(Nat \X Nat)]
    <2>1. last \in [from : Nat, count : Nat, bytes : Seq(Nat \X Nat)]
      BY DEF ReadInv, Ext4Types
    <2>2. last.bytes \o f \in Seq(Nat \X Nat)
      BY <1>2
    <2> QED
      BY <1>3, <2>1, <2>2
  <1>5. /\ handle' \in [ino : DOMAIN DiskInodes \cup {0}, path : Seq(PathChars), pos : Nat]
        /\ handle'.ino = handle.ino /\ handle'.path = handle.path /\ handle'.pos = handle.pos + m
    <2>1. handle \in [ino : DOMAIN DiskInodes \cup {0}, path : Seq(PathChars), pos : Nat]
      BY DEF ReadInv, Ext4Types
    <2>2. handle' = [handle EXCEPT !.pos = @ + m]
      BY <1>2, <1>3
    <2> QED
      BY <2>1, <2>2
  <1>6. Len(last'.bytes) = Len(last.bytes) + m /\ Len(last'.bytes) <= last.count
    BY <1>2, <1>4
  <1>7. handle'.pos = last.from + Len(last'.bytes)
    BY <1>1, <1>5, <1>6
  <1>8. Len(last'.bytes) < last.count => handle'.pos \div BlockBytes = (handle.pos \div BlockBytes) + 1
    BY <1>1, <1>2, <1>5, <1>6, NextBlock
  <1>9. Len(last.bytes) < last.count => last'.bytes # <<>>
    <2>1. Len(last.bytes) < last.count => Len(last'.bytes) > 0
      BY <1>1, <1>2, <1>6
    <2> QED
      BY <2>1
  <1>10. BytesAre'
    <2>1. SUFFICES ASSUME last.count > 0, InBlocks(node, last.from, last.count),
                          NEW i \in 1..Len(last'.bytes)
                   PROVE  last'.bytes[i] = ContentAt(node, last.from + i - 1)
      BY <1>4, <1>5 DEF BytesAre
    <2>2. CASE i <= Len(last.bytes)
      <3>1. i \in 1..Len(last.bytes)
        BY <1>1, <2>2
      <3>2. last'.bytes[i] = last.bytes[i]
        BY <1>2, <1>4, <3>1
      <3> QED
        BY <2>1, <3>1, <3>2 DEF ReadInv, BytesAre
    <2>3. CASE i > Len(last.bytes)
      <3>1. PICK j \in 1..m : i = Len(last.bytes) + j
        <4>1. i - Len(last.bytes) \in 1..m
          BY <1>1, <1>6, <2>3
        <4>2. i = Len(last.bytes) + (i - Len(last.bytes))
          BY <1>1
        <4> QED
          BY <4>1, <4>2, Zenon
      <3>2. PICK k \in Nat : k = j - 1
        OBVIOUS
      <3>3. last.from + i - 1 = handle.pos + k
        BY <1>1, <3>1, <3>2
      <3>4. (handle.pos % BlockBytes) + k < BlockBytes
        BY <1>2, <3>2
      <3>5. /\ (handle.pos + k) \div BlockBytes = handle.pos \div BlockBytes
            /\ (handle.pos + k) % BlockBytes = (handle.pos % BlockBytes) + k
        BY <1>1, <3>4, WithinBlock
      <3>6. b = FileBlock(node, handle.pos \div BlockBytes)
        BY <2>1
      <3>7. ContentAt(node, handle.pos + k) = IF b = 0 THEN Zero ELSE <<b, (handle.pos % BlockBytes) + k>>
        BY <3>5, <3>6, Zenon DEF ContentAt
      <3>8. last'.bytes[i] = IF b = 0 THEN Zero ELSE <<b, (handle.pos % BlockBytes) + j - 1>>
        BY <1>2, <1>4, <3>1
      <3>9. (handle.pos % BlockBytes) + j - 1 = (handle.pos % BlockBytes) + k
        BY <1>1, <3>2, NextBlock
      <3> QED
        BY <3>3, <3>7, <3>8, <3>9, Zenon
    <2> QED
      BY <1>1, <2>2, <2>3
  <1> QED
    BY <1>4, <1>5, <1>6, <1>7, <1>8, <1>9, <1>10

LEMMA StrtokTyped ==
    ASSUME NEW s \in Seq(PathChars), NEW from \in Nat
    PROVE  Strtok(s, from).save \in Nat
  <1> DEFINE start == Min({j \in from..Len(s) : s[j] # "/"} \cup {Len(s) + 1})
             stops == {j \in start..Len(s) : s[j] = "/"}
  <1>1. start \in Nat
    <2>1. /\ {j \in from..Len(s) : s[j] # "/"} \cup {Len(s) + 1} \in SUBSET Nat
          /\ {j \in from..Len(s) : s[j] # "/"} \cup {Len(s) + 1} # {}
      OBVIOUS
    <2> QED
      BY <2>1, MinIsMember
  <1> HIDE DEF start
  <1>2. ASSUME stops # {} PROVE Min(stops) \in Nat
    <2>1. stops \in SUBSET Nat
      BY <1>1
    <2> QED
      BY <1>2, <2>1, MinIsMember
  <1> QED
    BY <1>1, <1>2 DEF Strtok, start

LEMMA ReadInvInit == Ext4Init => ReadInv
  <1> SUFFICES ASSUME Ext4Init
               PROVE  ReadInv
    OBVIOUS
  <1>1. handle = [ino |-> 0, path |-> <<>>, pos |-> 0] /\ call = [op |-> "none", at |-> 0, block |-> 0]
        /\ last = [from |-> 0, count |-> 0, bytes |-> <<>>]
    BY DEF Ext4Init, NoHandle, NoCall, NoRead
  <1>2. <<>> \in Seq(PathChars) /\ <<>> \in Seq(Nat \X Nat) /\ Len(<<>>) = 0
    OBVIOUS
  <1>3. Ext4Types
    BY <1>1, <1>2 DEF Ext4Types
  <1>4. NothingReadYet
    BY <1>1 DEF NothingReadYet, NoRead
  <1>5. PositionIs /\ BytesAre /\ DirectAt /\ SingleAt /\ ReadComplete
    BY <1>1 DEF PositionIs, BytesAre, DirectAt, SingleAt, ReadComplete
  <1> QED
    BY <1>3, <1>4, <1>5 DEF ReadInv

LEMMA ReadInvOpen ==
    ASSUME ReadInv, NEW path \in PathsOf(MaxPath), Open(path)
    PROVE  ReadInv'
  <1>1. path \in Seq(PathChars)
    <2>1. PICK k \in 0..MaxPath : path \in [1..k -> PathChars]
      BY DEF PathsOf
    <2>2. k \in Nat
      BY Ext4Sizes
    <2> QED
      BY <2>1, <2>2
  <1>2. /\ handle = NoHandle /\ last' = last
        /\ handle'.ino \in DOMAIN DiskInodes \cup {0} /\ handle' = [ino |-> handle'.ino, path |-> path, pos |-> 0]
        /\ \/ handle'.ino # 0 /\ call' = [op |-> "open", at |-> 1, block |-> 0]
           \/ handle'.ino = 0 /\ call' = NoCall
    BY Ext4Sizes DEF Open, NoCall
  <1>3. last = NoRead /\ last.count = 0
    BY <1>2 DEF ReadInv, NothingReadYet, NoHandle, NoRead
  <1>4. Ext4Types'
    BY <1>1, <1>2 DEF ReadInv, Ext4Types, NoCall
  <1>5. call'.op \in {"none", "open"} /\ last' = NoRead
    BY <1>2, <1>3 DEF NoCall
  <1> QED
    BY <1>3, <1>4, <1>5, <1>2
    DEF ReadInv, NothingReadYet, PositionIs, BytesAre, DirectAt, SingleAt, ReadComplete

LEMMA ReadInvWalk ==
    ASSUME ReadInv, Walk
    PROVE  ReadInv'
  <1>1. last = NoRead /\ last.count = 0 /\ call.op = "open" /\ last' = last
    BY DEF ReadInv, NothingReadYet, NoRead, Walk
  <1> DEFINE t == Strtok(handle.path, call.at)
             node == LookupName(handle.ino, t.token)
  <1>2. node \in DOMAIN DiskInodes \cup {0}
    BY LookupTyped
  <1>3. \/ call' = NoCall /\ handle' = handle
        \/ /\ handle' = [handle EXCEPT !.ino = node]
           /\ call' = NoCall \/ call' = [call EXCEPT !.at = t.save]
    BY DEF Walk
  <1>4. t.save \in Nat
    <2>1. handle.path \in Seq(PathChars) /\ call.at \in Nat
      BY DEF ReadInv, Ext4Types
    <2> QED
      BY <2>1, StrtokTyped
  <1> HIDE DEF t, node
  <1>5. Ext4Types'
    BY <1>1, <1>2, <1>3, <1>4 DEF ReadInv, Ext4Types, NoCall
  <1>6. call'.op \in {"none", "open"}
    BY <1>1, <1>3 DEF ReadInv, Ext4Types, NoCall
  <1> QED
    BY <1>1, <1>5, <1>6
    DEF ReadInv, NothingReadYet, PositionIs, BytesAre, DirectAt, SingleAt, ReadComplete

LEMMA ReadInvSeek ==
    ASSUME ReadInv, NEW offset \in SeekOffsets, NEW whence, Seek(offset, whence)
    PROVE  ReadInv'
  <1>1. offset \in Nat /\ handle.pos \in Nat
    BY Ext4Sizes DEF ReadInv, Ext4Types
  <1>2. PICK p \in Nat : handle' = [handle EXCEPT !.pos = p]
    BY <1>1 DEF Seek
  <1>3. call = NoCall /\ call' = call /\ last' = NoRead
    BY DEF Seek
  <1>4. NoRead \in [from : Nat, count : Nat, bytes : Seq(Nat \X Nat)] /\ NoRead.count = 0 /\ Len(NoRead.bytes) = 0
    BY DEF NoRead
  <1>5. Ext4Types'
    <2>1. handle' \in [ino : DOMAIN DiskInodes \cup {0}, path : Seq(PathChars), pos : Nat]
      BY <1>2 DEF ReadInv, Ext4Types
    <2>2. call' \in [op : {"none", "open", "direct", "single"}, at : Nat, block : Nat]
      BY <1>3 DEF ReadInv, Ext4Types
    <2>3. last' \in [from : Nat, count : Nat, bytes : Seq(Nat \X Nat)] /\ Len(last'.bytes) <= last'.count
      BY <1>3, <1>4
    <2> QED
      BY <2>1, <2>2, <2>3 DEF Ext4Types
  <1>6. call'.op = "none" /\ last'.count = 0
    BY <1>3, <1>4 DEF NoCall
  <1> QED
    BY <1>3, <1>5, <1>6
    DEF ReadInv, NothingReadYet, PositionIs, BytesAre, DirectAt, SingleAt, ReadComplete

LEMMA ReadInvRead ==
    ASSUME ReadInv, NEW count \in ReadCounts, Read(count)
    PROVE  ReadInv'
  <1> DEFINE q == handle.pos \div BlockBytes
             node == DiskInodes[handle.ino]
  <1>1. /\ handle \in [ino : DOMAIN DiskInodes \cup {0}, path : Seq(PathChars), pos : Nat]
        /\ handle.ino \in DOMAIN DiskInodes /\ handle.pos \in Nat /\ handle' = handle /\ count \in Nat
    BY Ext4Sizes DEF ReadInv, Ext4Types, Read
  <1>2. last' = [from |-> handle.pos, count |-> count, bytes |-> <<>>]
    BY DEF Read
  <1>3. last' \in [from : Nat, count : Nat, bytes : Seq(Nat \X Nat)] /\ last'.from = handle.pos
        /\ last'.count = count /\ last'.bytes = <<>> /\ Len(last'.bytes) = 0
    <2>1. <<>> \in Seq(Nat \X Nat) /\ Len(<<>>) = 0
      OBVIOUS
    <2> QED
      BY <1>1, <1>2, <2>1
  <1>4. q \in Nat
    BY <1>1, NextBlock
  <1>5. /\ handle.pos < DirectBlocks * BlockBytes <=> q < DirectBlocks
        /\ handle.pos < (DirectBlocks + TableEntries) * BlockBytes <=> q < DirectBlocks + TableEntries
    BY <1>1, Ext4Sizes, BlockBelow
  <1>6. \/ q < DirectBlocks /\ call' = [op |-> "direct", at |-> q, block |-> 0]
        \/ /\ q >= DirectBlocks /\ q - DirectBlocks < TableEntries
           /\ call' = [op |-> "single", at |-> q - DirectBlocks, block |-> BlockNumbers(node)[q - DirectBlocks + 1]]
        \/ q >= DirectBlocks + TableEntries /\ call' = NoCall
    <2>1. CASE q < DirectBlocks
      BY <2>1 DEF Read
    <2>2. CASE q >= DirectBlocks /\ q - DirectBlocks < TableEntries
      <3>1. ~(q < DirectBlocks)
        BY <1>4, <2>2, Ext4Sizes
      <3> QED
        BY <2>2, <3>1 DEF Read
    <2>3. CASE ~(q < DirectBlocks) /\ ~(q >= DirectBlocks /\ q - DirectBlocks < TableEntries)
      <3>1. q >= DirectBlocks + TableEntries
        BY <1>4, <2>3, Ext4Sizes
      <3>2. call' = NoCall
        BY <2>3 DEF Read
      <3> QED
        BY <3>1, <3>2
    <2>4. q < DirectBlocks \/ ~(q < DirectBlocks)
      OBVIOUS
    <2> QED
      BY <2>1, <2>2, <2>3, <2>4
  <1> HIDE DEF q
  <1>7. CASE q < DirectBlocks /\ call' = [op |-> "direct", at |-> q, block |-> 0]
    <2>1. Ext4Types'
      BY <1>1, <1>3, <1>4, <1>7 DEF Ext4Types
    <2>2. NothingReadYet' /\ PositionIs' /\ BytesAre' /\ SingleAt' /\ ReadComplete'
      BY <1>1, <1>3, <1>7, Ext4Sizes DEF NothingReadYet, PositionIs, BytesAre, SingleAt, ReadComplete
    <2>3. DirectAt'
      BY <1>1, <1>3, <1>4, <1>5, <1>7, Ext4Sizes DEF DirectAt, q
    <2> QED
      BY <2>1, <2>2, <2>3 DEF ReadInv
  <1>8. CASE /\ q >= DirectBlocks /\ q - DirectBlocks < TableEntries
             /\ call' = [op |-> "single", at |-> q - DirectBlocks, block |-> BlockNumbers(node)[q - DirectBlocks + 1]]
    <2>1. q - DirectBlocks \in Nat /\ BlockNumbers(node)[q - DirectBlocks + 1] \in Nat
      <3>1. q - DirectBlocks + 1 \in 1..TableEntries
        BY <1>4, <1>8, Ext4Sizes
      <3> QED
        <4>1. BlockNumbers(node) \in [1..TableEntries -> Nat]
          BY <1>1, NumbersTyped, Zenon
        <4>2. BlockNumbers(node)[q - DirectBlocks + 1] \in Nat
          BY <3>1, <4>1
        <4> QED
          BY <1>4, <1>8, <4>2, Ext4Sizes
    <2>2. Ext4Types'
      BY <1>1, <1>3, <1>8, <2>1 DEF Ext4Types
    <2>3. NothingReadYet' /\ PositionIs' /\ BytesAre' /\ DirectAt' /\ ReadComplete'
      BY <1>1, <1>3, <1>8, Ext4Sizes DEF NothingReadYet, PositionIs, BytesAre, DirectAt, ReadComplete
    <2>4. handle'.pos \div BlockBytes = DirectBlocks + call'.at
      <3>1. handle'.pos \div BlockBytes = q
        BY <1>1 DEF q
      <3> QED
        BY <1>4, <1>8, <3>1, Ext4Sizes
    <2>5. SingleAt'
      BY <1>1, <1>3, <1>4, <1>5, <1>8, <2>4, Ext4Sizes DEF SingleAt
    <2> QED
      BY <2>2, <2>3, <2>5 DEF ReadInv
  <1>9. CASE q >= DirectBlocks + TableEntries /\ call' = NoCall
    <2>1. Ext4Types'
      BY <1>1, <1>3, <1>9 DEF Ext4Types, NoCall
    <2>2. NothingReadYet' /\ PositionIs' /\ BytesAre' /\ DirectAt' /\ SingleAt'
      BY <1>1, <1>3, <1>9, Ext4Sizes DEF NothingReadYet, PositionIs, BytesAre, DirectAt, SingleAt, NoCall
    <2>d. PICK d \in Nat : d = DirectBlocks * BlockBytes
      BY Ext4Sizes
    <2>e. PICK e \in Nat : e = (DirectBlocks + TableEntries) * BlockBytes
      BY Ext4Sizes
    <2>3. handle.pos >= e
      <3>1. ~(q < DirectBlocks + TableEntries)
        BY <1>4, <1>9, Ext4Sizes
      <3>2. ~(handle.pos < e)
        BY <1>5, <2>e, <3>1, Zenon
      <3> QED
        BY <1>1, <3>2
    <2>4. e >= d
      <3>1. (DirectBlocks + TableEntries) * BlockBytes >= DirectBlocks * BlockBytes
        BY Ext4Sizes, Multiples
      <3> QED
        BY <2>d, <2>e, <3>1, Zenon
    <2>5. ASSUME count > 0 PROVE ~InBlocks(node, handle.pos, count)
      <3>1. ~(handle.pos + count <= d) /\ ~(handle.pos + count <= e)
        BY <1>1, <2>3, <2>4, <2>5
      <3> QED
        BY <2>d, <2>e, <3>1, Zenon DEF InBlocks
    <2>6. ReadComplete'
      BY <1>1, <1>3, <2>5 DEF ReadComplete
    <2> QED
      BY <2>1, <2>2, <2>6 DEF ReadInv
  <1> QED
    BY <1>6, <1>7, <1>8, <1>9

LEMMA ReadInvDirect ==
    ASSUME ReadInv, ReadDirect
    PROVE  ReadInv'
  <1> DEFINE node == DiskInodes[handle.ino]
             b    == node[call.at + 1]
  <1>1. /\ call \in [op : {"none", "open", "direct", "single"}, at : Nat, block : Nat]
        /\ call.op = "direct" /\ call.at \in Nat /\ handle.pos \in Nat /\ last.count \in Nat /\ last.from \in Nat
        /\ Len(last.bytes) \in Nat /\ Len(last.bytes) <= last.count
    BY DEF ReadInv, Ext4Types, ReadDirect
  <1>2. handle.ino \in DOMAIN DiskInodes
    BY <1>1 DEF ReadInv, Ext4Types, NothingReadYet
  <1>3. /\ last.from < DirectBlocks * BlockBytes
        /\ call.at < InodeBlocks /\ call.at = handle.pos \div BlockBytes
        /\ Len(last.bytes) < last.count \/ last.count = 0
        /\ handle.pos = last.from + Len(last.bytes)
    BY <1>1 DEF ReadInv, DirectAt, PositionIs
  <1>d. PICK d \in Nat : d = DirectBlocks * BlockBytes
    BY Ext4Sizes
  <1>p. last.from < d /\ handle.pos = last.from + Len(last.bytes)
    BY <1>3, <1>d, Zenon
  <1>4. b \in Nat
    <2>1. call.at + 1 \in 1..InodeBlocks
      <3>1. InodeBlocks \in Nat
        BY Ext4Sizes
      <3>2. call.at \in Nat /\ call.at < InodeBlocks
        BY <1>1, <1>3, Zenon
      <3> QED
        BY <3>1, <3>2
    <2> QED
      BY <1>2, <2>1, NumbersTyped
  <1>5. InBlocks(node, last.from, last.count) /\ last.count > 0 => b = FileBlock(node, handle.pos \div BlockBytes)
    <2> SUFFICES ASSUME InBlocks(node, last.from, last.count), last.count > 0
                 PROVE  b = FileBlock(node, call.at)
      BY <1>3
    <2>1. last.from + last.count <= DirectBlocks * BlockBytes
      <3>1. ~(last.from >= d)
        BY <1>1, <1>p
      <3> QED
        BY <1>d, <3>1, Zenon DEF InBlocks
    <2>2. handle.pos < DirectBlocks * BlockBytes
      <3>1. last.from + last.count <= d /\ (Len(last.bytes) < last.count \/ last.count = 0)
        BY <1>3, <1>d, <2>1, Zenon
      <3>2. handle.pos < d
        BY <1>1, <1>p, <3>1
      <3> QED
        BY <1>d, <3>2, Zenon
    <2>3. call.at < DirectBlocks
      <3>1. handle.pos \div BlockBytes < DirectBlocks
        BY <1>1, <2>2, Ext4Sizes, BlockBelow, Zenon
      <3> QED
        BY <1>3, <3>1, Zenon
    <2> QED
      BY <2>3 DEF FileBlock
  <1>6. Fetch(b)
    BY DEF ReadDirect
  <1>7. /\ last' \in [from : Nat, count : Nat, bytes : Seq(Nat \X Nat)]
        /\ last'.from = last.from /\ last'.count = last.count /\ Len(last'.bytes) <= last.count
        /\ handle' \in [ino : DOMAIN DiskInodes \cup {0}, path : Seq(PathChars), pos : Nat]
        /\ handle'.ino = handle.ino /\ handle'.path = handle.path
        /\ handle'.pos = last.from + Len(last'.bytes)
        /\ Len(last'.bytes) < last.count => handle'.pos \div BlockBytes = call.at + 1
        /\ Len(last.bytes) < last.count => last'.bytes # <<>>
        /\ BytesAre'
    BY <1>1, <1>3, <1>4, <1>5, <1>6, FetchKeeps
  <1>8. call' = IF Len(last'.bytes) >= last.count \/ call.at + 1 = InodeBlocks
                THEN NoCall ELSE [call EXCEPT !.at = @ + 1]
    BY DEF ReadDirect
  <1>9. Len(last'.bytes) \in Nat /\ handle'.pos \in Nat
    BY <1>7
  <1> HIDE DEF b, node
  <1>10. Ext4Types'
    <2>1. call' \in [op : {"none", "open", "direct", "single"}, at : Nat, block : Nat]
      BY <1>1, <1>8 DEF NoCall
    <2> QED
      BY <1>7, <2>1 DEF Ext4Types
  <1>11. call'.op \in {"none", "direct"}
    BY <1>1, <1>8 DEF NoCall
  <1>12. NothingReadYet' /\ PositionIs' /\ SingleAt'
    BY <1>2, <1>7, <1>11, Ext4Sizes DEF NothingReadYet, PositionIs, SingleAt
  <1>13. DirectAt'
    <2> SUFFICES ASSUME call'.op = "direct"
                 PROVE  /\ call'.at < InodeBlocks /\ call'.at = handle'.pos \div BlockBytes
                        /\ Len(last'.bytes) < last'.count
      BY <1>3, <1>7 DEF DirectAt
    <2>1. ~(Len(last'.bytes) >= last.count) /\ call.at + 1 # InodeBlocks /\ call'.at = call.at + 1
      BY <1>1, <1>8 DEF NoCall
    <2>2. Len(last'.bytes) < last.count
      BY <1>1, <1>9, <2>1
    <2> QED
      BY <1>1, <1>3, <1>7, <2>1, <2>2, Ext4Sizes
  <1>14. ReadComplete'
    <2> SUFFICES ASSUME call'.op = "none", last.count > 0, InBlocks(DiskInodes[handle.ino], last.from, last.count)
                 PROVE  last'.bytes # <<>> /\ Len(last'.bytes) = last.count
      BY <1>7 DEF ReadComplete
    <2>1. last'.bytes # <<>>
      BY <1>1, <1>3, <1>7
    <2>2. last.from + last.count <= DirectBlocks * BlockBytes
      <3>1. ~(last.from >= d)
        BY <1>1, <1>p
      <3> QED
        BY <1>d, <3>1, Zenon DEF InBlocks
    <2>3. ~(Len(last'.bytes) < last.count)
      <3> SUFFICES ASSUME Len(last'.bytes) < last.count
                   PROVE  FALSE
        OBVIOUS
      <3>1. call.at + 1 = InodeBlocks
        BY <1>1, <1>8, <1>9
      <3>2. handle'.pos < DirectBlocks * BlockBytes
        <4>1. last.from + last.count <= d /\ handle'.pos = last.from + Len(last'.bytes)
          BY <1>7, <1>d, <2>2, Zenon
        <4>2. handle'.pos < d
          BY <1>1, <1>9, <4>1
        <4> QED
          BY <1>d, <4>2, Zenon
      <3>3. call.at + 1 < DirectBlocks
        <4>1. handle'.pos \div BlockBytes < DirectBlocks
          BY <1>9, <3>2, Ext4Sizes, BlockBelow, Zenon
        <4> QED
          BY <1>7, <4>1, Zenon
      <3> QED
        BY <1>1, <3>1, <3>3, Ext4Sizes
    <2> QED
      BY <1>1, <1>7, <1>9, <2>1, <2>3
  <1> QED
    BY <1>7, <1>10, <1>12, <1>13, <1>14 DEF ReadInv

LEMMA ReadInvSingle ==
    ASSUME ReadInv, NEW behind \in BehindTable, ReadSingleIndirect(behind)
    PROVE  ReadInv'
  <1> DEFINE node == DiskInodes[handle.ino]
             next == IF call.at + 1 < TableEntries THEN BlockNumbers(node)[call.at + 1 + 1] ELSE behind
  <1>1. /\ call \in [op : {"none", "open", "direct", "single"}, at : Nat, block : Nat]
        /\ call.op = "single" /\ call.at \in Nat /\ call.block \in Nat
        /\ handle.pos \in Nat /\ last.count \in Nat /\ last.from \in Nat
        /\ Len(last.bytes) \in Nat /\ Len(last.bytes) <= last.count
    BY DEF ReadInv, Ext4Types, ReadSingleIndirect
  <1>2. handle.ino \in DOMAIN DiskInodes
    BY <1>1 DEF ReadInv, Ext4Types, NothingReadYet
  <1>3. /\ last.from >= DirectBlocks * BlockBytes /\ handle.pos = last.from + Len(last.bytes)
        /\ Len(last.bytes) < last.count =>
              /\ handle.pos \div BlockBytes = DirectBlocks + call.at
              /\ call.at < TableEntries => call.block = BlockNumbers(node)[call.at + 1]
    BY <1>1 DEF ReadInv, SingleAt, PositionIs
  <1>d. PICK d \in Nat : d = DirectBlocks * BlockBytes
    BY Ext4Sizes
  <1>e. PICK e \in Nat : e = (DirectBlocks + TableEntries) * BlockBytes
    BY Ext4Sizes
  <1>p. last.from >= d /\ handle.pos = last.from + Len(last.bytes)
    BY <1>3, <1>d, Zenon
  <1>4. CASE Len(last.bytes) >= last.count /\ call' = NoCall /\ UNCHANGED <<handle, last>>
    <2>1. Ext4Types'
      BY <1>4 DEF ReadInv, Ext4Types, NoCall
    <2>2. NothingReadYet' /\ PositionIs' /\ DirectAt' /\ SingleAt'
      BY <1>1, <1>2, <1>3, <1>4, Ext4Sizes DEF NothingReadYet, PositionIs, DirectAt, SingleAt, NoCall
    <2>3. BytesAre'
      BY <1>4 DEF ReadInv, BytesAre
    <2>4. ReadComplete'
      <3>1. last.count > 0 => last.bytes # <<>> /\ Len(last.bytes) = last.count
        BY <1>1, <1>4
      <3> QED
        BY <1>4, <3>1 DEF ReadComplete
    <2> QED
      BY <2>1, <2>2, <2>3, <2>4 DEF ReadInv
  <1>5. CASE /\ Len(last.bytes) < last.count /\ Fetch(call.block)
             /\ call' = IF next >= NumberLimit THEN NoCall ELSE [call EXCEPT !.at = call.at + 1, !.block = next]
    <2>1. InBlocks(node, last.from, last.count) => call.block = FileBlock(node, handle.pos \div BlockBytes)
      <3> SUFFICES ASSUME InBlocks(node, last.from, last.count)
                   PROVE  call.block = FileBlock(node, DirectBlocks + call.at)
        BY <1>3, <1>5
      <3>1. last.from + last.count <= (DirectBlocks + TableEntries) * BlockBytes /\ node[DirectBlocks + 1] # 0
        <4>1. ~(last.from + last.count <= d)
          BY <1>1, <1>p, <1>5
        <4> QED
          BY <1>d, <4>1, Zenon DEF InBlocks
      <3>2. handle.pos < (DirectBlocks + TableEntries) * BlockBytes
        <4>1. last.from + last.count <= e
          BY <1>e, <3>1, Zenon
        <4>2. handle.pos < e
          BY <1>1, <1>p, <1>5, <4>1
        <4> QED
          BY <1>e, <4>2, Zenon
      <3>3. handle.pos \div BlockBytes < DirectBlocks + TableEntries
        <4>1. DirectBlocks + TableEntries \in Nat
          BY Ext4Sizes
        <4> QED
          BY <1>1, <3>2, <4>1, BlockBelow, Zenon
      <3>4. call.at < TableEntries
        BY <1>1, <1>3, <1>5, <3>3, Ext4Sizes
      <3>5. call.block = Tables[node[DirectBlocks + 1]][call.at + 1]
        BY <1>2, <1>3, <1>5, <3>1, <3>4, NumbersTyped
      <3>6. (DirectBlocks + call.at) - DirectBlocks + 1 = call.at + 1 /\ ~(DirectBlocks + call.at < DirectBlocks)
        BY <1>1, Ext4Sizes
      <3> QED
        BY <3>5, <3>6, Zenon DEF FileBlock
    <2>2. /\ last' \in [from : Nat, count : Nat, bytes : Seq(Nat \X Nat)]
          /\ last'.from = last.from /\ last'.count = last.count /\ Len(last'.bytes) <= last.count
          /\ handle' \in [ino : DOMAIN DiskInodes \cup {0}, path : Seq(PathChars), pos : Nat]
          /\ handle'.ino = handle.ino /\ handle'.path = handle.path
          /\ handle'.pos = last.from + Len(last'.bytes)
          /\ Len(last'.bytes) < last.count => handle'.pos \div BlockBytes = (handle.pos \div BlockBytes) + 1
          /\ last'.bytes # <<>>
          /\ BytesAre'
      BY <1>1, <1>5, <2>1, FetchKeeps
    <2>3. next \in Nat /\ (call.at + 1 < TableEntries => next = BlockNumbers(node)[(call.at + 1) + 1])
      <3>1. CASE call.at + 1 < TableEntries
        <4>1. (call.at + 1) + 1 \in 1..TableEntries /\ (call.at + 1) + 1 = call.at + 1 + 1
          BY <1>1, <3>1, Ext4Sizes
        <4> QED
          BY <1>2, <3>1, <4>1, NumbersTyped
      <3>2. CASE ~(call.at + 1 < TableEntries)
        BY <3>2, Ext4Sizes
      <3> QED
        BY <3>1, <3>2
    <2> HIDE DEF next, node
    <2>4. call' \in [op : {"none", "open", "direct", "single"}, at : Nat, block : Nat]
      <3>1. call.at + 1 \in Nat
        BY <1>1
      <3>2. call' = NoCall \/ call' = [call EXCEPT !.at = call.at + 1, !.block = next]
        BY <1>5
      <3>3. CASE call' = NoCall
        BY <3>3 DEF NoCall
      <3>4. CASE call' = [call EXCEPT !.at = call.at + 1, !.block = next]
        <4>1. call \in [op : {"none", "open", "direct", "single"}, at : Nat, block : Nat] /\ next \in Nat
          BY <1>1, <2>3
        <4> QED
          BY <3>1, <3>4, <4>1
      <3> QED
        BY <3>2, <3>3, <3>4
    <2>5. Ext4Types'
      BY <2>2, <2>4 DEF Ext4Types
    <2>6. call'.op \in {"none", "single"} /\ (call'.op = "single" => call'.at = call.at + 1 /\ call'.block = next)
      BY <1>1, <1>5 DEF NoCall
    <2>7. NothingReadYet' /\ PositionIs' /\ DirectAt'
      BY <1>2, <2>2, <2>6, Ext4Sizes DEF NothingReadYet, PositionIs, DirectAt
    <2>8. SingleAt'
      <3> SUFFICES ASSUME call'.op = "single", Len(last'.bytes) < last.count
                   PROVE  /\ handle'.pos \div BlockBytes = DirectBlocks + call'.at
                          /\ call'.at < TableEntries => call'.block = BlockNumbers(node)[call'.at + 1]
        BY <1>3, <2>2 DEF SingleAt, node
      <3>1. handle'.pos \div BlockBytes = DirectBlocks + call'.at
        <4>1. call'.at = call.at + 1
          BY <2>6
        <4>2. handle'.pos \div BlockBytes = (DirectBlocks + call.at) + 1
          BY <1>3, <1>5, <2>2
        <4> QED
          BY <1>1, <4>1, <4>2, Ext4Sizes
      <3>2. call'.at < TableEntries => call'.block = BlockNumbers(node)[call'.at + 1]
        BY <2>3, <2>6
      <3> QED
        BY <3>1, <3>2
    <2>9. ReadComplete'
      <3>1. last.from + last.count > DirectBlocks * BlockBytes
        <4>1. last.from + last.count > d
          BY <1>1, <1>p, <1>5
        <4> QED
          BY <1>d, <4>1, Zenon
      <3>2. ~(last'.from + last'.count <= DirectBlocks * BlockBytes)
        <4>1. last.from + last.count > d /\ last'.from + last'.count = last.from + last.count
          BY <1>d, <2>2, <3>1, Zenon
        <4>2. ~(last'.from + last'.count <= d)
          BY <1>1, <4>1
        <4> QED
          BY <1>d, <4>2, Zenon
      <3> QED
        BY <2>2, <3>2, Zenon DEF ReadComplete
    <2> QED
      BY <2>2, <2>5, <2>7, <2>8, <2>9 DEF ReadInv
  <1> QED
    BY <1>4, <1>5 DEF ReadSingleIndirect

LEMMA ReadInvNext == ReadInv /\ [Ext4Next]_ext4Vars => ReadInv'
  <1> SUFFICES ASSUME ReadInv, [Ext4Next]_ext4Vars
               PROVE  ReadInv'
    OBVIOUS
  <1>1. ASSUME NEW path \in PathsOf(MaxPath), Open(path) PROVE ReadInv'
    BY <1>1, ReadInvOpen
  <1>2. CASE Walk
    BY <1>2, ReadInvWalk
  <1>3. CASE ReadDirect
    BY <1>3, ReadInvDirect
  <1>4. ASSUME NEW b \in BehindTable, ReadSingleIndirect(b) PROVE ReadInv'
    BY <1>4, ReadInvSingle
  <1>5. ASSUME NEW n \in ReadCounts, Read(n) PROVE ReadInv'
    BY <1>5, ReadInvRead
  <1>6. ASSUME NEW o \in SeekOffsets, NEW w \in {"SET", "CUR", "END"}, Seek(o, w) PROVE ReadInv'
    BY <1>6, ReadInvSeek
  <1>7. CASE UNCHANGED ext4Vars
    BY <1>7 DEF ext4Vars, ReadInv, Ext4Types, NothingReadYet, PositionIs, BytesAre, DirectAt, SingleAt, ReadComplete
  <1> QED
    BY <1>1, <1>2, <1>3, <1>4, <1>5, <1>6, <1>7 DEF Ext4Next

(* Every read returns the contents of the file from the position on, for   *)
(* any sizes of blocks and tables, any file and any sequence of reads and  *)
(* seeks (read_direct, read_single_indirect).                              *)
THEOREM ReadsReturnTheFile == Ext4Spec => []ReadsAreTheFile
  <1>1. ReadInv => ReadsAreTheFile
    <2> SUFFICES ASSUME ReadInv, last.count > 0, InBlocks(DiskInodes[handle.ino], last.from, last.count)
                 PROVE  /\ last.bytes = [i \in 1..Len(last.bytes) |->
                                            ContentAt(DiskInodes[handle.ino], last.from + i - 1)]
                        /\ handle.pos = last.from + Len(last.bytes)
                        /\ call = NoCall =>
                              /\ last.bytes # <<>>
                              /\ last.from + last.count <= DirectBlocks * BlockBytes => Len(last.bytes) = last.count
      BY Zenon DEF ReadsAreTheFile, InBlocks
    <2>1. last.bytes \in Seq(Nat \X Nat)
      BY DEF ReadInv, Ext4Types
    <2>2. \A i \in 1..Len(last.bytes) : last.bytes[i] = ContentAt(DiskInodes[handle.ino], last.from + i - 1)
      BY DEF ReadInv, BytesAre
    <2>3. last.bytes = [i \in 1..Len(last.bytes) |-> ContentAt(DiskInodes[handle.ino], last.from + i - 1)]
      <3>1. last.bytes = [i \in 1..Len(last.bytes) |-> last.bytes[i]]
        <4>1. PICK s \in Seq(Nat \X Nat) : s = last.bytes
          BY <2>1, Zenon
        <4>2. s = [i \in 1..Len(s) |-> s[i]]
          OBVIOUS
        <4> QED
          BY <4>1, <4>2, Zenon
      <3>2. [i \in 1..Len(last.bytes) |-> last.bytes[i]]
                = [i \in 1..Len(last.bytes) |-> ContentAt(DiskInodes[handle.ino], last.from + i - 1)]
        BY <2>2, Zenon
      <3> QED
        BY <3>1, <3>2, Zenon
    <2>4. handle.pos = last.from + Len(last.bytes)
      BY DEF ReadInv, PositionIs
    <2>5. call = NoCall => call.op = "none"
      BY DEF NoCall
    <2> QED
      BY <2>3, <2>4, <2>5 DEF ReadInv, ReadComplete
  <1> QED
    BY <1>1, ReadInvInit, ReadInvNext, PTL DEF Ext4Spec

-----------------------------------------------------------------------------
(* open.  inode_to_sector finds the inode that it is asked for: the place  *)
(* that it computes is the inode's, and no other inode is there.           *)
InodeIsAt(n, g, r, t) ==
    /\ t = InodeTables[g] /\ r < InodesPerGroup
    /\ n - 1 = (g - 1) * InodesPerGroup + r
    /\ (n - 1) \div InodesPerGroup = g - 1 /\ (n - 1) % InodesPerGroup = r
    /\ InodeByte(n) = t * BlockBytes + r * InodeBytes

LEMMA InodePlace ==
    ASSUME NEW n \in DOMAIN DiskInodes
    PROVE  \E g \in 1..Len(InodeTables), r \in Nat, t \in Nat : InodeIsAt(n, g, r, t)
  <1>0. InodesPerGroup \in Nat /\ InodesPerGroup >= 1 /\ BlockBytes \in Nat /\ InodeBytes \in Nat
        /\ InodeTables \in Seq(Nat)
    BY Ext4Assumption, DiskAssumption
  <1>1. n \in Nat /\ n >= 1 /\ n <= Len(InodeTables) * InodesPerGroup
    BY DiskAssumption
  <1>2. PICK x \in Nat : x = n - 1
    BY <1>1
  <1>3. PICK q \in Nat : q = x \div InodesPerGroup
    BY <1>0, Division
  <1>4. PICK r \in Nat : r = x % InodesPerGroup
    BY <1>0, Division
  <1>5. x = q * InodesPerGroup + r /\ r < InodesPerGroup
    BY <1>0, <1>3, <1>4, Division
  <1>6. PICK k \in Nat : k = Len(InodeTables)
    BY <1>0
  <1>7. q < k
    <2> SUFFICES ASSUME q >= k
                 PROVE  FALSE
      OBVIOUS
    <2>1. q * InodesPerGroup >= k * InodesPerGroup
      BY <1>0, Multiples
    <2>2. q * InodesPerGroup \in Nat /\ k * InodesPerGroup \in Nat
      BY <1>0
    <2>3. x < k * InodesPerGroup
      BY <1>1, <1>2, <1>6, <2>2
    <2> QED
      BY <1>5, <2>1, <2>2, <2>3
  <1>8. PICK g \in 1..Len(InodeTables) : g = q + 1
    BY <1>6, <1>7
  <1>9. g - 1 = q
    BY <1>8
  <1>10. PICK t \in Nat : t = InodeTables[g]
    BY <1>0, <1>8
  <1>11. InodeByte(n) = t * BlockBytes + r * InodeBytes
    BY <1>2, <1>3, <1>4, <1>8, <1>10 DEF InodeByte
  <1>12. n - 1 = (g - 1) * InodesPerGroup + r /\ (n - 1) \div InodesPerGroup = g - 1 /\ (n - 1) % InodesPerGroup = r
    BY <1>2, <1>3, <1>4, <1>5, <1>9, Zenon
  <1>13. InodeIsAt(n, g, r, t)
    BY <1>5, <1>10, <1>11, <1>12, Zenon DEF InodeIsAt
  <1> QED
    BY <1>13

LEMMA InodesApart ==
    ASSUME NEW n \in DOMAIN DiskInodes, NEW m \in DOMAIN DiskInodes, InodeByte(n) = InodeByte(m)
    PROVE  n = m
  <1>0. /\ InodesPerGroup \in Nat /\ BlockBytes \in Nat /\ InodeBytes \in Nat /\ InodeBytes >= 1
        /\ n \in Nat /\ m \in Nat
    BY Ext4Assumption, DiskAssumption
  <1>a. PICK g \in 1..Len(InodeTables), r \in Nat, t \in Nat : InodeIsAt(n, g, r, t)
    BY InodePlace, Zenon
  <1>b. PICK h \in 1..Len(InodeTables), s \in Nat, u \in Nat : InodeIsAt(m, h, s, u)
    BY InodePlace, Zenon
  <1>1. /\ t = InodeTables[g] /\ r < InodesPerGroup
        /\ n - 1 = (g - 1) * InodesPerGroup + r
        /\ InodeByte(n) = t * BlockBytes + r * InodeBytes
    BY <1>a, Zenon DEF InodeIsAt
  <1>2. /\ u = InodeTables[h] /\ s < InodesPerGroup
        /\ m - 1 = (h - 1) * InodesPerGroup + s
        /\ InodeByte(m) = u * BlockBytes + s * InodeBytes
    BY <1>b, Zenon DEF InodeIsAt
  <1>3. PICK a \in Nat : a = t * BlockBytes
    BY <1>0
  <1>4. PICK b \in Nat : b = u * BlockBytes
    BY <1>0
  <1>5. PICK z \in Nat : z = InodesPerGroup * InodeBytes
    BY <1>0
  <1>6. r * InodeBytes \in Nat /\ s * InodeBytes \in Nat /\ r * InodeBytes < z /\ s * InodeBytes < z
    <2>1. InodesPerGroup * InodeBytes >= (r + 1) * InodeBytes /\ InodesPerGroup * InodeBytes >= (s + 1) * InodeBytes
      <3>1. r < InodesPerGroup /\ s < InodesPerGroup
        BY <1>1, <1>2, Zenon
      <3>2. InodesPerGroup >= r + 1 /\ InodesPerGroup >= s + 1 /\ r + 1 \in Nat /\ s + 1 \in Nat
        BY <1>0, <3>1
      <3> QED
        BY <1>0, <3>2, Multiples, Zenon
    <2>2. (r + 1) * InodeBytes = r * InodeBytes + InodeBytes /\ (s + 1) * InodeBytes = s * InodeBytes + InodeBytes
          /\ r * InodeBytes \in Nat /\ s * InodeBytes \in Nat
      BY <1>0
    <2> QED
      BY <1>0, <1>5, <2>1, <2>2
  <1>7. a + r * InodeBytes = b + s * InodeBytes
    BY <1>1, <1>2, <1>3, <1>4, Zenon
  <1>8. g = h
    <2> SUFFICES ASSUME g # h
                 PROVE  FALSE
      OBVIOUS
    <2>1. a + z <= b \/ b + z <= a
      BY <1>1, <1>2, <1>3, <1>4, <1>5, DiskAssumption, Zenon
    <2> QED
      BY <1>6, <1>7, <2>1
  <1>9. r * InodeBytes = s * InodeBytes
    <2>1. a = b
      BY <1>1, <1>2, <1>3, <1>4, <1>8
    <2> QED
      BY <1>6, <1>7, <2>1
  <1>10. r = s
    <2>1. ~(r >= s + 1)
      <3> SUFFICES ASSUME r >= s + 1
                   PROVE  FALSE
        OBVIOUS
      <3>1. r * InodeBytes >= (s + 1) * InodeBytes
        BY <1>0, Multiples
      <3>2. (s + 1) * InodeBytes = s * InodeBytes + InodeBytes
        BY <1>0
      <3> QED
        BY <1>0, <1>6, <1>9, <3>1, <3>2
    <2>2. ~(s >= r + 1)
      <3> SUFFICES ASSUME s >= r + 1
                   PROVE  FALSE
        OBVIOUS
      <3>1. s * InodeBytes >= (r + 1) * InodeBytes
        BY <1>0, Multiples
      <3>2. (r + 1) * InodeBytes = r * InodeBytes + InodeBytes
        BY <1>0
      <3> QED
        BY <1>0, <1>6, <1>9, <3>1, <3>2
    <2> QED
      BY <2>1, <2>2
  <1>11. n - 1 = m - 1
    BY <1>1, <1>2, <1>8, <1>10, Zenon
  <1> QED
    BY <1>0, <1>11

LEMMA InodeComputed ==
    ASSUME NEW n \in DOMAIN DiskInodes
    PROVE  LET at == InodeToSector(n)
           IN  ((at.sector - FsStart) * BlockBytes) \div SectorsPerBlock + at.offset = InodeByte(n)
  <1>0. /\ BlockBytes \in Nat /\ BlockBytes >= 1 /\ InodeBytes \in Nat /\ FsStart \in Nat
        /\ SectorsPerBlock \in Nat /\ SectorsPerBlock >= 1
    BY Ext4Assumption
  <1>a. PICK g \in 1..Len(InodeTables), r \in Nat, t \in Nat : InodeIsAt(n, g, r, t)
    BY InodePlace, Zenon
  <1>1. /\ t = InodeTables[g] /\ r < InodesPerGroup
        /\ (n - 1) \div InodesPerGroup = g - 1 /\ (n - 1) % InodesPerGroup = r
        /\ InodeByte(n) = t * BlockBytes + r * InodeBytes
    BY <1>a, Zenon DEF InodeIsAt
  <1>2. PICK a \in Nat : a = r * InodeBytes
    BY <1>0
  <1>3. PICK q \in Nat : q = a \div BlockBytes
    BY <1>0, Division
  <1>4. PICK o \in Nat : o = a % BlockBytes
    BY <1>0, Division
  <1>5. a = q * BlockBytes + o
    BY <1>0, <1>3, <1>4, Division
  <1>6. (g - 1) + 1 = g
    OBVIOUS
  <1>7. InodeToSector(n) = [sector |-> FsStart + (t + q) * SectorsPerBlock, offset |-> o]
    BY <1>1, <1>2, <1>3, <1>4, <1>6, Zenon DEF InodeToSector
  <1>8. PICK v \in Nat : v = t + q
    OBVIOUS
  <1>9. PICK w \in Nat : w = v * SectorsPerBlock
    BY <1>0
  <1>10. InodeToSector(n).sector - FsStart = w /\ InodeToSector(n).offset = o
    BY <1>0, <1>7, <1>8, <1>9
  <1>11. w * BlockBytes = (v * BlockBytes) * SectorsPerBlock + 0
    BY <1>0, <1>9
  <1>12. PICK x \in Nat : x = w * BlockBytes
    BY <1>0
  <1>13. PICK y \in Nat : y = v * BlockBytes
    BY <1>0
  <1>14. x = y * SectorsPerBlock + 0
    BY <1>11, <1>12, <1>13, Zenon
  <1>15. x \div SectorsPerBlock = y
    BY <1>0, <1>14, DivisionUnique
  <1>16. y = t * BlockBytes + q * BlockBytes /\ t * BlockBytes \in Nat /\ q * BlockBytes \in Nat
    BY <1>0, <1>8, <1>13
  <1>17. y + o = t * BlockBytes + a
    BY <1>5, <1>16
  <1>18. InodeByte(n) = y + o
    BY <1>1, <1>2, <1>17, Zenon
  <1> QED
    BY <1>10, <1>12, <1>15, <1>18, Zenon

LEMMA ReadInodeIs == \A n \in DOMAIN DiskInodes : ReadInode(n) = n
  <1> SUFFICES ASSUME NEW n \in DOMAIN DiskInodes
               PROVE  ReadInode(n) = n
    OBVIOUS
  <1> DEFINE at == InodeToSector(n)
             byte == ((at.sector - FsStart) * BlockBytes) \div SectorsPerBlock + at.offset
             there == {m \in DOMAIN DiskInodes : InodeByte(m) = byte}
  <1>1. byte = InodeByte(n)
    BY InodeComputed, Zenon
  <1>2. ReadInode(n) = IF there = {} THEN 0 ELSE CHOOSE m \in there : TRUE
    BY DEF ReadInode
  <1> HIDE DEF byte
  <1>3. n \in there /\ \A m \in there : m = n
    BY <1>1, InodesApart
  <1> QED
    BY <1>2, <1>3

(* lookup finds a name where the directory lists it. *)
LEMMA DirectoryBlockSearch ==
    ASSUME NEW entries, NEW name
    PROVE  /\ InodeFromDirectory(entries, name) # 0 =>
                  \E e \in Used(entries) : e.name = name /\ e.inode = InodeFromDirectory(entries, name)
           /\ (\E e \in Used(entries) : e.name = name) => InodeFromDirectory(entries, name) # 0
  <1> DEFINE hits == {j \in 1..Len(entries) : /\ entries[j].inode # 0 /\ entries[j].name = name
                                              /\ \A k \in 1..j : entries[k].rec_len # 0}
             used == {i \in 1..Len(entries) : entries[i].inode # 0 /\ \A k \in 1..i : entries[k].rec_len # 0}
             found == InodeFromDirectory(entries, name)
  <1>1. found = IF hits = {} THEN 0 ELSE entries[Min(hits)].inode
    BY DEF InodeFromDirectory
  <1>2. ASSUME hits # {} PROVE Min(hits) \in hits
    <2>1. hits \in SUBSET Nat
      OBVIOUS
    <2> QED
      BY <1>2, <2>1, MinIsMember
  <1>3. Used(entries) = {entries[j] : j \in used}
    BY DEF Used
  <1>4. \A j \in used : j \in hits <=> entries[j].name = name
    OBVIOUS
  <1>5. \A j \in hits : j \in used /\ entries[j].inode # 0
    OBVIOUS
  <1> HIDE DEF hits, used, found
  <1>6. found # 0 => \E e \in Used(entries) : e.name = name /\ e.inode = found
    <2> SUFFICES ASSUME found # 0
                 PROVE  \E e \in Used(entries) : e.name = name /\ e.inode = found
      OBVIOUS
    <2>1. hits # {} /\ found = entries[Min(hits)].inode
      BY <1>1
    <2>2. Min(hits) \in used /\ entries[Min(hits)].name = name
      BY <1>2, <1>4, <1>5, <2>1
    <2> QED
      BY <1>3, <2>1, <2>2, Zenon
  <1>7. ASSUME NEW e \in Used(entries), e.name = name PROVE found # 0
    <2>1. PICK j \in used : e = entries[j]
      BY <1>3, Zenon
    <2>2. hits # {}
      BY <1>4, <1>7, <2>1
    <2> QED
      BY <1>1, <1>2, <1>5, <2>2
  <1> QED
    BY <1>6, <1>7 DEF found

LEMMA ListedIs ==
    ASSUME NEW dir, NEW e
    PROVE  e \in Listed(dir) <=> \E i \in 1..InodeBlocks : /\ DiskInodes[dir][i] \in DOMAIN DirBlocks
                                                        /\ e \in Used(DirBlocks[DiskInodes[dir][i]])
  BY Zenon DEF Listed

LEMMA LookupIs ==
    ASSUME NEW dir \in DOMAIN DiskInodes, NEW name
    PROVE  LookupName(dir, name) = NamedIn(dir, name)
  <1> DEFINE found(i) == InodeFromDirectory(DirBlocks[DiskInodes[dir][i]], name)
             hits == {i \in 1..InodeBlocks : DiskInodes[dir][i] \in DOMAIN DirBlocks /\ found(i) # 0}
             named == {e.inode : e \in {l \in Listed(dir) : l.name = name}}
  <1>1. LookupName(dir, name) = IF hits = {} THEN 0 ELSE ReadInode(found(Min(hits)))
    BY DEF LookupName
  <1>2. NamedIn(dir, name) = IF named = {} THEN 0 ELSE CHOOSE n \in named : TRUE
    <2>1. dir # 0
      BY Ext4Sizes
    <2> QED
      BY <2>1 DEF NamedIn
  <1>3. \A i \in hits : found(i) \in named
    <2> SUFFICES ASSUME NEW i \in hits
                 PROVE  found(i) \in named
      OBVIOUS
    <2>1. PICK b \in DOMAIN DirBlocks : b = DiskInodes[dir][i] /\ found(i) = InodeFromDirectory(DirBlocks[b], name)
      OBVIOUS
    <2>2. PICK e \in Used(DirBlocks[b]) : e.name = name /\ e.inode = found(i)
      <3>1. InodeFromDirectory(DirBlocks[b], name) # 0
        BY <2>1
      <3> QED
        BY <2>1, <3>1, DirectoryBlockSearch, Zenon
    <2>3. e \in Listed(dir)
      BY <2>1, <2>2, ListedIs, Zenon
    <2> QED
      BY <2>2, <2>3, Zenon
  <1>4. named # {} => hits # {}
    <2> SUFFICES ASSUME NEW e \in Listed(dir), e.name = name
                 PROVE  hits # {}
      BY Zenon
    <2>1. PICK i \in 1..InodeBlocks : /\ DiskInodes[dir][i] \in DOMAIN DirBlocks
                                      /\ e \in Used(DirBlocks[DiskInodes[dir][i]])
      BY ListedIs, Zenon
    <2>2. found(i) # 0
      BY <2>1, DirectoryBlockSearch, Zenon
    <2> QED
      BY <2>1, <2>2
  <1>5. \A m, n \in named : m = n /\ m \in DOMAIN DiskInodes
    <2> SUFFICES ASSUME NEW e \in Listed(dir), NEW f \in Listed(dir), e.name = name, f.name = name
                 PROVE  e.inode = f.inode /\ e.inode \in DOMAIN DiskInodes
      BY Zenon
    <2>1. \A x, y \in Listed(dir) : x.inode \in DOMAIN DiskInodes /\ (x.name = y.name => x.inode = y.inode)
      BY DiskAssumption
    <2> QED
      BY <2>1
  <1> HIDE DEF found, named
  <1>6. CASE hits = {}
    BY <1>1, <1>2, <1>4, <1>6
  <1>7. CASE hits # {}
    <2>1. Min(hits) \in hits
      <3>1. hits \in SUBSET Nat
        OBVIOUS
      <3> QED
        BY <1>7, <3>1, MinIsMember
    <2>2. PICK n \in named : n = found(Min(hits))
      BY <1>3, <2>1, Zenon
    <2>3. ReadInode(n) = n
      BY <1>5, <2>2, ReadInodeIs, Zenon
    <2>4. (CHOOSE m \in named : TRUE) = n
      BY <1>5, <2>2
    <2> QED
      BY <1>1, <1>2, <1>7, <2>2, <2>3, <2>4, Zenon
  <1> QED
    BY <1>6, <1>7

(* Route is what its equations say: a recursive function on 0..n exists,   *)
(* from the one on 0..n - 1.                                               *)
RouteUpTo(path, g, n) == g = [i \in 0..n |-> IF i = 0 THEN RootInode ELSE StepOver(path, g[i - 1], i)]

LEMMA RouteExtends ==
    ASSUME NEW path, NEW n \in Nat, NEW g, RouteUpTo(path, g, n)
    PROVE  \E h : RouteUpTo(path, h, n + 1)
  <1> DEFINE h == [i \in 0..n + 1 |-> IF i = n + 1 THEN StepOver(path, g[n], n + 1) ELSE g[i]]
  <1>1. \A i \in 0..n : g[i] = IF i = 0 THEN RootInode ELSE StepOver(path, g[i - 1], i)
    BY Zenon DEF RouteUpTo
  <1>2. \A i \in 0..n + 1 : h[i] = IF i = 0 THEN RootInode ELSE StepOver(path, h[i - 1], i)
    <2> SUFFICES ASSUME NEW i \in 0..n + 1
                 PROVE  h[i] = IF i = 0 THEN RootInode ELSE StepOver(path, h[i - 1], i)
      OBVIOUS
    <2>1. CASE i = n + 1
      <3>1. i # 0 /\ i - 1 = n /\ n \in 0..n + 1 /\ n # n + 1
        BY <2>1
      <3>2. h[i - 1] = g[n]
        BY <3>1
      <3> QED
        BY <2>1, <3>1, <3>2
    <2>2. CASE i # n + 1
      <3>1. i \in 0..n /\ (i # 0 => i - 1 \in 0..n + 1 /\ i - 1 # n + 1)
        BY <2>2
      <3>2. h[i] = g[i] /\ (i # 0 => h[i - 1] = g[i - 1])
        BY <2>2, <3>1
      <3> QED
        BY <1>1, <3>1, <3>2
    <2> QED
      BY <2>1, <2>2
  <1>3. h = [i \in 0..n + 1 |-> h[i]]
    OBVIOUS
  <1> HIDE DEF h
  <1>4. RouteUpTo(path, h, n + 1)
    BY <1>2, <1>3 DEF RouteUpTo
  <1> QED
    BY <1>4

LEMMA RouteExists ==
    ASSUME NEW path, NEW n \in Nat
    PROVE  \E g : RouteUpTo(path, g, n)
  <1> DEFINE Without == {m \in Nat : ~\E g : RouteUpTo(path, g, m)}
  <1> SUFFICES ASSUME Without # {}
               PROVE  FALSE
    OBVIOUS
  <1>1. PICK m \in Without : \A k \in Without : m <= k
    <2>1. Without \in SUBSET Nat
      OBVIOUS
    <2> QED
      BY <2>1, HasLeast
  <1>2. CASE m = 0
    <2> DEFINE g == [i \in 0..0 |-> RootInode]
    <2>1. RouteUpTo(path, g, 0)
      BY DEF RouteUpTo
    <2> QED
      BY <1>1, <1>2, <2>1
  <1>3. CASE m # 0
    <2>1. m - 1 \in Nat /\ m - 1 \notin Without /\ (m - 1) + 1 = m
      BY <1>1, <1>3
    <2>2. PICK g : RouteUpTo(path, g, m - 1)
      BY <2>1
    <2>3. \E h : RouteUpTo(path, h, m)
      BY <2>1, <2>2, RouteExtends
    <2> QED
      BY <1>1, <2>3
  <1> QED
    BY <1>2, <1>3

LEMMA RouteIs ==
    ASSUME NEW path, Len(path) \in Nat
    PROVE  /\ Route(path)[0] = RootInode
           /\ \A i \in 1..Len(path) : Route(path)[i] = StepOver(path, Route(path)[i - 1], i)
  <1>1. Route(path) = CHOOSE g : RouteUpTo(path, g, Len(path))
    BY DEF Route, RouteUpTo
  <1>2. RouteUpTo(path, Route(path), Len(path))
    BY <1>1, RouteExists, Zenon
  <1>3. \A i \in 0..Len(path) : Route(path)[i] = IF i = 0 THEN RootInode ELSE StepOver(path, Route(path)[i - 1], i)
    BY <1>2, Zenon DEF RouteUpTo
  <1> QED
    BY <1>3

LEMMA RouteFlat ==
    ASSUME NEW path, Len(path) \in Nat, NEW a \in 0..Len(path), NEW b \in 0..Len(path), a <= b,
           \A i \in a + 1..b : ~NameEnds(path, i)
    PROVE  Route(path)[b] = Route(path)[a]
  <1> DEFINE Bad == {c \in Nat : c \in a..b /\ Route(path)[c] # Route(path)[a]}
  <1> SUFFICES ASSUME Bad # {}
               PROVE  FALSE
    OBVIOUS
  <1>1. PICK c \in Bad : \A k \in Bad : c <= k
    <2>1. Bad \in SUBSET Nat
      OBVIOUS
    <2> QED
      BY <2>1, HasLeast
  <1>2. c # a /\ c \in 1..Len(path) /\ c \in a + 1..b /\ c - 1 \in a..b /\ c - 1 \in Nat
    BY <1>1
  <1>3. Route(path)[c - 1] = Route(path)[a]
    BY <1>1, <1>2
  <1>4. Route(path)[c] = StepOver(path, Route(path)[c - 1], c)
    BY <1>2, RouteIs
  <1>5. Route(path)[c] = Route(path)[c - 1]
    BY <1>2, <1>4 DEF StepOver
  <1> QED
    BY <1>1, <1>3, <1>5

LEMMA RouteDead ==
    ASSUME NEW path, Len(path) \in Nat, NEW a \in 0..Len(path), NEW b \in 0..Len(path), a <= b,
           Route(path)[a] = 0
    PROVE  Route(path)[b] = 0
  <1> DEFINE Bad == {c \in Nat : c \in a..b /\ Route(path)[c] # 0}
  <1> SUFFICES ASSUME Bad # {}
               PROVE  FALSE
    OBVIOUS
  <1>1. PICK c \in Bad : \A k \in Bad : c <= k
    <2>1. Bad \in SUBSET Nat
      OBVIOUS
    <2> QED
      BY <2>1, HasLeast
  <1>2. c # a /\ c \in 1..Len(path) /\ c - 1 \in a..b /\ c - 1 \in Nat
    BY <1>1
  <1>3. Route(path)[c - 1] = 0
    BY <1>1, <1>2
  <1>4. Route(path)[c] = StepOver(path, Route(path)[c - 1], c)
    BY <1>2, RouteIs
  <1>5. Route(path)[c] = 0
    BY <1>3, <1>4 DEF StepOver, NamedIn
  <1> QED
    BY <1>1, <1>5

(* strtok: the token from position from on is s[start], ..., s[end - 1]. *)
TokenIs(s, from, start, end) ==
    /\ start \in from..Len(s) /\ end \in start + 1..Len(s) + 1
    /\ \A i \in from..start - 1 : s[i] = "/"
    /\ \A i \in start..end - 1 : s[i] # "/"
    /\ Strtok(s, from).token = SubSeq(s, start, end - 1)
    /\ \/ end = Len(s) + 1 /\ Strtok(s, from).save = end
       \/ end <= Len(s) /\ s[end] = "/" /\ Strtok(s, from).save = end + 1

LEMMA StrtokIs ==
    ASSUME NEW s \in Seq(PathChars), NEW from \in 1..Len(s) + 1
    PROVE  \/ Strtok(s, from).token = <<>> /\ \A i \in from..Len(s) : s[i] = "/"
           \/ Strtok(s, from).token # <<>> /\ \E start, end \in Nat : TokenIs(s, from, start, end)
  <1> DEFINE Starts == {j \in from..Len(s) : s[j] # "/"} \cup {Len(s) + 1}
             start  == Min(Starts)
             stops  == {j \in start..Len(s) : s[j] = "/"}
             end    == IF stops = {} THEN Len(s) + 1 ELSE Min(stops)
  <1>0. Len(s) \in Nat
    OBVIOUS
  <1>1. Strtok(s, from) = [token |-> SubSeq(s, start, end - 1), save |-> IF stops = {} THEN end ELSE end + 1]
    BY DEF Strtok
  <1>t. Strtok(s, from).token = SubSeq(s, start, end - 1)
    BY DEF Strtok
  <1>2. start \in Starts /\ start \in Nat /\ \A y \in Starts : start <= y
    <2>1. Starts \in SUBSET Nat /\ Starts # {}
      OBVIOUS
    <2> QED
      BY <2>1, MinIsLeast, Zenon
  <1> HIDE DEF start
  <1>3. \A i \in from..Len(s) : i < start => s[i] = "/"
    BY <1>0, <1>2
  <1>4. start = Len(s) + 1 \/ (start \in from..Len(s) /\ s[start] # "/")
    BY <1>2
  <1>5. stops # {} => Min(stops) \in stops /\ Min(stops) \in Nat /\ \A y \in stops : Min(stops) <= y
    <2>1. stops \in SUBSET Nat
      BY <1>2
    <2> QED
      BY <2>1, MinIsLeast, Zenon
  <1>6. CASE start = Len(s) + 1
    <2>1. stops = {}
      BY <1>0, <1>6
    <2>2. Strtok(s, from).token = SubSeq(s, Len(s) + 1, (Len(s) + 1) - 1)
      BY <1>1, <1>6, <2>1
    <2>3. SubSeq(s, Len(s) + 1, (Len(s) + 1) - 1) = <<>>
      OBVIOUS
    <2>4. \A i \in from..Len(s) : s[i] = "/"
      BY <1>0, <1>3, <1>6
    <2> QED
      BY <2>2, <2>3, <2>4
  <1>7. CASE start \in from..Len(s) /\ s[start] # "/"
    <2>1. end \in start + 1..Len(s) + 1 /\ end \in Nat
      <3>1. CASE stops = {}
        BY <1>0, <1>7, <3>1
      <3>2. CASE stops # {}
        <4>1. Min(stops) \in start..Len(s) /\ s[Min(stops)] = "/"
          BY <1>5, <3>2
        <4>2. Min(stops) # start
          BY <1>7, <4>1
        <4> QED
          BY <1>0, <1>7, <3>2, <4>1, <4>2
      <3> QED
        BY <3>1, <3>2
    <2>2. \A i \in start..end - 1 : s[i] # "/"
      <3> SUFFICES ASSUME NEW i \in start..end - 1, s[i] = "/"
                   PROVE  FALSE
        OBVIOUS
      <3>1. i \in start..Len(s) /\ i < end
        BY <1>0, <1>7, <2>1
      <3>2. i \in stops
        BY <3>1
      <3> QED
        BY <1>5, <2>1, <3>1, <3>2
    <2>3. \/ end = Len(s) + 1 /\ Strtok(s, from).save = end
          \/ end <= Len(s) /\ s[end] = "/" /\ Strtok(s, from).save = end + 1
      <3>1. CASE stops = {}
        BY <1>1, <3>1
      <3>2. CASE stops # {}
        <4>1. end \in stops /\ Strtok(s, from).save = end + 1
          BY <1>1, <1>5, <3>2
        <4> QED
          BY <1>0, <4>1
      <3> QED
        BY <3>1, <3>2
    <2> HIDE DEF end
    <2>4. Strtok(s, from).token = SubSeq(s, start, end - 1)
      BY <1>t
    <2>5. Strtok(s, from).token # <<>>
      <3>1. start \in 1..Len(s) /\ end - 1 \in 1..Len(s) /\ start <= end - 1
        BY <1>0, <1>7, <2>1
      <3>a. SubSeq(s, start, end - 1) \in Seq(PathChars) /\ Len(SubSeq(s, start, end - 1)) = (end - 1) - start + 1
        <4>1. PICK n \in start..Len(s) : n = end - 1
          BY <3>1
        <4>2. SubSeq(s, start, n) \in Seq(PathChars) /\ Len(SubSeq(s, start, n)) = n - start + 1
          BY <3>1, <4>1
        <4> QED
          BY <4>1, <4>2, Zenon
      <3>2. PICK x \in Seq(PathChars) : x = SubSeq(s, start, end - 1)
        BY <3>a, Zenon
      <3>3. Len(x) = (end - 1) - start + 1
        BY <3>a, <3>2, Zenon
      <3>4. Len(x) > 0
        BY <2>1, <3>1, <3>3
      <3>5. x # <<>>
        BY <3>4
      <3> QED
        BY <2>4, <3>2, <3>5, Zenon
    <2>6. \A i \in from..start - 1 : s[i] = "/"
      BY <1>0, <1>3, <1>7
    <2>7. TokenIs(s, from, start, end)
      BY <1>7, <2>1, <2>2, <2>3, <2>4, <2>6, Zenon DEF TokenIs
    <2> QED
      BY <1>2, <2>1, <2>5, <2>7, Zenon
  <1> QED
    BY <1>4, <1>6, <1>7

(* A turn of the loop of open goes over one name of the path. *)
LEMMA RouteOverToken ==
    ASSUME NEW s \in Seq(PathChars), NEW from \in 1..Len(s) + 1, NEW start \in Nat, NEW end \in Nat,
           TokenIs(s, from, start, end), from = 1 \/ from = Len(s) + 1 \/ s[from - 1] = "/"
    PROVE  LET save == Strtok(s, from).save
           IN  /\ save \in 1..Len(s) + 1 /\ (save = Len(s) + 1 \/ s[save - 1] = "/")
               /\ Route(s)[save - 1] = NamedIn(Route(s)[from - 1], Strtok(s, from).token)
  <1>0. Len(s) \in Nat
    OBVIOUS
  <1>1. /\ start \in from..Len(s) /\ end \in start + 1..Len(s) + 1
        /\ \A i \in from..start - 1 : s[i] = "/"
        /\ \A i \in start..end - 1 : s[i] # "/"
        /\ Strtok(s, from).token = SubSeq(s, start, end - 1)
        /\ \/ end = Len(s) + 1 /\ Strtok(s, from).save = end
           \/ end <= Len(s) /\ s[end] = "/" /\ Strtok(s, from).save = end + 1
    BY DEF TokenIs
  <1>2. \A i \in from..end - 2 : ~NameEnds(s, i)
    <2> SUFFICES ASSUME NEW i \in from..end - 2
                 PROVE  ~NameEnds(s, i)
      OBVIOUS
    <2>1. CASE i < start
      <3>1. s[i] = "/"
        BY <1>1, <2>1
      <3> QED
        BY <3>1 DEF NameEnds
    <2>2. CASE i >= start
      <3>1. i + 1 \in start..end - 1 /\ i # Len(s)
        BY <1>0, <1>1, <2>2
      <3>2. s[i + 1] # "/"
        BY <1>1, <3>1
      <3> QED
        BY <3>1, <3>2 DEF NameEnds
    <2> QED
      BY <1>1, <2>1, <2>2
  <1>3. Route(s)[end - 2] = Route(s)[from - 1]
    <2>1. from - 1 \in 0..Len(s) /\ end - 2 \in 0..Len(s) /\ from - 1 <= end - 2
      BY <1>0, <1>1
    <2>2. \A i \in (from - 1) + 1..end - 2 : ~NameEnds(s, i)
      BY <1>2
    <2> QED
      BY <1>0, <2>1, <2>2, RouteFlat
  <1>4. NameEnds(s, end - 1)
    <2>1. s[end - 1] # "/"
      BY <1>1
    <2>2. end - 1 = Len(s) \/ s[(end - 1) + 1] = "/"
      BY <1>0, <1>1
    <2> QED
      BY <2>1, <2>2 DEF NameEnds
  <1>5. NameUpTo(s, end - 1) = SubSeq(s, start, end - 1)
    <2> DEFINE J == {j \in 1..end - 1 : \A k \in j..end - 1 : s[k] # "/"}
    <2>1. start \in J
      BY <1>0, <1>1
    <2>2. \A j \in J : start <= j
      <3> SUFFICES ASSUME NEW j \in J, j < start
                   PROVE  FALSE
        BY <1>1
      <3>1. start - 1 \in j..end - 1 /\ start > 1
        BY <1>1
      <3>2. s[start - 1] # "/"
        BY <3>1
      <3>3. start # from
        BY <1>0, <1>1, <3>1, <3>2
      <3>4. start - 1 \in from..start - 1
        BY <1>1, <3>3
      <3> QED
        BY <1>1, <3>2, <3>4
    <2>3. Min(J) = start
      <3>1. J \in SUBSET Nat /\ J # {}
        <4>1. J \in SUBSET Nat
          OBVIOUS
        <4> QED
          BY <2>1, <4>1, Zenon
      <3>2. Min(J) \in J /\ Min(J) <= start
        BY <2>1, <3>1, MinIsLeast
      <3>3. start <= Min(J) /\ Min(J) \in Nat
        BY <2>2, <3>1, <3>2
      <3> QED
        BY <3>2, <3>3
    <2> QED
      BY <2>3 DEF NameUpTo
  <1>6. Route(s)[end - 1] = NamedIn(Route(s)[from - 1], Strtok(s, from).token)
    <2>1. end - 1 \in 1..Len(s) /\ (end - 1) - 1 = end - 2
      BY <1>0, <1>1
    <2>2. Route(s)[end - 1] = StepOver(s, Route(s)[(end - 1) - 1], end - 1)
      BY <1>0, <2>1, RouteIs
    <2>3. Route(s)[end - 1] = NamedIn(Route(s)[end - 2], NameUpTo(s, end - 1))
      BY <1>4, <2>1, <2>2 DEF StepOver
    <2> QED
      BY <1>1, <1>3, <1>5, <2>3
  <1>7. CASE end = Len(s) + 1 /\ Strtok(s, from).save = end
    BY <1>0, <1>6, <1>7
  <1>8. CASE end <= Len(s) /\ s[end] = "/" /\ Strtok(s, from).save = end + 1
    <2>1. end \in 0..Len(s) /\ end - 1 \in 0..Len(s) /\ end - 1 <= end /\ (end + 1) - 1 = end /\ end + 1 \in 1..Len(s) + 1
      BY <1>0, <1>1, <1>8
    <2>2. \A i \in (end - 1) + 1..end : ~NameEnds(s, i)
      <3> SUFFICES ASSUME NEW i \in (end - 1) + 1..end
                   PROVE  ~NameEnds(s, i)
        OBVIOUS
      <3>1. i = end
        OBVIOUS
      <3> QED
        BY <1>8, <3>1 DEF NameEnds
    <2>3. Route(s)[end] = Route(s)[end - 1]
      BY <1>0, <2>1, <2>2, RouteFlat
    <2> QED
      BY <1>6, <1>8, <2>1, <2>3
  <1> QED
    BY <1>1, <1>7, <1>8

(* The walk is at the inode that the names so far lead to, and stands      *)
(* where a name can begin.                                                 *)
PathInv ==
    LET path == handle.path IN
    /\ call.op = "open" =>
          /\ path # <<>> /\ Head(path) = "/" /\ handle.ino # 0
          /\ call.at \in 1..Len(path) + 1
          /\ call.at = 1 \/ call.at = Len(path) + 1 \/ path[call.at - 1] = "/"
          /\ handle.ino = Route(path)[call.at - 1]
    /\ path # <<>> /\ call.op # "open" =>
          handle.ino = IF Head(path) = "/" THEN Route(path)[Len(path)] ELSE 0

LEMMA PathInvOpen ==
    ASSUME ReadInv, PathInv, NEW path \in PathsOf(MaxPath), Open(path)
    PROVE  PathInv'
  <1> DEFINE absolute == path # <<>> /\ Head(path) = "/"
  <1>1. path \in Seq(PathChars)
    <2>1. PICK k \in 0..MaxPath : path \in [1..k -> PathChars]
      BY DEF PathsOf
    <2>2. k \in Nat
      BY Ext4Sizes
    <2> QED
      BY <2>1, <2>2
  <1>2. Route(path)[0] = RootInode /\ RootInode # 0
    <2>1. Len(path) \in Nat
      BY <1>1
    <2> QED
      BY <2>1, RouteIs, Ext4Sizes
  <1>3. handle'.path = path /\ handle'.ino = (IF absolute THEN RootInode ELSE 0)
    BY DEF Open
  <1>4. CASE absolute
    <2>1. call'.op = "open" /\ call'.at = 1
      BY <1>4 DEF Open, NoCall
    <2>2. 1 \in 1..Len(path) + 1 /\ 1 - 1 = 0
      BY <1>1
    <2> QED
      BY <1>2, <1>3, <1>4, <2>1, <2>2 DEF PathInv
  <1>5. CASE ~absolute
    <2>1. call'.op = "none"
      BY <1>5 DEF Open, NoCall
    <2> QED
      BY <1>3, <1>5, <2>1 DEF PathInv
  <1> QED
    BY <1>4, <1>5

LEMMA PathInvWalk ==
    ASSUME ReadInv, PathInv, Walk
    PROVE  PathInv'
  <1> DEFINE path == handle.path
             t    == Strtok(path, call.at)
             node == LookupName(handle.ino, t.token)
  <1>1. call.op = "open" /\ path \in Seq(PathChars) /\ handle.ino \in DOMAIN DiskInodes \cup {0}
        /\ handle \in [ino : DOMAIN DiskInodes \cup {0}, path : Seq(PathChars), pos : Nat]
        /\ call \in [op : {"none", "open", "direct", "single"}, at : Nat, block : Nat]
    BY DEF ReadInv, Ext4Types, Walk
  <1>2. /\ path # <<>> /\ Head(path) = "/" /\ handle.ino # 0
        /\ call.at \in 1..Len(path) + 1
        /\ call.at = 1 \/ call.at = Len(path) + 1 \/ path[call.at - 1] = "/"
        /\ handle.ino = Route(path)[call.at - 1]
    BY <1>1 DEF PathInv
  <1>3. Len(path) \in Nat
    BY <1>1
  <1>4. CASE t.token = <<>>
    <2>1. call' = NoCall /\ handle' = handle
      BY <1>4 DEF Walk
    <2>2. \A i \in call.at..Len(path) : path[i] = "/"
      BY <1>1, <1>2, <1>4, StrtokIs
    <2>3. \A i \in (call.at - 1) + 1..Len(path) : ~NameEnds(path, i)
      <3> SUFFICES ASSUME NEW i \in (call.at - 1) + 1..Len(path)
                   PROVE  ~NameEnds(path, i)
        OBVIOUS
      <3>1. i \in call.at..Len(path)
        BY <1>2, <1>3
      <3>2. path[i] = "/"
        BY <2>2, <3>1, Zenon
      <3> QED
        BY <3>2, Zenon DEF NameEnds
    <2>4. call.at - 1 \in 0..Len(path) /\ call.at - 1 <= Len(path) /\ Len(path) \in 0..Len(path)
      BY <1>2, <1>3
    <2>5. Route(path)[Len(path)] = Route(path)[call.at - 1]
      BY <1>3, <2>3, <2>4, RouteFlat
    <2>6. handle.ino = Route(path)[Len(path)]
      BY <1>2, <2>5
    <2>7. call'.op = "none"
      BY <2>1 DEF NoCall
    <2> QED
      BY <1>2, <2>1, <2>6, <2>7 DEF PathInv
  <1>5. CASE t.token # <<>>
    <2>1. handle' = [handle EXCEPT !.ino = node] /\ call' = IF node = 0 THEN NoCall ELSE [call EXCEPT !.at = t.save]
      BY <1>5 DEF Walk
    <2>2. PICK start \in Nat, end \in Nat : TokenIs(path, call.at, start, end)
      BY <1>1, <1>2, <1>5, StrtokIs
    <2>3. /\ t.save \in 1..Len(path) + 1 /\ (t.save = Len(path) + 1 \/ path[t.save - 1] = "/")
          /\ Route(path)[t.save - 1] = NamedIn(Route(path)[call.at - 1], t.token)
      BY <1>1, <1>2, <2>2, RouteOverToken
    <2>4. node = Route(path)[t.save - 1]
      BY <1>1, <1>2, <2>3, LookupIs
    <2> HIDE DEF node, t
    <2>5. handle'.ino = node /\ handle'.path = path
      BY <1>1, <2>1
    <2>6. CASE node = 0
      <3>1. t.save - 1 \in 0..Len(path) /\ t.save - 1 <= Len(path) /\ Len(path) \in 0..Len(path)
        BY <1>3, <2>3
      <3>2. Route(path)[Len(path)] = 0
        BY <1>3, <2>4, <2>6, <3>1, RouteDead
      <3>3. call'.op = "none"
        BY <2>1, <2>6 DEF NoCall
      <3> QED
        BY <1>2, <2>5, <2>6, <3>2, <3>3 DEF PathInv
    <2>7. CASE node # 0
      <3>1. call'.op = "open" /\ call'.at = t.save
        BY <1>1, <2>1, <2>7
      <3> QED
        BY <1>2, <2>3, <2>4, <2>5, <2>7, <3>1 DEF PathInv
    <2> QED
      BY <2>6, <2>7
  <1> QED
    BY <1>4, <1>5

LEMMA PathInvKept ==
    ASSUME PathInv, call.op # "open", call'.op # "open", handle'.ino = handle.ino, handle'.path = handle.path
    PROVE  PathInv'
  BY DEF PathInv

LEMMA PathInvFetch ==
    ASSUME ReadInv, NEW b, Fetch(b)
    PROVE  handle'.ino = handle.ino /\ handle'.path = handle.path
  <1>1. handle \in [ino : DOMAIN DiskInodes \cup {0}, path : Seq(PathChars), pos : Nat]
    BY DEF ReadInv, Ext4Types
  <1>2. PICK p : handle' = [handle EXCEPT !.pos = p]
    BY DEF Fetch
  <1> QED
    BY <1>1, <1>2

LEMMA PathInvNext == ReadInv /\ PathInv /\ [Ext4Next]_ext4Vars => PathInv'
  <1> SUFFICES ASSUME ReadInv, PathInv, [Ext4Next]_ext4Vars
               PROVE  PathInv'
    OBVIOUS
  <1>0. /\ handle \in [ino : DOMAIN DiskInodes \cup {0}, path : Seq(PathChars), pos : Nat]
        /\ call \in [op : {"none", "open", "direct", "single"}, at : Nat, block : Nat]
    BY DEF ReadInv, Ext4Types
  <1>1. ASSUME NEW path \in PathsOf(MaxPath), Open(path) PROVE PathInv'
    BY <1>1, PathInvOpen
  <1>2. CASE Walk
    BY <1>2, PathInvWalk
  <1>3. CASE ReadDirect
    <2>1. call.op # "open" /\ call'.op # "open"
      BY <1>0, <1>3 DEF ReadDirect, NoCall
    <2>2. handle'.ino = handle.ino /\ handle'.path = handle.path
      BY <1>3, PathInvFetch DEF ReadDirect
    <2> QED
      BY <2>1, <2>2, PathInvKept
  <1>4. ASSUME NEW b \in BehindTable, ReadSingleIndirect(b) PROVE PathInv'
    <2>1. call.op # "open" /\ call'.op # "open"
      <3>1. call.op = "single"
        BY <1>4 DEF ReadSingleIndirect
      <3>2. PICK at, next : call' = NoCall \/ call' = [call EXCEPT !.at = at, !.block = next]
        BY <1>4 DEF ReadSingleIndirect
      <3>3. CASE call' = NoCall
        BY <3>1, <3>3 DEF NoCall
      <3>4. CASE call' = [call EXCEPT !.at = at, !.block = next]
        <4>1. call'.op = call.op
          BY <1>0, <3>4
        <4> QED
          BY <3>1, <4>1
      <3> QED
        BY <3>2, <3>3, <3>4
    <2>2. handle'.ino = handle.ino /\ handle'.path = handle.path
      BY <1>4, PathInvFetch DEF ReadSingleIndirect
    <2> QED
      BY <2>1, <2>2, PathInvKept
  <1>5. ASSUME NEW n \in ReadCounts, Read(n) PROVE PathInv'
    <2>1. call.op # "open" /\ handle' = handle
      BY <1>5 DEF Read, NoCall
    <2>2. call'.op # "open"
      BY <1>5 DEF Read, NoCall
    <2> QED
      BY <2>1, <2>2, PathInvKept
  <1>6. ASSUME NEW o \in SeekOffsets, NEW w \in {"SET", "CUR", "END"}, Seek(o, w) PROVE PathInv'
    <2>1. call.op # "open" /\ call' = call
      BY <1>6 DEF Seek, NoCall
    <2>2. handle'.ino = handle.ino /\ handle'.path = handle.path
      BY <1>0, <1>6 DEF Seek
    <2> QED
      BY <2>1, <2>2, PathInvKept
  <1>7. CASE UNCHANGED ext4Vars
    BY <1>7 DEF ext4Vars, PathInv
  <1> QED
    BY <1>1, <1>2, <1>3, <1>4, <1>5, <1>6, <1>7 DEF Ext4Next

(* open finds the inode that the directories along the path lead to, and   *)
(* fails if there is none, for any tree of directories on any consistent   *)
(* disk and any path (open, strtok, lookup, inode_to_sector).              *)
THEOREM OpenFindsThePath == Ext4Spec => []PathsResolve
  <1>1. Ext4Init => PathInv
    BY DEF Ext4Init, PathInv, NoHandle, NoCall
  <1>2. PathInv => PathsResolve
    BY DEF PathInv, PathsResolve
  <1> QED
    BY <1>1, <1>2, ReadInvInit, ReadInvNext, PathInvNext, PTL DEF Ext4Spec
-----------------------------------------------------------------------------
(* trie_add and trie_get.  The invariant says what every pointer of the    *)
(* trie leads to, by the characters above each node, which the nodes do    *)
(* not hold.                                                               *)

(* The first n characters of a key. *)
Begins(k, n) == SubSeq(k, 1, n)

(* What a node of the trie stands for, when before[x] are the characters   *)
(* above the level of node x.                                              *)
Spelled(t, before, x) == Append(before[x], t.nodes[x].c)

(* h is the first node of a level with a character from c on, or 0. *)
FirstFrom(t, before, h, level, c) ==
    /\ h \in 0..Len(t.nodes)
    /\ h = 0 => \A y \in 1..Len(t.nodes) : before[y] = level => t.nodes[y].c < c
    /\ h # 0 => /\ before[h] = level /\ t.nodes[h].c >= c
                /\ \A y \in 1..Len(t.nodes) :
                      before[y] = level /\ t.nodes[y].c >= c => t.nodes[h].c <= t.nodes[y].c

TrieNode == [c : Nat, next : Nat, down : Nat, value : Nat]

(* A level is sorted, without a character twice, and each pointer leads to *)
(* the first node behind it.                                               *)
LevelsSorted(t, before) ==
    /\ FirstFrom(t, before, t.head, <<>>, 0)
    /\ \A x \in 1..Len(t.nodes) :
          /\ FirstFrom(t, before, t.nodes[x].down, Spelled(t, before, x), 0)
          /\ FirstFrom(t, before, t.nodes[x].next, before[x], t.nodes[x].c + 1)
    /\ \A x, y \in 1..Len(t.nodes) : before[x] = before[y] /\ t.nodes[x].c = t.nodes[y].c => x = y

(* The nodes are the beginnings of the keys that were added, and have      *)
(* their values.                                                           *)
BeginsAKey(t, before, x, keys) ==
    \E i \in 1..Len(keys) : \E n \in 1..Len(keys[i]) : Spelled(t, before, x) = Begins(keys[i], n)

NodesAreBeginnings(t, before, keys) ==
    /\ \A x \in 1..Len(t.nodes) : BeginsAKey(t, before, x, keys)
    /\ \A i \in 1..Len(keys) : \A n \in 1..Len(keys[i]) :
          \E x \in 1..Len(t.nodes) : before[x] = Begins(keys[i], n - 1) /\ t.nodes[x].c = keys[i][n]

ValuesKept(t, before) == \A x \in 1..Len(t.nodes) : t.nodes[x].value = ValueOf(Spelled(t, before, x))

TrieShape(t, before, keys) ==
    /\ before \in [1..Len(t.nodes) -> Seq(Nat)]
    /\ LevelsSorted(t, before) /\ NodesAreBeginnings(t, before, keys)

(* The search of a level. *)
Searching(t, w, before) ==
    LET level == Begins(w.key, w.at - 1) IN
    /\ w.key \in TrieKeys /\ w.at \in 1..Len(w.key)
    /\ w.prev \in 0..Len(t.nodes)
    /\ w.prev = 0 => FirstFrom(t, before, w.cur, level, 0)
    /\ w.prev # 0 => /\ before[w.prev] = level /\ t.nodes[w.prev].c < w.key[w.at]
                     /\ FirstFrom(t, before, w.cur, level, t.nodes[w.prev].c + 1)

AddAt(t, w, before) ==
    /\ w.at = 1 => w.parent = 0
    /\ w.at # 1 => w.parent \in 1..Len(t.nodes) /\ Spelled(t, before, w.parent) = Begins(w.key, w.at - 1)

GetAt(t, w, before) == w.level # 0 /\ FirstFrom(t, before, w.level, Begins(w.key, w.at - 1), 0)

WalkType ==
    [op : {"none", "got", "add", "get"}, key : Seq(Nat), at : Nat, level : Nat, parent : Nat, prev : Nat,
     cur : Nat, value : Nat]

TrieTypes ==
    /\ trie \in [nodes : Seq(TrieNode), head : Nat, keys : Nat] /\ walk \in WalkType
    /\ stored \in Seq(TrieKeys) /\ (trie.keys = 0 <=> stored = <<>>)

WalkFits(before) ==
    /\ walk.op \in {"add", "get"} => Searching(trie, walk, before)
    /\ walk.op = "add" => AddAt(trie, walk, before)
    /\ walk.op = "get" => GetAt(trie, walk, before)
    /\ DevicesResolve

TrieInv ==
    /\ TrieTypes
    /\ \E before : TrieShape(trie, before, stored) /\ ValuesKept(trie, before) /\ WalkFits(before)

-----------------------------------------------------------------------------
LEMMA BeginsIs ==
    ASSUME NEW k \in Seq(Nat), NEW n \in 0..Len(k)
    PROVE  /\ Begins(k, n) \in Seq(Nat) /\ Len(Begins(k, n)) = n
           /\ \A i \in 1..n : Begins(k, n)[i] = k[i]
  <1>1. CASE n = 0
    <2>1. Begins(k, n) = <<>>
      BY <1>1 DEF Begins
    <2>2. <<>> \in Seq(Nat) /\ Len(<<>>) = 0 /\ 1..0 = {}
      OBVIOUS
    <2> QED
      BY <1>1, <2>1, <2>2
  <1>2. CASE n # 0
    <2>1. n \in 1..Len(k)
      BY <1>2
    <2> QED
      BY <2>1 DEF Begins
  <1> QED
    BY <1>1, <1>2

LEMMA SameSeq ==
    ASSUME NEW s \in Seq(Nat), NEW r \in Seq(Nat), Len(s) = Len(r), \A i \in 1..Len(s) : s[i] = r[i]
    PROVE  s = r
  BY SeqEqual

LEMMA BeginsNone ==
    ASSUME NEW k \in Seq(Nat)
    PROVE  Begins(k, 0) = <<>>
  BY DEF Begins

LEMMA BeginsAll ==
    ASSUME NEW k \in Seq(Nat)
    PROVE  Begins(k, Len(k)) = k
  <1>1. Len(k) \in 0..Len(k)
    OBVIOUS
  <1>2. PICK b \in Seq(Nat) : b = Begins(k, Len(k)) /\ Len(b) = Len(k) /\ \A i \in 1..Len(k) : b[i] = k[i]
    BY <1>1, BeginsIs
  <1>3. b = k
    BY <1>2, SameSeq
  <1> QED
    BY <1>2, <1>3

LEMMA BeginsStep ==
    ASSUME NEW k \in Seq(Nat), NEW n \in 1..Len(k)
    PROVE  Begins(k, n) = Append(Begins(k, n - 1), k[n]) /\ k[n] \in Nat
  <1>1. n \in 0..Len(k) /\ n - 1 \in 0..Len(k) /\ k[n] \in Nat
    OBVIOUS
  <1>2. PICK b \in Seq(Nat) : b = Begins(k, n) /\ Len(b) = n /\ \A i \in 1..n : b[i] = k[i]
    BY <1>1, BeginsIs
  <1>3. PICK a \in Seq(Nat) : a = Begins(k, n - 1) /\ Len(a) = n - 1 /\ \A i \in 1..n - 1 : a[i] = k[i]
    BY <1>1, BeginsIs
  <1>4. PICK e \in Seq(Nat) : e = Append(a, k[n])
    <2>1. Append(a, k[n]) \in Seq(Nat)
      BY <1>1, AppendProperties
    <2> QED
      BY <2>1, Zenon
  <1>5. Len(e) = n /\ \A i \in 1..n : e[i] = k[i]
    BY <1>1, <1>3, <1>4
  <1>6. b = e
    BY <1>2, <1>5, SameSeq
  <1> QED
    BY <1>1, <1>2, <1>3, <1>4, <1>6

(* Keys that begin alike. *)
LEMMA BeginsSame ==
    ASSUME NEW k \in Seq(Nat), NEW j \in Seq(Nat), NEW n \in 0..Len(k), NEW m \in 0..Len(j),
           Begins(k, n) = Begins(j, m)
    PROVE  /\ n = m
           /\ \A i \in 1..n : k[i] = j[i]
           /\ \A i \in 0..n : Begins(k, i) = Begins(j, i)
  <1>a. PICK s : s = Begins(k, n) /\ s = Begins(j, m)
    OBVIOUS
  <1>b. Len(s) = n /\ \A i \in 1..n : s[i] = k[i]
    BY <1>a, BeginsIs
  <1>c. Len(s) = m /\ \A i \in 1..m : s[i] = j[i]
    BY <1>a, BeginsIs
  <1>d. n = m
    BY <1>b, <1>c
  <1>e. \A i \in 1..n : k[i] = j[i]
    BY <1>b, <1>c, <1>d
  <1>1. n = m /\ \A i \in 1..n : k[i] = j[i]
    BY <1>d, <1>e
  <1>2. ASSUME NEW i \in 0..n
        PROVE  Begins(k, i) = Begins(j, i)
    <2>1. i \in 0..Len(k) /\ i \in 0..Len(j)
      BY <1>1
    <2>2. PICK a \in Seq(Nat) : a = Begins(k, i) /\ Len(a) = i /\ \A l \in 1..i : a[l] = k[l]
      BY <2>1, BeginsIs
    <2>3. PICK b \in Seq(Nat) : b = Begins(j, i) /\ Len(b) = i /\ \A l \in 1..i : b[l] = j[l]
      BY <2>1, BeginsIs
    <2>4. ASSUME NEW l \in 1..i
          PROVE  a[l] = b[l]
      <3>1. a[l] = k[l] /\ b[l] = j[l]
        BY <2>2, <2>3
      <3>2. l \in 1..n
        OBVIOUS
      <3> QED
        BY <1>1, <3>1, <3>2
    <2>5. a = b
      BY <2>2, <2>3, <2>4, SameSeq
    <2> QED
      BY <2>2, <2>3, <2>5
  <1> QED
    BY <1>1, <1>2

LEMMA AppendParts ==
    ASSUME NEW s \in Seq(Nat), NEW r \in Seq(Nat), NEW a \in Nat, NEW b \in Nat,
           Append(s, a) = Append(r, b)
    PROVE  s = r /\ a = b
  <1>1. Len(s) = Len(r)
    BY AppendProperties
  <1>2. \A i \in 1..Len(s) : s[i] = r[i]
    BY <1>1, AppendProperties
  <1>3. s = r
    BY <1>1, <1>2, SameSeq
  <1>4. a = b
    BY <1>1, AppendProperties
  <1> QED
    BY <1>3, <1>4

-----------------------------------------------------------------------------
TrieNodes(t) == t.nodes \in Seq(TrieNode)

LEMMA NodeTypes ==
    ASSUME NEW t, TrieNodes(t)
    PROVE  /\ Len(t.nodes) \in Nat
           /\ \A x \in 1..Len(t.nodes) : /\ t.nodes[x].c \in Nat /\ t.nodes[x].next \in Nat
                                         /\ t.nodes[x].down \in Nat /\ t.nodes[x].value \in Nat
  <1>1. \A x \in 1..Len(t.nodes) : t.nodes[x] \in TrieNode
    BY DEF TrieNodes
  <1>2. \A e \in TrieNode : e.c \in Nat /\ e.next \in Nat /\ e.down \in Nat /\ e.value \in Nat
    BY DEF TrieNode
  <1>3. Len(t.nodes) \in Nat
    BY DEF TrieNodes
  <1> QED
    BY <1>1, <1>2, <1>3, Zenon

(* Character i of a key has a node. *)
HasNode(t, before, k, i) == \E y \in 1..Len(t.nodes) : before[y] = Begins(k, i - 1) /\ t.nodes[y].c = k[i]

(* A node that spells the beginning of a key has nodes for all that is     *)
(* before it.                                                              *)
LEMMA AllBefore ==
    ASSUME NEW t, TrieNodes(t), NEW before, NEW keys \in Seq(Seq(Nat)), TrieShape(t, before, keys),
           NEW k \in Seq(Nat), NEW n \in 1..Len(k), NEW x \in 1..Len(t.nodes),
           Spelled(t, before, x) = Begins(k, n), NEW i \in 1..n
    PROVE  HasNode(t, before, k, i)
  <1>1. PICK j \in 1..Len(keys) : \E m \in 1..Len(keys[j]) : Spelled(t, before, x) = Begins(keys[j], m)
    BY DEF TrieShape, NodesAreBeginnings, BeginsAKey
  <1>2. PICK m \in 1..Len(keys[j]) : Spelled(t, before, x) = Begins(keys[j], m)
    BY <1>1
  <1>3. keys[j] \in Seq(Nat) /\ n \in 0..Len(k) /\ m \in 0..Len(keys[j])
    OBVIOUS
  <1>4. n = m /\ (\A l \in 1..n : k[l] = keys[j][l]) /\ \A l \in 0..n : Begins(k, l) = Begins(keys[j], l)
    <2>1. Begins(k, n) = Begins(keys[j], m)
      BY <1>2
    <2> QED
      <3>1. PICK key \in Seq(Nat) : key = keys[j]
        BY <1>3
      <3>2. m \in 0..Len(key) /\ Begins(k, n) = Begins(key, m)
        BY <1>3, <2>1, <3>1
      <3>3. n = m /\ (\A l \in 1..n : k[l] = key[l]) /\ \A l \in 0..n : Begins(k, l) = Begins(key, l)
        BY <1>3, <3>2, BeginsSame
      <3> QED
        BY <3>1, <3>3
  <1>5. i \in 1..Len(keys[j])
    BY <1>4
  <1>6. PICK y \in 1..Len(t.nodes) : before[y] = Begins(keys[j], i - 1) /\ t.nodes[y].c = keys[j][i]
    BY <1>5 DEF TrieShape, NodesAreBeginnings
  <1> QED
    BY <1>4, <1>6, SMTT(30) DEF HasNode

(* The key, and how many of its characters, that a node stands for. *)
NodeBegins(t, before, keys, x, j, m) ==
    Spelled(t, before, x) = Begins(keys[j], m) /\ before[x] = Begins(keys[j], m - 1)

LEMMA NodesBegin ==
    ASSUME NEW t, TrieNodes(t), NEW before, NEW keys \in Seq(Seq(Nat)), TrieShape(t, before, keys),
           NEW x \in 1..Len(t.nodes)
    PROVE  \E j \in 1..Len(keys) : \E m \in 1..Len(keys[j]) : NodeBegins(t, before, keys, x, j, m)
  <1>1. PICK j \in 1..Len(keys) : \E m \in 1..Len(keys[j]) : Spelled(t, before, x) = Begins(keys[j], m)
    BY DEF TrieShape, NodesAreBeginnings, BeginsAKey
  <1>2. PICK m \in 1..Len(keys[j]) : Spelled(t, before, x) = Begins(keys[j], m)
    BY <1>1
  <1>3. keys[j] \in Seq(Nat) /\ m - 1 \in 0..Len(keys[j])
    OBVIOUS
  <1>4. before[x] \in Seq(Nat) /\ t.nodes[x].c \in Nat
    <2>1. before \in [1..Len(t.nodes) -> Seq(Nat)]
      BY DEF TrieShape
    <2> QED
      BY <2>1, NodeTypes
  <1>5. Begins(keys[j], m) = Append(Begins(keys[j], m - 1), keys[j][m]) /\ keys[j][m] \in Nat
    BY <1>3, BeginsStep
  <1>6. PICK b \in Seq(Nat), e \in Nat : b = Begins(keys[j], m - 1) /\ e = keys[j][m]
    <2>1. Begins(keys[j], m - 1) \in Seq(Nat)
      BY <1>3, BeginsIs
    <2> QED
      BY <1>5, <2>1
  <1>7. Append(before[x], t.nodes[x].c) = Append(b, e)
    BY <1>2, <1>5, <1>6 DEF Spelled
  <1>8. before[x] = b
    BY <1>4, <1>7, AppendParts, Zenon
  <1>9. NodeBegins(t, before, keys, x, j, m)
    BY <1>2, <1>6, <1>8 DEF NodeBegins
  <1> QED
    BY <1>9

-----------------------------------------------------------------------------
(* What InsertChain makes of the nodes: those that were there keep their   *)
(* characters and values, and node d + n is the one of character n of the  *)
(* key.                                                                    *)
Chained(t, u, w, value) ==
    LET d == Len(t.nodes) + 1 - w.at
        k == w.key
    IN  /\ Len(u.nodes) = d + Len(k)
        /\ \A x \in 1..Len(t.nodes) :
              /\ u.nodes[x].c = t.nodes[x].c /\ u.nodes[x].value = t.nodes[x].value
              /\ u.nodes[x].next = IF x = w.prev THEN d + w.at ELSE t.nodes[x].next
              /\ u.nodes[x].down = IF w.prev = 0 /\ x = w.parent THEN d + w.at ELSE t.nodes[x].down
        /\ \A n \in w.at..Len(k) :
              /\ u.nodes[d + n].c = k[n]
              /\ u.nodes[d + n].value = IF n = Len(k) THEN value ELSE 0
              /\ u.nodes[d + n].next = IF n = w.at THEN w.cur ELSE 0
              /\ u.nodes[d + n].down = IF n < Len(k) THEN d + n + 1 ELSE 0
        /\ u.head = IF w.prev = 0 /\ w.parent = 0 THEN d + w.at ELSE t.head
        /\ u.keys = t.keys + 1

ChainNode(k, n, d, value) ==
    [c |-> k[n], next |-> 0, down |-> IF n < Len(k) THEN d + n + 1 ELSE 0,
     value |-> IF n = Len(k) THEN value ELSE 0]

WithChain(ns, k, at, value, d, g) ==
    /\ g \in Seq(TrieNode) /\ Len(g) = d + Len(k)
    /\ \A x \in 1..Len(ns) : g[x] = ns[x]
    /\ \A n \in at..Len(k) : g[d + n] = ChainNode(k, n, d, value)

(* Node d + n of the trie is number j of the R nodes of the chain. *)
ChainIndex(N, L, at, d, R, n, j) ==
    /\ d + n \in 1..N + R /\ ~(d + n <= N) /\ (d + n) - N = j
    /\ at + j - 1 = n /\ N + j + 1 = d + n + 1
    /\ (j < R <=> n < L) /\ (j = R <=> n = L)

LEMMA ChainIndexes ==
    \A N, L, at, d, R \in Int : 1 <= at /\ at <= L /\ 0 <= N /\ d = N + 1 - at /\ R = L - at + 1 =>
        \A n \in at..L : \E j \in 1..R : ChainIndex(N, L, at, d, R, n, j)
  <1> SUFFICES ASSUME NEW N \in Int, NEW L \in Int, NEW at \in Int, NEW d \in Int, NEW R \in Int,
                      1 <= at, at <= L, 0 <= N, d = N + 1 - at, R = L - at + 1, NEW n \in at..L
               PROVE  \E j \in 1..R : ChainIndex(N, L, at, d, R, n, j)
    OBVIOUS
  <1>1. n - at + 1 \in 1..R /\ ChainIndex(N, L, at, d, R, n, n - at + 1)
    BY DEF ChainIndex
  <1> QED
    BY <1>1

LEMMA AddDownIs ==
    ASSUME NEW ns \in Seq(TrieNode), NEW k \in Seq(Nat), NEW at \in 1..Len(k), NEW value \in Nat,
           NEW d \in Int, d = Len(ns) + 1 - at,
           NEW g, g = AddDown(ns, SubSeq(k, at, Len(k)), value)
    PROVE  WithChain(ns, k, at, value, d, g)
  <1>0. PICK N \in Nat, L \in Nat : N = Len(ns) /\ L = Len(k)
    OBVIOUS
  <1>1. PICK r \in Seq(Nat) : /\ r = SubSeq(k, at, Len(k)) /\ Len(r) = L - at + 1
                              /\ \A j \in 1..L - at + 1 : r[j] = k[at + j - 1]
    <2>1. at \in 1..L + 1 /\ L \in at - 1..Len(k)
      BY <1>0
    <2>2. /\ SubSeq(k, at, L) \in Seq(Nat) /\ Len(SubSeq(k, at, L)) = L - at + 1
          /\ \A j \in 1..L - at + 1 : SubSeq(k, at, L)[j] = k[at + j - 1]
      BY <1>0, <2>1, SubSeqProperties
    <2> QED
      BY <1>0, <2>2
  <1>a. at \in Nat /\ 1 <= at /\ at <= L /\ d = N + 1 - at
    BY <1>0
  <1>2. PICK R \in Nat : R = L - at + 1 /\ R = Len(r)
    <2>1. L - at + 1 \in Nat
      BY <1>a
    <2> QED
      BY <1>1, <2>1
  <1>b. \A n \in at..L : \E j \in 1..R : ChainIndex(N, L, at, d, R, n, j)
    <2>1. at \in Int /\ N \in Int /\ L \in Int /\ R \in Int /\ 0 <= N
      BY <1>a
    <2> QED
      BY <1>a, <1>2, <2>1, ChainIndexes, Zenon
  <1> DEFINE f == [j \in 1..R |->
                     [c |-> r[j], next |-> 0,
                      down  |-> IF j < R THEN N + j + 1 ELSE 0,
                      value |-> IF j = R THEN value ELSE 0]]
  <1>3. g = ns \o f
    BY <1>0, <1>1, <1>2 DEF AddDown
  <1>4. \A j \in 1..R : f[j] \in TrieNode
    <2> SUFFICES ASSUME NEW j \in 1..R
                 PROVE  f[j] \in TrieNode
      OBVIOUS
    <2>1. r[j] \in Nat /\ N + j + 1 \in Nat
      BY <1>1, <1>2
    <2> QED
      BY <2>1 DEF TrieNode
  <1>5. \A j \in 1..R : f[j] = [c |-> r[j], next |-> 0,
                                down  |-> IF j < R THEN N + j + 1 ELSE 0,
                                value |-> IF j = R THEN value ELSE 0]
    OBVIOUS
  <1>6. f \in [1..R -> TrieNode]
    BY <1>4
  <1> HIDE DEF f
  <1>7. f \in Seq(TrieNode) /\ Len(f) = R
    BY <1>6
  <1>8. PICK h \in Seq(TrieNode) : h = f
    BY <1>7
  <1>9. /\ ns \o h \in Seq(TrieNode) /\ Len(ns \o h) = Len(ns) + Len(h)
        /\ \A x \in 1..Len(ns) + Len(h) : (ns \o h)[x] = IF x <= Len(ns) THEN ns[x] ELSE h[x - Len(ns)]
    BY ConcatProperties
  <1>10. /\ g \in Seq(TrieNode) /\ Len(g) = N + R
         /\ \A x \in 1..N + R : g[x] = IF x <= N THEN ns[x] ELSE f[x - N]
    BY <1>0, <1>3, <1>7, <1>8, <1>9
  <1>11. Len(g) = d + Len(k)
    <2>1. L \in at..L
      BY <1>a
    <2>2. PICK j \in 1..R : ChainIndex(N, L, at, d, R, L, j)
      BY <1>b, <2>1
    <2>3. (d + L) - N = R
      BY <2>2 DEF ChainIndex
    <2> QED
      BY <1>0, <1>10, <2>3
  <1>12. \A x \in 1..Len(ns) : g[x] = ns[x]
    BY <1>0, <1>10, SMTT(30)
  <1>13. ASSUME NEW n \in at..Len(k)
         PROVE  g[d + n] = ChainNode(k, n, d, value)
    <2>1. PICK j \in 1..R : ChainIndex(N, L, at, d, R, n, j)
      BY <1>0, <1>b
    <2>2. /\ d + n \in 1..N + R /\ ~(d + n <= N) /\ (d + n) - N = j
          /\ at + j - 1 = n /\ N + j + 1 = d + n + 1
          /\ (j < R <=> n < Len(k)) /\ (j = R <=> n = Len(k))
      BY <1>0, <2>1 DEF ChainIndex
    <2>3. g[d + n] = f[j]
      <3>1. PICK x \in 1..N + R : x = d + n
        BY <2>2
      <3>2. ~(x <= N) /\ x - N = j
        BY <2>2, <3>1
      <3>3. g[x] = f[x - N]
        BY <1>10, <3>2
      <3> QED
        BY <3>1, <3>2, <3>3
    <2>4. r[j] = k[n]
      BY <1>1, <1>2, <2>2
    <2>5. f[j] = [c |-> k[n], next |-> 0, down |-> IF n < Len(k) THEN d + n + 1 ELSE 0,
                  value |-> IF n = Len(k) THEN value ELSE 0]
      BY <1>5, <2>2, <2>4
    <2> QED
      BY <2>3, <2>5 DEF ChainNode
  <1> QED
    BY <1>10, <1>11, <1>12, <1>13, Zenon DEF WithChain

(* The types that a turn of trie_add works with. *)
Inserting(t, w) ==
    /\ TrieNodes(t) /\ w.key \in Seq(Nat) /\ w.at \in 1..Len(w.key)
    /\ {w.prev, w.cur, w.parent} \subseteq 0..Len(t.nodes)

LEMMA ChainIs ==
    ASSUME NEW t, NEW w, NEW value \in Nat, Inserting(t, w),
           NEW u, u = InsertChain(t, w, value)
    PROVE  TrieNodes(u) /\ Chained(t, u, w, value)
  <1>a. PICK N \in Nat, k \in Seq(Nat) : N = Len(t.nodes) /\ k = w.key
    BY DEF Inserting, TrieNodes
  <1>b. PICK at \in 1..Len(k) : at = w.at
    BY <1>a DEF Inserting
  <1>1. N = Len(t.nodes) /\ k = w.key /\ at = w.at
    BY <1>a, <1>b
  <1>2. /\ t.nodes \in Seq(TrieNode)
        /\ w.prev \in 0..N /\ w.cur \in 0..N /\ w.parent \in 0..N
    BY <1>1 DEF Inserting, TrieNodes
  <1>3. PICK d \in Int : d = N + 1 - at
    OBVIOUS
  <1>4. PICK g : g = AddDown(t.nodes, SubSeq(k, at, Len(k)), value)
    OBVIOUS
  <1>5. /\ g \in Seq(TrieNode) /\ Len(g) = d + Len(k)
        /\ \A x \in 1..N : g[x] = t.nodes[x]
        /\ \A n \in at..Len(k) : g[d + n] = ChainNode(k, n, d, value)
    <2>1. d = Len(t.nodes) + 1 - at
      BY <1>1, <1>3
    <2>2. PICK ns \in Seq(TrieNode) : ns = t.nodes
      BY <1>2
    <2>3. d = Len(ns) + 1 - at /\ g = AddDown(ns, SubSeq(k, at, Len(k)), value)
      BY <1>4, <2>1, <2>2
    <2>4. WithChain(ns, k, at, value, d, g)
      BY <2>3, AddDownIs, Zenon
    <2> QED
      BY <1>1, <2>2, <2>4, Zenon DEF WithChain
  <1>6. N + 1 \in 1..Len(g) /\ d + at = N + 1
    BY <1>3, <1>5
  <1>7. g[N + 1] \in TrieNode
    BY <1>5, <1>6
  <1>8. PICK one : one = [g[N + 1] EXCEPT !.next = w.cur]
    OBVIOUS
  <1>9. one \in TrieNode /\ one.c = g[N + 1].c /\ one.next = w.cur /\ one.down = g[N + 1].down
        /\ one.value = g[N + 1].value
    <2>1. w.cur \in Nat
      BY <1>2
    <2>2. \A e \in TrieNode : \A m \in Nat :
             LET f == [e EXCEPT !.next = m] IN
             f \in TrieNode /\ f.c = e.c /\ f.next = m /\ f.down = e.down /\ f.value = e.value
      BY DEF TrieNode
    <2> QED
      BY <1>7, <1>8, <2>1, <2>2
  <1>10. PICK l : l = [g EXCEPT ![N + 1].next = w.cur]
    OBVIOUS
  <1>11. /\ l \in Seq(TrieNode) /\ Len(l) = Len(g)
         /\ \A x \in 1..Len(g) : l[x] = IF x = N + 1 THEN one ELSE g[x]
    <2>1. l = [g EXCEPT ![N + 1] = one]
      BY <1>8, <1>10
    <2> QED
      BY <1>5, <1>6, <1>9, <2>1, ExceptSeq
  <1>12. u = [nodes |-> CASE w.prev # 0 -> [l EXCEPT ![w.prev].next = N + 1]
                          [] w.prev = 0 /\ w.parent # 0 -> [l EXCEPT ![w.parent].down = N + 1]
                          [] OTHER -> l,
              head  |-> IF w.prev = 0 /\ w.parent = 0 THEN N + 1 ELSE t.head,
              keys  |-> t.keys + 1]
    BY <1>1, <1>4, <1>10 DEF InsertChain
  <1>13. u.head = (IF w.prev = 0 /\ w.parent = 0 THEN N + 1 ELSE t.head) /\ u.keys = t.keys + 1
    BY <1>12
  <1>14. /\ u.nodes \in Seq(TrieNode) /\ Len(u.nodes) = Len(l)
         /\ \A x \in 1..Len(l) :
               /\ u.nodes[x].c = l[x].c /\ u.nodes[x].value = l[x].value
               /\ u.nodes[x].next = IF w.prev # 0 /\ x = w.prev THEN N + 1 ELSE l[x].next
               /\ u.nodes[x].down = IF w.prev = 0 /\ w.parent # 0 /\ x = w.parent THEN N + 1 ELSE l[x].down
    <2>1. N + 1 \in Nat
      OBVIOUS
    <2>2. CASE w.prev # 0
      <3>1. w.prev \in 1..Len(l)
        BY <1>2, <1>6, <1>11, <2>2, SMTT(30)
      <3>2. PICK e : e = [l[w.prev] EXCEPT !.next = N + 1]
        OBVIOUS
      <3>3. l[w.prev] \in TrieNode
        BY <1>11, <3>1
      <3>4. e \in TrieNode /\ e.c = l[w.prev].c /\ e.next = N + 1 /\ e.down = l[w.prev].down
            /\ e.value = l[w.prev].value
        BY <2>1, <3>2, <3>3 DEF TrieNode
      <3>5. u.nodes = [l EXCEPT ![w.prev] = e]
        BY <1>12, <2>2, <3>2
      <3>6. /\ u.nodes \in Seq(TrieNode) /\ Len(u.nodes) = Len(l)
            /\ \A x \in 1..Len(l) : u.nodes[x] = IF x = w.prev THEN e ELSE l[x]
        BY <1>11, <3>1, <3>4, <3>5, ExceptSeq
      <3> QED
        BY <2>2, <3>4, <3>6
    <2>3. CASE w.prev = 0 /\ w.parent # 0
      <3>1. w.parent \in 1..Len(l)
        BY <1>2, <1>6, <1>11, <2>3
      <3>2. PICK e : e = [l[w.parent] EXCEPT !.down = N + 1]
        OBVIOUS
      <3>3. l[w.parent] \in TrieNode
        BY <1>11, <3>1
      <3>4. e \in TrieNode /\ e.c = l[w.parent].c /\ e.down = N + 1 /\ e.next = l[w.parent].next
            /\ e.value = l[w.parent].value
        BY <2>1, <3>2, <3>3 DEF TrieNode
      <3>5. u.nodes = [l EXCEPT ![w.parent] = e]
        BY <1>12, <2>3, <3>2
      <3>6. /\ u.nodes \in Seq(TrieNode) /\ Len(u.nodes) = Len(l)
            /\ \A x \in 1..Len(l) : u.nodes[x] = IF x = w.parent THEN e ELSE l[x]
        BY <1>11, <3>1, <3>4, <3>5, ExceptSeq
      <3> QED
        BY <2>3, <3>4, <3>6
    <2>4. CASE w.prev = 0 /\ w.parent = 0
      <3>1. u.nodes = l
        BY <1>12, <2>4
      <3> QED
        BY <1>11, <2>4, <3>1
    <2> QED
      BY <2>2, <2>3, <2>4
  <1>15. ASSUME NEW x \in 1..N
         PROVE  /\ u.nodes[x].c = t.nodes[x].c /\ u.nodes[x].value = t.nodes[x].value
                /\ u.nodes[x].next = IF x = w.prev THEN d + at ELSE t.nodes[x].next
                /\ u.nodes[x].down = IF w.prev = 0 /\ x = w.parent THEN d + at ELSE t.nodes[x].down
    <2>1. x \in 1..Len(l) /\ x # N + 1 /\ x # 0 /\ x \in 1..Len(g)
      BY <1>6, <1>11
    <2>2. l[x] = t.nodes[x]
      BY <1>5, <1>11, <2>1
    <2> QED
      BY <1>6, <1>14, <2>1, <2>2, ZenonT(30)
  <1>16. ASSUME NEW n \in at..Len(k)
         PROVE  /\ u.nodes[d + n].c = k[n]
                /\ u.nodes[d + n].value = IF n = Len(k) THEN value ELSE 0
                /\ u.nodes[d + n].next = IF n = at THEN w.cur ELSE 0
                /\ u.nodes[d + n].down = IF n < Len(k) THEN d + n + 1 ELSE 0
    <2>1. PICK y \in 1..Len(g) : y = d + n /\ y > N /\ (y = N + 1 <=> n = at)
      BY <1>3, <1>5, SMTT(30)
    <2>2. y # w.prev /\ y # w.parent
      BY <1>2, <2>1, SMTT(30)
    <2>3. g[y] = ChainNode(k, n, d, value)
      BY <1>5, <2>1
    <2>4. g[y].c = k[n] /\ g[y].next = 0 /\ (g[y].down = IF n < Len(k) THEN d + n + 1 ELSE 0)
          /\ g[y].value = IF n = Len(k) THEN value ELSE 0
      BY <2>3 DEF ChainNode
    <2>5. l[y].c = g[y].c /\ l[y].down = g[y].down /\ l[y].value = g[y].value
          /\ l[y].next = IF n = at THEN w.cur ELSE 0
      BY <1>9, <1>11, <2>1, <2>4
    <2>6. /\ u.nodes[y].c = l[y].c /\ u.nodes[y].value = l[y].value
          /\ u.nodes[y].next = l[y].next /\ u.nodes[y].down = l[y].down
      BY <1>11, <1>14, <2>2
    <2> QED
      BY <2>1, <2>4, <2>5, <2>6
  <1>17. Len(u.nodes) = d + Len(k)
    BY <1>5, <1>11, <1>14
  <1>18. TrieNodes(u)
    BY <1>14 DEF TrieNodes
  <1>19. d + at = N + 1 /\ d = Len(t.nodes) + 1 - w.at
    BY <1>1, <1>3
  <1> QED
    BY <1>1, <1>13, <1>15, <1>16, <1>17, <1>18, <1>19 DEF Chained

-----------------------------------------------------------------------------
(* The trie u has the nodes of t and those of the chain. *)
Extends(t, u, before, after, k, at, d) ==
    /\ TrieNodes(t) /\ TrieNodes(u) /\ k \in Seq(Nat) /\ at \in 1..Len(k) /\ d \in Int
    /\ d + at = Len(t.nodes) + 1 /\ Len(u.nodes) = d + Len(k)
    /\ \A x \in 1..Len(t.nodes) : after[x] = before[x] /\ u.nodes[x].c = t.nodes[x].c
    /\ \A n \in at..Len(k) : after[d + n] = Begins(k, n - 1) /\ u.nodes[d + n].c = k[n]

LEMMA OldOrChain ==
    ASSUME NEW t, NEW u, NEW before, NEW after, NEW k, NEW at, NEW d,
           Extends(t, u, before, after, k, at, d)
    PROVE  /\ \A y \in 1..Len(u.nodes) : y \in 1..Len(t.nodes) \/ \E n \in at..Len(k) : y = d + n
           /\ \A y \in 1..Len(t.nodes) : y \in 1..Len(u.nodes)
           /\ \A n \in at..Len(k) : d + n \in 1..Len(u.nodes) /\ d + n \notin 1..Len(t.nodes)
  <1>1. PICK N \in Nat, L \in Nat, M \in Nat : N = Len(t.nodes) /\ L = Len(k) /\ M = Len(u.nodes)
    BY DEF Extends, TrieNodes
  <1>2. at \in Int /\ 1 <= at /\ at <= L /\ d \in Int /\ d + at = N + 1 /\ M = d + L
    BY <1>1 DEF Extends
  <1>3. \A y \in 1..M : y \in 1..N \/ (y - d \in at..L /\ y = d + (y - d))
    BY <1>2
  <1>4. \A y \in 1..N : y \in 1..M
    BY <1>2
  <1>5. \A n \in at..L : d + n \in 1..M /\ d + n \notin 1..N
    BY <1>2
  <1> QED
    BY <1>1, <1>3, <1>4, <1>5

(* A pointer keeps its meaning unless the chain has a node that belongs    *)
(* before the one it leads to.                                             *)
LEMMA FirstKept ==
    ASSUME NEW t, NEW u, NEW before, NEW after, NEW k, NEW at, NEW d,
           Extends(t, u, before, after, k, at, d),
           NEW h, NEW level, NEW c \in Nat, FirstFrom(t, before, h, level, c),
           \A n \in at..Len(k) : Begins(k, n - 1) = level => k[n] < c \/ (h # 0 /\ t.nodes[h].c <= k[n])
    PROVE  FirstFrom(u, after, h, level, c)
  <1>0. TrieNodes(t) /\ TrieNodes(u)
    BY DEF Extends
  <1>1. PICK N \in Nat, M \in Nat : N = Len(t.nodes) /\ M = Len(u.nodes)
    BY <1>0, NodeTypes
  <1>2. /\ \A y \in 1..M : y \in 1..N \/ \E n \in at..Len(k) : y = d + n
        /\ \A y \in 1..N : y \in 1..M
    BY <1>1, OldOrChain
  <1>3. /\ \A x \in 1..N : after[x] = before[x] /\ u.nodes[x].c = t.nodes[x].c
        /\ \A n \in at..Len(k) : after[d + n] = Begins(k, n - 1) /\ u.nodes[d + n].c = k[n]
    BY <1>1 DEF Extends
  <1>4. /\ h \in 0..N
        /\ h = 0 => \A y \in 1..N : before[y] = level => t.nodes[y].c < c
        /\ h # 0 => /\ before[h] = level /\ t.nodes[h].c >= c
                    /\ \A y \in 1..N : before[y] = level /\ t.nodes[y].c >= c => t.nodes[h].c <= t.nodes[y].c
    BY <1>1 DEF FirstFrom
  <1>5. (\A y \in 1..N : t.nodes[y].c \in Nat) /\ \A n \in at..Len(k) : k[n] \in Nat
    <2>1. TrieNodes(t) /\ k \in Seq(Nat) /\ at \in 1..Len(k)
      BY DEF Extends
    <2>2. \A n \in at..Len(k) : n \in 1..Len(k)
      BY <2>1
    <2>3. \A n \in at..Len(k) : k[n] \in Nat
      BY <2>1, <2>2
    <2>4. \A y \in 1..N : t.nodes[y].c \in Nat
      BY <1>1, <2>1, NodeTypes, Zenon
    <2> QED
      BY <2>3, <2>4
  <1>6. h \in 0..M /\ (h # 0 => h \in 1..N)
    BY <1>2, <1>4
  <1>7. CASE h = 0
    <2>1. ASSUME NEW y \in 1..M, after[y] = level
          PROVE  u.nodes[y].c < c
      <3>1. CASE y \in 1..N
        BY <1>3, <1>4, <1>7, <2>1, <3>1
      <3>2. CASE \E n \in at..Len(k) : y = d + n
        BY <1>3, <1>7, <2>1, <3>2
      <3> QED
        BY <1>2, <3>1, <3>2
    <2> QED
      BY <1>1, <1>6, <1>7, <2>1 DEF FirstFrom
  <1>8. CASE h # 0
    <2>1. after[h] = level /\ u.nodes[h].c >= c /\ u.nodes[h].c = t.nodes[h].c
      BY <1>3, <1>4, <1>6, <1>8
    <2>2. ASSUME NEW y \in 1..M, after[y] = level, u.nodes[y].c >= c
          PROVE  u.nodes[h].c <= u.nodes[y].c
      <3>1. CASE y \in 1..N
        BY <1>3, <1>4, <1>8, <2>1, <2>2, <3>1
      <3>2. CASE \E n \in at..Len(k) : y = d + n
        <4>1. PICK n \in at..Len(k) : y = d + n
          BY <3>2
        <4>2. Begins(k, n - 1) = level /\ u.nodes[y].c = k[n] /\ k[n] \in Nat
          BY <1>3, <1>5, <2>2, <4>1
        <4>3. ~(k[n] < c)
          BY <2>2, <4>2
        <4> QED
          BY <2>1, <4>2, <4>3
      <3> QED
        BY <1>2, <3>1, <3>2
    <2> QED
      BY <1>1, <1>6, <1>8, <2>1, <2>2 DEF FirstFrom
  <1> QED
    BY <1>7, <1>8

(* A pointer to the first node of the chain. *)
LEMMA FirstIsChain ==
    ASSUME NEW t, NEW u, NEW before, NEW after, NEW k, NEW at, NEW d,
           Extends(t, u, before, after, k, at, d),
           NEW m \in at..Len(k), NEW c \in Nat, c <= k[m],
           \A y \in 1..Len(t.nodes) : before[y] = Begins(k, m - 1) /\ t.nodes[y].c >= c => k[m] <= t.nodes[y].c
    PROVE  FirstFrom(u, after, d + m, Begins(k, m - 1), c)
  <1>0. TrieNodes(t) /\ TrieNodes(u)
    BY DEF Extends
  <1>1. PICK N \in Nat, M \in Nat : N = Len(t.nodes) /\ M = Len(u.nodes)
    BY <1>0, NodeTypes
  <1>2. /\ \A y \in 1..M : y \in 1..N \/ \E n \in at..Len(k) : y = d + n
        /\ \A n \in at..Len(k) : d + n \in 1..M
    BY <1>1, OldOrChain
  <1>3. /\ \A x \in 1..N : after[x] = before[x] /\ u.nodes[x].c = t.nodes[x].c
        /\ \A n \in at..Len(k) : after[d + n] = Begins(k, n - 1) /\ u.nodes[d + n].c = k[n]
    BY <1>1 DEF Extends
  <1>4. k \in Seq(Nat) /\ at \in 1..Len(k)
    BY DEF Extends
  <1>5. ASSUME NEW n \in at..Len(k), Begins(k, n - 1) = Begins(k, m - 1)
        PROVE  n = m
    <2>1. n - 1 \in 0..Len(k) /\ m - 1 \in 0..Len(k)
      BY <1>4
    <2>2. n - 1 = m - 1
      BY <1>4, <1>5, <2>1, BeginsIs
    <2> QED
      BY <1>4, <2>2
  <1>6. PICK h \in 1..M : h = d + m
    BY <1>2
  <1>7. after[h] = Begins(k, m - 1) /\ u.nodes[h].c = k[m] /\ k[m] \in Nat
    <2>1. m \in 1..Len(k)
      BY <1>4
    <2> QED
      BY <1>3, <1>4, <1>6, <2>1, SMTT(30)
  <1>8. ASSUME NEW y \in 1..M, after[y] = Begins(k, m - 1), u.nodes[y].c >= c
        PROVE  u.nodes[h].c <= u.nodes[y].c
    <2>1. CASE y \in 1..N
      BY <1>1, <1>3, <1>7, <1>8, <2>1
    <2>2. CASE \E n \in at..Len(k) : y = d + n
      <3>1. PICK n \in at..Len(k) : y = d + n
        BY <2>2
      <3>2. n = m
        BY <1>3, <1>5, <1>8, <3>1
      <3> QED
        BY <1>6, <1>7, <3>1, <3>2
    <2> QED
      BY <1>2, <2>1, <2>2
  <1>9. FirstFrom(u, after, h, Begins(k, m - 1), c)
    BY <1>1, <1>7, <1>8 DEF FirstFrom
  <1> QED
    BY <1>6, <1>9

-----------------------------------------------------------------------------
(* Where the search of a level ends without a match: the character belongs *)
(* between prev and cur.                                                   *)
InPlace(t, w, before) ==
    LET level == Begins(w.key, w.at - 1)
        c == w.key[w.at]
    IN  /\ w.cur # 0 => before[w.cur] = level /\ c < t.nodes[w.cur].c
        /\ w.prev # 0 => before[w.prev] = level /\ t.nodes[w.prev].c < c
        /\ \A y \in 1..Len(t.nodes) :
              before[y] = level => \/ w.cur # 0 /\ t.nodes[w.cur].c <= t.nodes[y].c
                                   \/ w.prev # 0 /\ t.nodes[y].c <= t.nodes[w.prev].c

LEMMA SearchEnds ==
    ASSUME NEW t, NEW w, NEW before, TrieNodes(t), Searching(t, w, before),
           w.cur # 0 => w.key[w.at] < t.nodes[w.cur].c
    PROVE  InPlace(t, w, before)
  <1>1. PICK level : level = Begins(w.key, w.at - 1)
    OBVIOUS
  <1>2. \A y \in 1..Len(t.nodes) : t.nodes[y].c \in Nat
    BY NodeTypes, Zenon
  <1>3. CASE w.prev = 0
    <2>1. FirstFrom(t, before, w.cur, level, 0)
      BY <1>1, <1>3 DEF Searching
    <2>2. w.cur # 0 => before[w.cur] = level
      BY <2>1 DEF FirstFrom
    <2>3. \A y \in 1..Len(t.nodes) : before[y] = level => w.cur # 0 /\ t.nodes[w.cur].c <= t.nodes[y].c
      BY <1>2, <2>1 DEF FirstFrom
    <2> QED
      BY <1>1, <1>3, <2>2, <2>3 DEF InPlace
  <1>4. CASE w.prev # 0
    <2>1. /\ FirstFrom(t, before, w.cur, level, t.nodes[w.prev].c + 1)
          /\ before[w.prev] = level /\ t.nodes[w.prev].c < w.key[w.at] /\ w.prev \in 1..Len(t.nodes)
      BY <1>1, <1>4 DEF Searching
    <2>2. w.cur # 0 => before[w.cur] = level
      BY <2>1 DEF FirstFrom
    <2>3. ASSUME NEW y \in 1..Len(t.nodes), before[y] = level, ~(t.nodes[y].c <= t.nodes[w.prev].c)
          PROVE  w.cur # 0 /\ t.nodes[w.cur].c <= t.nodes[y].c
      <3>1. t.nodes[y].c >= t.nodes[w.prev].c + 1 /\ ~(t.nodes[y].c < t.nodes[w.prev].c + 1)
        BY <1>2, <2>1, <2>3
      <3> QED
        BY <2>1, <2>3, <3>1 DEF FirstFrom
    <2> QED
      BY <1>1, <1>4, <2>1, <2>2, <2>3 DEF InPlace
  <1> QED
    BY <1>3, <1>4

(* What trie_add relies on when it inserts a chain. *)
InsertsAt(t, w, before, keys) ==
    /\ Inserting(t, w) /\ keys \in Seq(Seq(Nat)) /\ TrieShape(t, before, keys)
    /\ InPlace(t, w, before) /\ AddAt(t, w, before)

LEMMA NotInLevel ==
    ASSUME NEW t, NEW w, NEW before, NEW keys, InsertsAt(t, w, before, keys),
           NEW y \in 1..Len(t.nodes), before[y] = Begins(w.key, w.at - 1)
    PROVE  t.nodes[y].c # w.key[w.at]
  <1>1. /\ w.cur # 0 => w.key[w.at] < t.nodes[w.cur].c
        /\ w.prev # 0 => t.nodes[w.prev].c < w.key[w.at]
        /\ \/ w.cur # 0 /\ t.nodes[w.cur].c <= t.nodes[y].c
           \/ w.prev # 0 /\ t.nodes[y].c <= t.nodes[w.prev].c
    BY DEF InsertsAt, InPlace
  <1>2. TrieNodes(t) /\ w.cur \in 0..Len(t.nodes) /\ w.prev \in 0..Len(t.nodes)
        /\ w.key \in Seq(Nat) /\ w.at \in 1..Len(w.key)
    BY DEF InsertsAt, Inserting
  <1>3. Len(t.nodes) \in Nat /\ \A x \in 1..Len(t.nodes) : t.nodes[x].c \in Nat
    BY <1>2, NodeTypes, Zenon
  <1>4. t.nodes[y].c \in Nat /\ w.key[w.at] \in Nat
    <2>1. \A k \in Seq(Nat) : \A i \in 1..Len(k) : k[i] \in Nat
      OBVIOUS
    <2> QED
      BY <1>2, <1>3, <2>1, Zenon
  <1>5. CASE w.cur # 0 /\ t.nodes[w.cur].c <= t.nodes[y].c
    <2>1. t.nodes[w.cur].c \in Nat
      BY <1>2, <1>3, <1>5
    <2> QED
      BY <1>1, <1>4, <1>5, <2>1
  <1>6. CASE w.prev # 0 /\ t.nodes[y].c <= t.nodes[w.prev].c
    <2>1. t.nodes[w.prev].c \in Nat
      BY <1>2, <1>3, <1>6
    <2> QED
      BY <1>1, <1>4, <1>6, <2>1
  <1> QED
    BY <1>1, <1>5, <1>6

(* No key that was added begins like the new key up to the character that  *)
(* was not found.                                                          *)
LEMMA NoKeyAlike ==
    ASSUME NEW t, NEW w, NEW before, NEW keys, InsertsAt(t, w, before, keys),
           NEW n \in w.at..Len(w.key), NEW j \in 1..Len(keys), NEW m \in 0..Len(keys[j])
    PROVE  Begins(keys[j], m) # Begins(w.key, n)
  <1> SUFFICES ASSUME Begins(keys[j], m) = Begins(w.key, n)
               PROVE  FALSE
    OBVIOUS
  <1>1. PICK k \in Seq(Nat), key \in Seq(Nat) : k = w.key /\ key = keys[j]
    BY DEF InsertsAt, Inserting
  <1>2. PICK at \in 1..Len(k) : at = w.at
    BY <1>1 DEF InsertsAt, Inserting
  <1>3. n \in at..Len(k) /\ n \in 0..Len(k) /\ m \in 0..Len(key) /\ Begins(key, m) = Begins(k, n)
    BY <1>1, <1>2
  <1>4. m = n /\ (\A i \in 1..m : key[i] = k[i]) /\ \A i \in 0..m : Begins(key, i) = Begins(k, i)
    BY <1>3, BeginsSame
  <1>5. at \in 1..Len(key) /\ at \in 1..m /\ at - 1 \in 0..m
    BY <1>3, <1>4
  <1>6. PICK y \in 1..Len(t.nodes) : before[y] = Begins(key, at - 1) /\ t.nodes[y].c = key[at]
    BY <1>1, <1>5 DEF InsertsAt, TrieShape, NodesAreBeginnings
  <1>7. before[y] = Begins(w.key, w.at - 1) /\ t.nodes[y].c = w.key[w.at]
    BY <1>1, <1>2, <1>4, <1>5, <1>6
  <1> QED
    BY <1>7, NotInLevel

LEMMA NothingBelow ==
    ASSUME NEW t, NEW w, NEW before, NEW keys, InsertsAt(t, w, before, keys),
           NEW n \in w.at..Len(w.key), NEW x \in 1..Len(t.nodes)
    PROVE  Spelled(t, before, x) # Begins(w.key, n) /\ before[x] # Begins(w.key, n)
  <1>1. PICK j \in 1..Len(keys) : \E m \in 1..Len(keys[j]) : NodeBegins(t, before, keys, x, j, m)
    BY NodesBegin DEF InsertsAt, Inserting
  <1>2. PICK m \in 1..Len(keys[j]) : NodeBegins(t, before, keys, x, j, m)
    BY <1>1
  <1>3. m \in 0..Len(keys[j]) /\ m - 1 \in 0..Len(keys[j])
    BY DEF InsertsAt
  <1>6. Begins(keys[j], m) # Begins(w.key, n) /\ Begins(keys[j], m - 1) # Begins(w.key, n)
    BY <1>3, NoKeyAlike
  <1> QED
    BY <1>2, <1>6 DEF NodeBegins

-----------------------------------------------------------------------------
(* u is t with the chain, and after are the characters above its levels. *)
Inserted(t, u, w, before, after, keys, value, d) ==
    /\ InsertsAt(t, w, before, keys) /\ Chained(t, u, w, value) /\ d = Len(t.nodes) + 1 - w.at
    /\ Extends(t, u, before, after, w.key, w.at, d)
    /\ after \in [1..Len(u.nodes) -> Seq(Nat)]

LEMMA InsertedIs ==
    ASSUME NEW t, NEW w, NEW before, NEW keys, InsertsAt(t, w, before, keys), NEW value \in Nat,
           NEW u, u = InsertChain(t, w, value)
    PROVE  \E after, d : Inserted(t, u, w, before, after, keys, value, d)
  <1>1. TrieNodes(u) /\ Chained(t, u, w, value)
    BY ChainIs DEF InsertsAt
  <1>2. PICK N \in Nat, k \in Seq(Nat) : N = Len(t.nodes) /\ k = w.key /\ TrieNodes(t)
    BY SMTT(30) DEF InsertsAt, Inserting, TrieNodes
  <1>3. PICK at \in 1..Len(k) : at = w.at
    BY <1>2 DEF InsertsAt, Inserting
  <1>4. PICK d \in Int : d = N + 1 - at
    OBVIOUS
  <1>5. d = Len(t.nodes) + 1 - w.at
    BY <1>2, <1>3, <1>4
  <1>6. PICK M \in Nat, L \in Nat : M = Len(u.nodes) /\ L = Len(k)
    BY <1>1, NodeTypes
  <1>7. M = d + L
    BY <1>1, <1>2, <1>5, <1>6 DEF Chained
  <1>8. /\ \A x \in 1..N : u.nodes[x].c = t.nodes[x].c
        /\ \A n \in at..L : u.nodes[d + n].c = k[n]
    BY <1>1, <1>2, <1>3, <1>5, <1>6 DEF Chained
  <1> DEFINE after == [x \in 1..M |-> IF x <= N THEN before[x] ELSE Begins(k, x - d - 1)]
  <1>9. \A x \in 1..N : x \in 1..M /\ after[x] = before[x]
    <2>1. \A x \in 1..N : x \in 1..M /\ x <= N
      BY <1>4, <1>6, <1>7
    <2> QED
      BY <2>1
  <1>10. \A n \in at..L : after[d + n] = Begins(k, n - 1)
    <2>1. ASSUME NEW n \in at..L
          PROVE  d + n \in 1..M /\ ~(d + n <= N) /\ (d + n) - d - 1 = n - 1
      BY <1>4, <1>6, <1>7
    <2> QED
      BY <2>1
  <1>11. after \in [1..M -> Seq(Nat)]
    <2> SUFFICES ASSUME NEW x \in 1..M
                 PROVE  after[x] \in Seq(Nat)
      OBVIOUS
    <2>1. CASE x <= N
      <3>1. before \in [1..N -> Seq(Nat)]
        BY <1>2 DEF InsertsAt, TrieShape
      <3> QED
        BY <2>1, <3>1
    <2>2. CASE ~(x <= N)
      <3>1. x - d - 1 \in 0..Len(k)
        BY <1>4, <1>6, <1>7, <2>2
      <3> QED
        BY <2>2, <3>1, BeginsIs
    <2> QED
      BY <2>1, <2>2
  <1> HIDE DEF after
  <1>12. d + at = N + 1
    BY <1>4
  <1>13. Extends(t, u, before, after, k, at, d)
    BY <1>1, <1>2, <1>6, <1>7, <1>8, <1>9, <1>10, <1>12 DEF Extends
  <1>14. Inserted(t, u, w, before, after, keys, value, d)
    BY <1>1, <1>2, <1>3, <1>5, <1>6, <1>11, <1>13 DEF Inserted
  <1> QED
    BY <1>14

(* What the lemmas below use of it. *)
LEMMA InsertedParts ==
    ASSUME NEW t, NEW u, NEW w, NEW before, NEW after, NEW keys, NEW value, NEW d,
           Inserted(t, u, w, before, after, keys, value, d)
    PROVE  /\ Len(t.nodes) \in Nat /\ w.key \in Seq(Nat) /\ w.at \in 1..Len(w.key) /\ d \in Int
           /\ w.key[w.at] \in Nat /\ w.at \in w.at..Len(w.key)
           /\ w.prev \in 0..Len(t.nodes) /\ w.cur \in 0..Len(t.nodes) /\ w.parent \in 0..Len(t.nodes)
           /\ \A x \in 1..Len(t.nodes) : t.nodes[x].c \in Nat /\ before[x] \in Seq(Nat)
           /\ Extends(t, u, before, after, w.key, w.at, d)
           /\ LevelsSorted(t, before)
  <1>1. /\ Inserting(t, w) /\ before \in [1..Len(t.nodes) -> Seq(Nat)]
        /\ Extends(t, u, before, after, w.key, w.at, d) /\ LevelsSorted(t, before)
    BY DEF Inserted, InsertsAt, TrieShape
  <1>2. /\ TrieNodes(t) /\ w.key \in Seq(Nat) /\ w.at \in 1..Len(w.key)
        /\ w.prev \in 0..Len(t.nodes) /\ w.cur \in 0..Len(t.nodes) /\ w.parent \in 0..Len(t.nodes)
    BY <1>1 DEF Inserting
  <1>3. Len(t.nodes) \in Nat /\ \A x \in 1..Len(t.nodes) : t.nodes[x].c \in Nat
    BY <1>2, NodeTypes, Zenon
  <1>4. w.key[w.at] \in Nat /\ w.at \in w.at..Len(w.key)
    BY <1>2
  <1>5. d \in Int
    BY <1>1 DEF Extends
  <1>6. \A x \in 1..Len(t.nodes) : before[x] \in Seq(Nat)
    BY <1>1
  <1> QED
    BY <1>1, <1>2, <1>3, <1>4, <1>5, <1>6

(* The levels of the chain: each has one of its nodes, and only the first  *)
(* of them has nodes that were there.                                      *)
LEMMA ChainLevels ==
    ASSUME NEW t, NEW u, NEW w, NEW before, NEW after, NEW keys, NEW value, NEW d,
           Inserted(t, u, w, before, after, keys, value, d), NEW n \in w.at..Len(w.key)
    PROVE  /\ \A m \in w.at..Len(w.key) : Begins(w.key, m - 1) = Begins(w.key, n - 1) => m = n
           /\ \A m \in w.at..Len(w.key) : Begins(w.key, m - 1) # w.key
           /\ n # w.at => \A y \in 1..Len(t.nodes) : before[y] # Begins(w.key, n - 1)
                                                 /\ Spelled(t, before, y) # Begins(w.key, n - 1)
           /\ n \in 1..Len(w.key) /\ w.key[n] \in Nat /\ Begins(w.key, n - 1) \in Seq(Nat)
           /\ Begins(w.key, n) = Append(Begins(w.key, n - 1), w.key[n])
  <1>1. PICK k \in Seq(Nat), at \in Nat : k = w.key /\ at = w.at /\ 1 <= at /\ at <= Len(k)
    <2>1. w.key \in Seq(Nat) /\ w.at \in 1..Len(w.key)
      BY InsertedParts
    <2> QED
      BY <2>1
  <1>2. n \in 1..Len(k) /\ n \in Int /\ at <= n /\ n <= Len(k) /\ Len(k) \in Nat
    BY <1>1
  <1>3. ASSUME NEW m \in at..Len(k), Begins(k, m - 1) = Begins(k, n - 1)
        PROVE  m = n
    <2>1. m - 1 \in 0..Len(k) /\ n - 1 \in 0..Len(k)
      BY <1>1, <1>2
    <2>2. Len(Begins(k, m - 1)) = m - 1 /\ Len(Begins(k, n - 1)) = n - 1
      BY <2>1, BeginsIs
    <2>3. m - 1 = n - 1
      BY <1>3, <2>2
    <2> QED
      BY <1>2, <2>3
  <1>4. ASSUME NEW m \in at..Len(k)
        PROVE  Begins(k, m - 1) # k
    <2>1. m - 1 \in 0..Len(k) /\ m - 1 # Len(k)
      BY <1>1, <1>2
    <2>2. Len(Begins(k, m - 1)) = m - 1
      BY <2>1, BeginsIs
    <2> QED
      BY <2>1, <2>2
  <1>5. ASSUME n # at, NEW y \in 1..Len(t.nodes)
        PROVE  before[y] # Begins(k, n - 1) /\ Spelled(t, before, y) # Begins(k, n - 1)
    <2>1. n - 1 \in w.at..Len(w.key)
      BY <1>1, <1>2, <1>5
    <2>2. InsertsAt(t, w, before, keys)
      BY DEF Inserted
    <2> QED
      BY <1>1, <2>1, <2>2, NothingBelow
  <1>6. k[n] \in Nat /\ Begins(k, n) = Append(Begins(k, n - 1), k[n])
    BY <1>2, BeginsStep
  <1>7. Begins(k, n - 1) \in Seq(Nat)
    <2>1. n - 1 \in 0..Len(k)
      BY <1>2
    <2> QED
      BY <2>1, BeginsIs
  <1> QED
    BY <1>1, <1>2, <1>3, <1>4, <1>5, <1>6, <1>7

-----------------------------------------------------------------------------
(* The pointer to the level that gets the first node of the chain: it      *)
(* leads to that node if the search found nothing before it.               *)
LEMMA LevelHead ==
    ASSUME NEW t, NEW u, NEW w, NEW before, NEW after, NEW keys, NEW value, NEW d,
           Inserted(t, u, w, before, after, keys, value, d),
           NEW h, FirstFrom(t, before, h, Begins(w.key, w.at - 1), 0)
    PROVE  /\ w.prev = 0 => FirstFrom(u, after, d + w.at, Begins(w.key, w.at - 1), 0)
           /\ w.prev # 0 => FirstFrom(u, after, h, Begins(w.key, w.at - 1), 0)
  <1>1. PICK N \in Nat, k \in Seq(Nat), at \in Nat, c \in Nat, level \in {Begins(w.key, w.at - 1)} :
            /\ N = Len(t.nodes) /\ k = w.key /\ at = w.at /\ c = k[at] /\ level = Begins(k, at - 1)
            /\ at \in at..Len(k)
    <2>1. /\ Len(t.nodes) \in Nat /\ w.key \in Seq(Nat) /\ w.at \in 1..Len(w.key)
          /\ w.key[w.at] \in Nat /\ w.at \in w.at..Len(w.key)
      BY InsertedParts
    <2> QED
      BY <2>1, SMTT(30)
  <1>2. /\ w.prev \in 0..N /\ w.cur \in 0..N /\ Extends(t, u, before, after, k, at, d)
        /\ \A x \in 1..N : t.nodes[x].c \in Nat
    BY <1>1, InsertedParts
  <1>3. /\ w.cur # 0 => before[w.cur] = level /\ c < t.nodes[w.cur].c
        /\ w.prev # 0 => before[w.prev] = level /\ t.nodes[w.prev].c < c
        /\ \A y \in 1..N : before[y] = level => \/ w.cur # 0 /\ t.nodes[w.cur].c <= t.nodes[y].c
                                                \/ w.prev # 0 /\ t.nodes[y].c <= t.nodes[w.prev].c
    BY <1>1 DEF Inserted, InsertsAt, InPlace
  <1>4. CASE w.prev = 0
    <2>1. ASSUME NEW y \in 1..N, before[y] = level
          PROVE  c <= t.nodes[y].c
      <3>1. w.cur # 0 /\ t.nodes[w.cur].c <= t.nodes[y].c /\ c < t.nodes[w.cur].c
        BY <1>3, <1>4, <2>1
      <3>2. t.nodes[w.cur].c \in Nat /\ t.nodes[y].c \in Nat
        BY <1>2, <3>1
      <3> QED
        BY <3>1, <3>2
    <2>2. 0 <= k[at] /\ 0 \in Nat
      BY <1>1
    <2>3. FirstFrom(u, after, d + at, Begins(k, at - 1), 0)
      BY <1>1, <1>2, <2>1, <2>2, FirstIsChain
    <2> QED
      BY <1>1, <1>4, <2>3
  <1>5. CASE w.prev # 0
    <2>1. w.prev \in 1..N /\ before[w.prev] = level /\ t.nodes[w.prev].c < c /\ t.nodes[w.prev].c \in Nat
      BY <1>2, <1>3, <1>5
    <2>2. h # 0 /\ h \in 1..N /\ t.nodes[h].c <= t.nodes[w.prev].c
      BY <1>1, <2>1, SMTT(30) DEF FirstFrom
    <2>3. t.nodes[h].c <= c
      <3>1. t.nodes[h].c \in Nat
        BY <1>2, <2>2
      <3>2. \A a, b, e \in Nat : a <= b /\ b < e => a <= e
        OBVIOUS
      <3> QED
        BY <2>1, <2>2, <3>1, <3>2
    <2>4. ASSUME NEW n \in at..Len(k), Begins(k, n - 1) = level
          PROVE  k[n] < 0 \/ (h # 0 /\ t.nodes[h].c <= k[n])
      <3>1. n = at
        BY <1>1, <2>4, ChainLevels
      <3> QED
        BY <1>1, <2>2, <2>3, <3>1
    <2>5. FirstFrom(u, after, h, level, 0)
      BY <1>1, <1>2, <2>4, FirstKept, SMTT(30)
    <2> QED
      BY <1>1, <1>5, <2>5
  <1> QED
    BY <1>4, <1>5

LEMMA HeadInserted ==
    ASSUME NEW t, NEW u, NEW w, NEW before, NEW after, NEW keys, NEW value, NEW d,
           Inserted(t, u, w, before, after, keys, value, d)
    PROVE  FirstFrom(u, after, u.head, <<>>, 0)
  <1>1. /\ w.key \in Seq(Nat) /\ w.at \in 1..Len(w.key) /\ w.parent \in 0..Len(t.nodes)
        /\ Extends(t, u, before, after, w.key, w.at, d)
    BY InsertedParts
  <1>2. FirstFrom(t, before, t.head, <<>>, 0)
    BY InsertedParts DEF LevelsSorted
  <1>3. /\ u.head = IF w.prev = 0 /\ w.parent = 0 THEN d + w.at ELSE t.head
        /\ w.at = 1 => w.parent = 0
        /\ w.at # 1 => w.parent \in 1..Len(t.nodes)
    BY DEF Inserted, InsertsAt, AddAt, Chained
  <1>4. Begins(w.key, 0) = <<>>
    BY <1>1, BeginsNone
  <1>5. CASE w.at = 1
    <2>1. Begins(w.key, w.at - 1) = <<>>
      BY <1>4, <1>5
    <2> QED
      BY <1>2, <1>3, <1>5, <2>1, LevelHead
  <1>6. CASE w.at # 1
    <2>1. u.head = t.head
      BY <1>1, <1>3, <1>6
    <2>2. ASSUME NEW n \in w.at..Len(w.key)
          PROVE  Begins(w.key, n - 1) # <<>>
      <3>1. n - 1 \in 0..Len(w.key) /\ n - 1 # 0
        BY <1>1, <1>6
      <3>2. Len(Begins(w.key, n - 1)) = n - 1
        BY <1>1, <3>1, BeginsIs
      <3> QED
        BY <3>1, <3>2
    <2>3. FirstFrom(u, after, t.head, <<>>, 0)
      BY <1>1, <1>2, <2>2, FirstKept, SMTT(30)
    <2> QED
      BY <2>1, <2>3
  <1> QED
    BY <1>5, <1>6

LEMMA DownInserted ==
    ASSUME NEW t, NEW u, NEW w, NEW before, NEW after, NEW keys, NEW value, NEW d,
           Inserted(t, u, w, before, after, keys, value, d), NEW x \in 1..Len(t.nodes)
    PROVE  FirstFrom(u, after, u.nodes[x].down, Spelled(t, before, x), 0)
  <1>1. /\ w.key \in Seq(Nat) /\ w.at \in 1..Len(w.key) /\ w.parent \in 0..Len(t.nodes)
        /\ Extends(t, u, before, after, w.key, w.at, d) /\ LevelsSorted(t, before)
        /\ \A y \in 1..Len(t.nodes) : t.nodes[y].c \in Nat /\ before[y] \in Seq(Nat)
    BY InsertedParts
  <1>2. FirstFrom(t, before, t.nodes[x].down, Spelled(t, before, x), 0)
    BY <1>1 DEF LevelsSorted
  <1>3. /\ u.nodes[x].down = IF w.prev = 0 /\ x = w.parent THEN d + w.at ELSE t.nodes[x].down
        /\ w.at = 1 => w.parent = 0
        /\ w.at # 1 => w.parent \in 1..Len(t.nodes) /\ Spelled(t, before, w.parent) = Begins(w.key, w.at - 1)
    BY DEF Inserted, InsertsAt, AddAt, Chained
  <1>4. CASE Spelled(t, before, x) = Begins(w.key, w.at - 1)
    <2>1. w.at # 1
      <3>1. Spelled(t, before, x) # <<>>
        <4>1. before[x] \in Seq(Nat) /\ t.nodes[x].c \in Nat
          BY <1>1
        <4>2. \A s \in Seq(Nat) : \A a \in Nat : Append(s, a) # <<>>
          BY AppendProperties
        <4> QED
          BY <4>1, <4>2, Zenon DEF Spelled
      <3>2. Begins(w.key, 0) = <<>>
        BY <1>1, BeginsNone
      <3> QED
        BY <1>4, <3>1, <3>2
    <2>2. Append(before[x], t.nodes[x].c) = Append(before[w.parent], t.nodes[w.parent].c)
      BY <1>3, <1>4, <2>1 DEF Spelled
    <2>3. /\ before[x] \in Seq(Nat) /\ t.nodes[x].c \in Nat /\ w.parent \in 1..Len(t.nodes)
          /\ before[w.parent] \in Seq(Nat) /\ t.nodes[w.parent].c \in Nat
      BY <1>1, <1>3, <2>1
    <2>4. before[x] = before[w.parent] /\ t.nodes[x].c = t.nodes[w.parent].c
      <3>1. PICK s \in Seq(Nat), r \in Seq(Nat), a \in Nat, b \in Nat :
                s = before[x] /\ r = before[w.parent] /\ a = t.nodes[x].c /\ b = t.nodes[w.parent].c
        BY <2>3
      <3>2. Append(s, a) = Append(r, b)
        BY <2>2, <3>1
      <3>3. s = r /\ a = b
        BY <3>2, AppendParts
      <3> QED
        BY <3>1, <3>3
    <2>5. x = w.parent
      BY <1>1, <2>3, <2>4 DEF LevelsSorted
    <2>6. FirstFrom(t, before, t.nodes[x].down, Begins(w.key, w.at - 1), 0)
      BY <1>2, <1>4
    <2> QED
      BY <1>3, <1>4, <2>5, <2>6, LevelHead
  <1>5. CASE Spelled(t, before, x) # Begins(w.key, w.at - 1)
    <2>1. u.nodes[x].down = t.nodes[x].down
      BY <1>1, <1>3, <1>5
    <2>2. ASSUME NEW n \in w.at..Len(w.key)
          PROVE  Begins(w.key, n - 1) # Spelled(t, before, x)
      <3>1. CASE n = w.at
        BY <1>5, <3>1
      <3>2. CASE n # w.at
        BY <3>2, ChainLevels
      <3> QED
        BY <3>1, <3>2
    <2>3. FirstFrom(u, after, t.nodes[x].down, Spelled(t, before, x), 0)
      BY <1>1, <1>2, <2>2, FirstKept
    <2> QED
      BY <2>1, <2>3
  <1> QED
    BY <1>4, <1>5

LEMMA NextInserted ==
    ASSUME NEW t, NEW u, NEW w, NEW before, NEW after, NEW keys, NEW value, NEW d,
           Inserted(t, u, w, before, after, keys, value, d), NEW x \in 1..Len(t.nodes)
    PROVE  FirstFrom(u, after, u.nodes[x].next, before[x], t.nodes[x].c + 1)
  <1>1. PICK N \in Nat, k \in Seq(Nat), at \in Nat, c \in Nat, level \in {Begins(w.key, w.at - 1)} :
            /\ N = Len(t.nodes) /\ k = w.key /\ at = w.at /\ c = k[at] /\ level = Begins(k, at - 1)
            /\ at \in at..Len(k)
    <2>1. /\ Len(t.nodes) \in Nat /\ w.key \in Seq(Nat) /\ w.at \in 1..Len(w.key)
          /\ w.key[w.at] \in Nat /\ w.at \in w.at..Len(w.key)
      BY InsertedParts
    <2> QED
      BY <2>1, SMTT(30)
  <1>2. /\ w.prev \in 0..N /\ w.cur \in 0..N /\ Extends(t, u, before, after, k, at, d)
        /\ \A y \in 1..N : t.nodes[y].c \in Nat
        /\ LevelsSorted(t, before)
    BY <1>1, InsertedParts
  <1>3. /\ w.cur # 0 => before[w.cur] = level /\ c < t.nodes[w.cur].c
        /\ w.prev # 0 => before[w.prev] = level /\ t.nodes[w.prev].c < c
        /\ \A y \in 1..N : before[y] = level => \/ w.cur # 0 /\ t.nodes[w.cur].c <= t.nodes[y].c
                                                \/ w.prev # 0 /\ t.nodes[y].c <= t.nodes[w.prev].c
    BY <1>1 DEF Inserted, InsertsAt, InPlace
  <1>4. u.nodes[x].next = IF x = w.prev THEN d + at ELSE t.nodes[x].next
    BY <1>1 DEF Inserted, Chained
  <1>5. PICK e \in Nat : e = t.nodes[x].c
    BY <1>1, <1>2
  <1>6. FirstFrom(t, before, t.nodes[x].next, before[x], e + 1)
    BY <1>2, <1>5 DEF LevelsSorted
  <1>7. CASE x = w.prev
    <2>1. x # 0 /\ before[x] = level /\ e < c
      BY <1>1, <1>3, <1>5, <1>7
    <2>2. ASSUME NEW y \in 1..N, before[y] = level, t.nodes[y].c >= e + 1
          PROVE  c <= t.nodes[y].c
      <3>1. PICK f \in Nat : f = t.nodes[y].c
        BY <1>2
      <3>2. ~(f <= e)
        BY <2>2, <3>1
      <3>3. w.cur # 0 /\ t.nodes[w.cur].c <= f /\ c < t.nodes[w.cur].c
        BY <1>3, <1>5, <1>7, <2>2, <3>1, <3>2
      <3>4. t.nodes[w.cur].c \in Nat
        BY <1>2, <3>3
      <3> QED
        BY <3>1, <3>3, <3>4, SMTT(30)
    <2>3. e + 1 <= k[at] /\ e + 1 \in Nat
      BY <1>1, <2>1
    <2>4. FirstFrom(u, after, d + at, Begins(k, at - 1), e + 1)
      BY <1>1, <1>2, <2>2, <2>3, FirstIsChain
    <2> QED
      BY <1>1, <1>4, <1>5, <1>7, <2>1, <2>4
  <1>8. CASE x # w.prev
    <2>1. ASSUME NEW n \in at..Len(k), Begins(k, n - 1) = before[x]
          PROVE  k[n] < e + 1 \/ (t.nodes[x].next # 0 /\ t.nodes[t.nodes[x].next].c <= k[n])
      <3>1. n = at
        BY <1>1, <2>1, ChainLevels, SMTT(30)
      <3>2. before[x] = level /\ k[n] = c
        BY <1>1, <2>1, <3>1
      <3>3. CASE e >= c
        BY <3>2, <3>3
      <3>4. CASE e < c
        <4>1. w.prev # 0 /\ e <= t.nodes[w.prev].c
          <5>1. ~(w.cur # 0 /\ t.nodes[w.cur].c <= e)
            <6> SUFFICES ASSUME w.cur # 0, t.nodes[w.cur].c <= e
                         PROVE  FALSE
              OBVIOUS
            <6>1. t.nodes[w.cur].c \in Nat /\ c < t.nodes[w.cur].c
              BY <1>2, <1>3
            <6> QED
              BY <3>4, <6>1
          <5> QED
            BY <1>1, <1>3, <1>5, <3>2, <5>1
        <4>2. PICK p \in 1..N : p = w.prev
          BY <1>2, <4>1
        <4>3. PICK f \in Nat : f = t.nodes[p].c
          BY <1>2
        <4>4. before[p] = level /\ f < c
          BY <1>3, <4>1, <4>2, <4>3
        <4>5. e # f
          <5>1. e = f => x = p
            BY <1>1, <1>2, <1>5, <3>2, <4>3, <4>4 DEF LevelsSorted
          <5> QED
            BY <1>8, <4>2, <5>1
        <4>6. f >= e + 1 /\ ~(f < e + 1)
          <5>1. f \in Nat /\ e \in Nat /\ e <= f /\ e # f
            BY <4>1, <4>2, <4>3, <4>5
          <5> QED
            BY <5>1
        <4>7. PICK h : h = t.nodes[x].next
          OBVIOUS
        <4>8. h # 0 /\ h \in 0..N /\ t.nodes[h].c <= f
          BY <1>1, <1>6, <3>2, <4>3, <4>4, <4>6, <4>7 DEF FirstFrom
        <4>9. PICK g \in Nat : g = t.nodes[h].c
          BY <1>2, <4>8
        <4>10. g <= c
          BY <4>4, <4>8, <4>9
        <4> QED
          BY <3>2, <4>7, <4>8, <4>9, <4>10
      <3> QED
        BY <3>3, <3>4
    <2>2. e + 1 \in Nat
      OBVIOUS
    <2>3. FirstFrom(u, after, t.nodes[x].next, before[x], e + 1)
      <3>1. PICK h, place, from : h = t.nodes[x].next /\ place = before[x] /\ from = e + 1 /\ from \in Nat
        BY <2>2
      <3>2. /\ FirstFrom(t, before, h, place, from)
            /\ \A n \in at..Len(k) :
                  Begins(k, n - 1) = place => k[n] < from \/ (h # 0 /\ t.nodes[h].c <= k[n])
        BY <1>6, <2>1, <3>1
      <3>3. FirstFrom(u, after, h, place, from)
        BY <1>2, <3>1, <3>2, FirstKept, SMTT(30)
      <3> QED
        BY <3>1, <3>3
    <2> QED
      BY <1>4, <1>5, <1>8, <2>3
  <1> QED
    BY <1>7, <1>8

(* The nodes of the chain. *)
LEMMA ChainInserted ==
    ASSUME NEW t, NEW u, NEW w, NEW before, NEW after, NEW keys, NEW value, NEW d,
           Inserted(t, u, w, before, after, keys, value, d), NEW n \in w.at..Len(w.key)
    PROVE  /\ FirstFrom(u, after, u.nodes[d + n].down, Begins(w.key, n), 0)
           /\ FirstFrom(u, after, u.nodes[d + n].next, Begins(w.key, n - 1), w.key[n] + 1)
  <1>1. PICK N \in Nat, k \in Seq(Nat), at \in Nat, c \in Nat, level \in {Begins(w.key, w.at - 1)} :
            /\ N = Len(t.nodes) /\ k = w.key /\ at = w.at /\ c = k[at] /\ level = Begins(k, at - 1)
            /\ 1 <= at /\ at \in at..Len(k) /\ Len(k) \in Nat
    <2>1. /\ Len(t.nodes) \in Nat /\ w.key \in Seq(Nat) /\ w.at \in 1..Len(w.key)
          /\ w.key[w.at] \in Nat /\ w.at \in w.at..Len(w.key)
      BY InsertedParts
    <2> QED
      BY <2>1, SMTT(30)
  <1>2. /\ w.prev \in 0..N /\ w.cur \in 0..N /\ Extends(t, u, before, after, k, at, d)
        /\ \A y \in 1..N : t.nodes[y].c \in Nat
    BY <1>1, InsertedParts
  <1>3. /\ u.nodes[d + n].next = IF n = at THEN w.cur ELSE 0
        /\ u.nodes[d + n].down = IF n < Len(k) THEN d + n + 1 ELSE 0
    BY <1>1 DEF Inserted, Chained
  <1>a. \A m \in at..Len(k) : m \in 1..Len(k) /\ k[m] \in Nat
    BY <1>1, SMTT(30)
  <1>4. n \in Int /\ at <= n /\ n <= Len(k) /\ k[n] \in Nat
    BY <1>1, <1>a
  <1>5. \A y \in 1..N : before[y] # Begins(k, n)
    BY <1>1, NothingBelow DEF Inserted
  <1>6. FirstFrom(u, after, u.nodes[d + n].down, Begins(k, n), 0)
    <2>1. CASE n < Len(k)
      <3>a. \A from, to, i \in Int : from <= i /\ i < to => i + 1 \in from..to
        OBVIOUS
      <3>b. n + 1 \in at..Len(k)
        BY <1>1, <1>4, <2>1, <3>a
      <3>1. PICK m \in at..Len(k) : m = n + 1
        BY <3>b, Zenon
      <3>2. m - 1 = n /\ d + n + 1 = d + m
        BY <1>2, <1>4, <3>1 DEF Extends
      <3>3. 0 <= k[m] /\ 0 \in Nat
        BY <1>a
      <3>4. \A y \in 1..N : before[y] # Begins(k, m - 1)
        BY <1>5, <3>2
      <3>5. FirstFrom(u, after, d + m, Begins(k, m - 1), 0)
        BY <1>1, <1>2, <3>3, <3>4, FirstIsChain
      <3> QED
        BY <1>3, <2>1, <3>2, <3>5
    <2>2. CASE ~(n < Len(k))
      <3>1. n = Len(k)
        BY <1>4, <2>2
      <3>2. Begins(k, n) = k
        BY <3>1, BeginsAll
      <3>3. FirstFrom(t, before, 0, k, 0)
        BY <1>1, <1>5, <3>2 DEF FirstFrom
      <3>4. \A m \in at..Len(k) : Begins(k, m - 1) # k
        BY <1>1, ChainLevels
      <3>5. FirstFrom(u, after, 0, k, 0)
        BY <1>2, <3>3, <3>4, FirstKept
      <3> QED
        BY <1>3, <2>2, <3>2, <3>5
    <2> QED
      BY <2>1, <2>2
  <1>7. FirstFrom(u, after, u.nodes[d + n].next, Begins(k, n - 1), k[n] + 1)
    <2>1. ASSUME NEW m \in at..Len(k), Begins(k, m - 1) = Begins(k, n - 1)
          PROVE  k[m] < k[n] + 1
      <3>1. m = n
        BY <1>1, <2>1, ChainLevels
      <3> QED
        BY <1>4, <3>1
    <2>2. k[n] + 1 \in Nat
      BY <1>4
    <2>3. FirstFrom(t, before, u.nodes[d + n].next, Begins(k, n - 1), k[n] + 1)
      <3>1. CASE n # at
        <4>1. \A y \in 1..N : before[y] # Begins(k, n - 1)
          BY <1>1, <3>1, ChainLevels, SMTT(30)
        <4> QED
          BY <1>1, <1>3, <3>1, <4>1 DEF FirstFrom
      <3>2. CASE n = at
        <4>1. /\ w.cur # 0 => before[w.cur] = level /\ c < t.nodes[w.cur].c
              /\ w.prev # 0 => before[w.prev] = level /\ t.nodes[w.prev].c < c
              /\ \A y \in 1..N : before[y] = level => \/ w.cur # 0 /\ t.nodes[w.cur].c <= t.nodes[y].c
                                                      \/ w.prev # 0 /\ t.nodes[y].c <= t.nodes[w.prev].c
          BY <1>1 DEF Inserted, InsertsAt, InPlace
        <4>2. ASSUME NEW y \in 1..N, before[y] = level, ~(w.cur # 0 /\ t.nodes[w.cur].c <= t.nodes[y].c)
              PROVE  t.nodes[y].c < c + 1
          <5>1. w.prev # 0 /\ t.nodes[y].c <= t.nodes[w.prev].c /\ t.nodes[w.prev].c < c
            BY <4>1, <4>2
          <5>2. t.nodes[y].c \in Nat /\ t.nodes[w.prev].c \in Nat
            BY <1>2, <5>1
          <5> QED
            BY <5>1, <5>2
        <4>3. CASE w.cur = 0
          <5>1. FirstFrom(t, before, 0, level, c + 1)
            BY <1>1, <4>2, <4>3 DEF FirstFrom
          <5> QED
            BY <1>1, <1>3, <3>2, <4>3, <5>1
        <4>4. CASE w.cur # 0
          <5>1. t.nodes[w.cur].c >= c + 1
            <6>1. t.nodes[w.cur].c \in Nat
              BY <1>2, <4>4
            <6> QED
              BY <4>1, <4>4, <6>1
          <5>2. ASSUME NEW y \in 1..N, before[y] = level, t.nodes[y].c >= c + 1
                PROVE  t.nodes[w.cur].c <= t.nodes[y].c
            <6>1. t.nodes[y].c \in Nat
              BY <1>2
            <6>2. ~(t.nodes[y].c < c + 1)
              BY <5>2, <6>1
            <6> QED
              BY <4>2, <5>2, <6>2
          <5>3. FirstFrom(t, before, w.cur, level, c + 1)
            BY <1>1, <1>2, <4>1, <4>4, <5>1, <5>2 DEF FirstFrom
          <5> QED
            BY <1>1, <1>3, <3>2, <5>3
        <4> QED
          BY <4>3, <4>4
      <3> QED
        BY <3>1, <3>2
    <2> QED
      BY <1>2, <2>1, <2>2, <2>3, FirstKept, SMTT(30)
  <1> QED
    BY <1>1, <1>6, <1>7

(* What a node of the new trie spells. *)
LEMMA SpelledInserted ==
    ASSUME NEW t, NEW u, NEW w, NEW before, NEW after, NEW keys, NEW value, NEW d,
           Inserted(t, u, w, before, after, keys, value, d)
    PROVE  /\ \A x \in 1..Len(t.nodes) : Spelled(u, after, x) = Spelled(t, before, x)
           /\ \A n \in w.at..Len(w.key) : Spelled(u, after, d + n) = Begins(w.key, n)
  <1>1. Extends(t, u, before, after, w.key, w.at, d)
    BY InsertedParts
  <1>2. \A x \in 1..Len(t.nodes) : Spelled(u, after, x) = Spelled(t, before, x)
    BY <1>1 DEF Extends, Spelled
  <1>3. ASSUME NEW n \in w.at..Len(w.key)
        PROVE  Spelled(u, after, d + n) = Begins(w.key, n)
    <2>1. after[d + n] = Begins(w.key, n - 1) /\ u.nodes[d + n].c = w.key[n]
      BY <1>1 DEF Extends
    <2>2. Begins(w.key, n) = Append(Begins(w.key, n - 1), w.key[n])
      BY ChainLevels
    <2> QED
      BY <2>1, <2>2 DEF Spelled
  <1> QED
    BY <1>2, <1>3

LEMMA SortedInserted ==
    ASSUME NEW t, NEW u, NEW w, NEW before, NEW after, NEW keys, NEW value, NEW d,
           Inserted(t, u, w, before, after, keys, value, d)
    PROVE  LevelsSorted(u, after)
  <1>1. /\ Extends(t, u, before, after, w.key, w.at, d) /\ LevelsSorted(t, before)
    BY InsertedParts
  <1>2. /\ \A y \in 1..Len(u.nodes) : y \in 1..Len(t.nodes) \/ \E n \in w.at..Len(w.key) : y = d + n
        /\ \A x \in 1..Len(t.nodes) : after[x] = before[x] /\ u.nodes[x].c = t.nodes[x].c
        /\ \A n \in w.at..Len(w.key) : after[d + n] = Begins(w.key, n - 1) /\ u.nodes[d + n].c = w.key[n]
    BY <1>1, OldOrChain DEF Extends
  <1>3. FirstFrom(u, after, u.head, <<>>, 0)
    BY HeadInserted
  <1>4. ASSUME NEW x \in 1..Len(u.nodes)
        PROVE  /\ FirstFrom(u, after, u.nodes[x].down, Spelled(u, after, x), 0)
               /\ FirstFrom(u, after, u.nodes[x].next, after[x], u.nodes[x].c + 1)
    <2>1. CASE x \in 1..Len(t.nodes)
      <3>1. /\ FirstFrom(u, after, u.nodes[x].down, Spelled(t, before, x), 0)
            /\ FirstFrom(u, after, u.nodes[x].next, before[x], t.nodes[x].c + 1)
        BY <2>1, DownInserted, NextInserted
      <3>2. Spelled(u, after, x) = Spelled(t, before, x)
        BY <2>1, SpelledInserted
      <3> QED
        BY <1>2, <2>1, <3>1, <3>2
    <2>2. CASE \E n \in w.at..Len(w.key) : x = d + n
      <3>1. PICK n \in w.at..Len(w.key) : x = d + n
        BY <2>2
      <3>2. /\ FirstFrom(u, after, u.nodes[d + n].down, Begins(w.key, n), 0)
            /\ FirstFrom(u, after, u.nodes[d + n].next, Begins(w.key, n - 1), w.key[n] + 1)
        BY ChainInserted
      <3>3. Spelled(u, after, d + n) = Begins(w.key, n)
        BY SpelledInserted
      <3> QED
        BY <1>2, <3>1, <3>2, <3>3
    <2> QED
      BY <1>2, <2>1, <2>2
  <1>5. ASSUME NEW x \in 1..Len(t.nodes), NEW n \in w.at..Len(w.key)
        PROVE  ~(before[x] = Begins(w.key, n - 1) /\ t.nodes[x].c = w.key[n])
    <2>1. CASE n = w.at
      BY <2>1, NotInLevel DEF Inserted
    <2>2. CASE n # w.at
      BY <2>2, ChainLevels
    <2> QED
      BY <2>1, <2>2
  <1>6. ASSUME NEW x \in 1..Len(u.nodes), NEW y \in 1..Len(u.nodes),
               after[x] = after[y], u.nodes[x].c = u.nodes[y].c
        PROVE  x = y
    <2>1. CASE x \in 1..Len(t.nodes) /\ y \in 1..Len(t.nodes)
      BY <1>1, <1>2, <1>6, <2>1 DEF LevelsSorted
    <2>2. CASE x \in 1..Len(t.nodes) /\ \E n \in w.at..Len(w.key) : y = d + n
      BY <1>2, <1>5, <1>6, <2>2, SMTT(30)
    <2>3. CASE y \in 1..Len(t.nodes) /\ \E n \in w.at..Len(w.key) : x = d + n
      BY <1>2, <1>5, <1>6, <2>3
    <2>4. CASE (\E n \in w.at..Len(w.key) : x = d + n) /\ \E n \in w.at..Len(w.key) : y = d + n
      <3>1. PICK n \in w.at..Len(w.key), m \in w.at..Len(w.key) : x = d + n /\ y = d + m
        BY <2>4
      <3>2. Begins(w.key, n - 1) = Begins(w.key, m - 1)
        BY <1>2, <1>6, <3>1
      <3>3. n = m
        BY <3>2, ChainLevels
      <3> QED
        BY <3>1, <3>3
    <2> QED
      BY <1>2, <2>1, <2>2, <2>3, <2>4
  <1> QED
    BY <1>3, <1>4, <1>6 DEF LevelsSorted

LEMMA BeginningsInserted ==
    ASSUME NEW t, NEW u, NEW w, NEW before, NEW after, NEW keys, NEW value, NEW d,
           Inserted(t, u, w, before, after, keys, value, d)
    PROVE  NodesAreBeginnings(u, after, Append(keys, w.key))
  <1>1. /\ Extends(t, u, before, after, w.key, w.at, d) /\ keys \in Seq(Seq(Nat))
        /\ w.key \in Seq(Nat) /\ w.at \in 1..Len(w.key)
        /\ TrieShape(t, before, keys) /\ AddAt(t, w, before) /\ TrieNodes(t)
    BY InsertedParts DEF Inserted, InsertsAt, Inserting
  <1>2. /\ \A y \in 1..Len(u.nodes) : y \in 1..Len(t.nodes) \/ \E n \in w.at..Len(w.key) : y = d + n
        /\ \A y \in 1..Len(t.nodes) : y \in 1..Len(u.nodes)
        /\ \A n \in w.at..Len(w.key) : d + n \in 1..Len(u.nodes)
        /\ \A x \in 1..Len(t.nodes) : after[x] = before[x] /\ u.nodes[x].c = t.nodes[x].c
        /\ \A n \in w.at..Len(w.key) : after[d + n] = Begins(w.key, n - 1) /\ u.nodes[d + n].c = w.key[n]
    <2>1. /\ \A y \in 1..Len(u.nodes) : y \in 1..Len(t.nodes) \/ \E n \in w.at..Len(w.key) : y = d + n
          /\ \A y \in 1..Len(t.nodes) : y \in 1..Len(u.nodes)
          /\ \A n \in w.at..Len(w.key) : d + n \in 1..Len(u.nodes)
      <3>1. Extends(t, u, before, after, w.key, w.at, d)
        BY <1>1
      <3>2. \A n \in w.at..Len(w.key) : d + n \in 1..Len(u.nodes) /\ d + n \notin 1..Len(t.nodes)
        BY <3>1, OldOrChain
      <3>3. \A y \in 1..Len(u.nodes) : y \in 1..Len(t.nodes) \/ \E n \in w.at..Len(w.key) : y = d + n
        BY <3>1, OldOrChain
      <3>4. \A y \in 1..Len(t.nodes) : y \in 1..Len(u.nodes)
        BY <3>1, OldOrChain
      <3> QED
        BY <3>2, <3>3, <3>4
    <2>2. /\ \A x \in 1..Len(t.nodes) : after[x] = before[x] /\ u.nodes[x].c = t.nodes[x].c
          /\ \A n \in w.at..Len(w.key) : after[d + n] = Begins(w.key, n - 1) /\ u.nodes[d + n].c = w.key[n]
      BY <1>1, Zenon DEF Extends
    <2> QED
      BY <2>1, <2>2
  <1>3. PICK ks : ks = Append(keys, w.key)
    OBVIOUS
  <1>4. /\ Len(ks) = Len(keys) + 1 /\ Len(keys) \in Nat
        /\ ks[Len(keys) + 1] = w.key /\ \A i \in 1..Len(keys) : ks[i] = keys[i]
    BY <1>1, <1>3
  <1>5. Len(keys) + 1 \in 1..Len(ks) /\ \A i \in 1..Len(keys) : i \in 1..Len(ks)
    BY <1>4
  <1>6. ASSUME NEW x \in 1..Len(u.nodes)
        PROVE  BeginsAKey(u, after, x, ks)
    <2>1. CASE x \in 1..Len(t.nodes)
      <3>1. PICK i \in 1..Len(keys) : \E n \in 1..Len(keys[i]) : Spelled(t, before, x) = Begins(keys[i], n)
        BY <1>1, <2>1 DEF TrieShape, NodesAreBeginnings, BeginsAKey
      <3>2. Spelled(u, after, x) = Spelled(t, before, x)
        BY <2>1, SpelledInserted
      <3> QED
        BY <1>4, <1>5, <3>1, <3>2 DEF BeginsAKey
    <2>2. CASE \E n \in w.at..Len(w.key) : x = d + n
      <3>1. PICK n \in w.at..Len(w.key) : x = d + n
        BY <2>2
      <3>2. n \in 1..Len(w.key)
        BY ChainLevels
      <3>3. Spelled(u, after, x) = Begins(w.key, n)
        BY <3>1, SpelledInserted
      <3> QED
        BY <1>4, <1>5, <3>2, <3>3 DEF BeginsAKey
    <2> QED
      BY <1>2, <2>1, <2>2
  <1>7. ASSUME NEW i \in 1..Len(ks), NEW n \in 1..Len(ks[i])
        PROVE  \E x \in 1..Len(u.nodes) : after[x] = Begins(ks[i], n - 1) /\ u.nodes[x].c = ks[i][n]
    <2>1. CASE i \in 1..Len(keys)
      <3>1. ks[i] = keys[i]
        BY <1>4, <2>1
      <3>2. PICK x \in 1..Len(t.nodes) : before[x] = Begins(keys[i], n - 1) /\ t.nodes[x].c = keys[i][n]
        BY <1>1, <2>1, <3>1 DEF TrieShape, NodesAreBeginnings
      <3> QED
        BY <1>2, <3>1, <3>2
    <2>2. CASE i = Len(keys) + 1
      <3>1. ks[i] = w.key /\ n \in 1..Len(w.key)
        BY <1>4, <2>2
      <3>2. CASE n \in w.at..Len(w.key)
        BY <1>2, <3>1, <3>2, SMTT(30)
      <3>3. CASE n \notin w.at..Len(w.key)
        <4>1. n < w.at /\ w.at # 1
          BY <1>1, <3>1, <3>3
        <4>2. w.parent \in 1..Len(t.nodes) /\ Spelled(t, before, w.parent) = Begins(w.key, w.at - 1)
          BY <1>1, <4>1 DEF AddAt
        <4>3. w.at - 1 \in 1..Len(w.key) /\ n \in 1..w.at - 1
          BY <1>1, <3>1, <4>1
        <4>4. PICK y \in 1..Len(t.nodes) : before[y] = Begins(w.key, n - 1) /\ t.nodes[y].c = w.key[n]
          <5>1. PICK k \in Seq(Nat), p \in {w.parent}, m \in {w.at - 1} : k = w.key /\ p = w.parent /\ m = w.at - 1
            BY <1>1
          <5>2. /\ m \in 1..Len(k) /\ n \in 1..m /\ p \in 1..Len(t.nodes)
                /\ Spelled(t, before, p) = Begins(k, m)
            BY <4>2, <4>3, <5>1
          <5>3. \E y \in 1..Len(t.nodes) : before[y] = Begins(k, n - 1) /\ t.nodes[y].c = k[n]
            <6>1. TrieNodes(t) /\ keys \in Seq(Seq(Nat)) /\ TrieShape(t, before, keys)
              BY <1>1
            <6>2. HasNode(t, before, k, n)
              BY <5>2, <6>1, AllBefore
            <6> QED
              BY <6>2 DEF HasNode
          <5> QED
            BY <5>1, <5>3
        <4> QED
          BY <1>2, <3>1, <4>4
      <3> QED
        BY <3>2, <3>3
    <2> QED
      BY <1>4, <2>1, <2>2
  <1> QED
    BY <1>3, <1>6, <1>7 DEF NodesAreBeginnings

LEMMA ShapeInserted ==
    ASSUME NEW t, NEW u, NEW w, NEW before, NEW after, NEW keys, NEW value, NEW d,
           Inserted(t, u, w, before, after, keys, value, d)
    PROVE  TrieShape(u, after, Append(keys, w.key))
  <1>1. after \in [1..Len(u.nodes) -> Seq(Nat)]
    BY DEF Inserted
  <1> QED
    BY <1>1, SortedInserted, BeginningsInserted DEF TrieShape

-----------------------------------------------------------------------------
LEMMA HasGreatest ==
    ASSUME NEW n \in Nat, NEW S \in SUBSET (1..n), S # {}
    PROVE  \E x \in S : \A y \in S : y <= x
  <1> DEFINE D == {n - x : x \in S}
  <1>1. D \in SUBSET Nat /\ D # {}
    <2>1. \A x \in S : n - x \in Nat
      OBVIOUS
    <2>2. PICK x : x \in S
      OBVIOUS
    <2>3. n - x \in D
      BY <2>2
    <2> QED
      BY <2>1, <2>3
  <1>2. PICK m \in D : \A z \in D : m <= z
    <2> HIDE DEF D
    <2> QED
      BY <1>1, HasLeast
  <1>3. PICK x \in S : m = n - x
    OBVIOUS
  <1>4. ASSUME NEW y \in S
        PROVE  y <= x
    <2>1. m <= n - y
      BY <1>2
    <2> QED
      BY <1>3, <2>1
  <1> QED
    BY <1>4

LEMMA KeysAreStrings == Seq(TrieKeys) \subseteq Seq(Seq(Nat)) /\ \A k \in TrieKeys : k \in Seq(Nat) /\ Len(k) >= 1
  <1>1. TrieKeys \subseteq Seq(Nat)
    BY TrieAssumption
  <1>2. ASSUME NEW k \in TrieKeys
        PROVE  k \in Seq(Nat) /\ Len(k) >= 1
    BY TrieAssumption, EmptySeq
  <1>3. ASSUME NEW s \in Seq(TrieKeys)
        PROVE  s \in Seq(Seq(Nat))
    BY <1>1
  <1> QED
    BY <1>2, <1>3

LEMMA ValueIs ==
    ASSUME stored \in Seq(TrieKeys), NEW k
    PROVE  /\ (\A i \in 1..Len(stored) : stored[i] # k) => ValueOf(k) = 0
           /\ ValueOf(k) # 0 => ValueOf(k) \in 1..Len(stored) /\ stored[ValueOf(k)] = k
  <1> DEFINE adds == {i \in 1..Len(stored) : stored[i] = k}
  <1>1. ValueOf(k) = IF adds = {} THEN 0 ELSE CHOOSE i \in adds : \A j \in adds : j <= i
    BY DEF ValueOf
  <1>2. CASE adds = {}
    BY <1>1, <1>2
  <1>3. CASE adds # {}
    <2>1. Len(stored) \in Nat /\ adds \in SUBSET (1..Len(stored))
      OBVIOUS
    <2> HIDE DEF adds
    <2>2. \E i \in adds : \A j \in adds : j <= i
      BY <1>3, <2>1, HasGreatest
    <2>3. ValueOf(k) \in adds
      BY <1>1, <1>3, <2>2, Zenon
    <2> QED
      BY <2>3 DEF adds
  <1> QED
    BY <1>2, <1>3

LEMMA ValueAppended ==
    ASSUME stored \in Seq(TrieKeys), NEW k \in TrieKeys, stored' = Append(stored, k), NEW r
    PROVE  ValueOf(r)' = IF r = k THEN Len(stored) + 1 ELSE ValueOf(r)
  <1> DEFINE n == Len(stored) + 1
             adds == {i \in 1..Len(stored) : stored[i] = r}
             more == {i \in 1..Len(stored') : stored'[i] = r}
  <1>1. /\ Len(stored') = n /\ stored'[n] = k /\ \A i \in 1..Len(stored) : stored'[i] = stored[i]
        /\ Len(stored) \in Nat
    OBVIOUS
  <1>2. ValueOf(r) = IF adds = {} THEN 0 ELSE CHOOSE i \in adds : \A j \in adds : j <= i
    BY DEF ValueOf
  <1>3. ValueOf(r)' = IF more = {} THEN 0 ELSE CHOOSE i \in more : \A j \in more : j <= i
    BY DEF ValueOf
  <1>4. CASE r = k
    <2>1. n \in more /\ more \subseteq 1..n
      BY <1>1, <1>4
    <2>2. \A j \in more : j <= n
      BY <1>1, <2>1
    <2>3. \A i \in more : (\A j \in more : j <= i) => i = n
      BY <1>1, <2>1, <2>2
    <2> HIDE DEF more
    <2>4. n = CHOOSE i \in more : \A j \in more : j <= i
      BY <2>1, <2>2, <2>3
    <2> QED
      BY <1>3, <1>4, <2>1, <2>4
  <1>5. CASE r # k
    <2>1. more = adds
      BY <1>1, <1>5
    <2> QED
      BY <1>2, <1>3, <1>5, <2>1, Zenon
  <1> QED
    BY <1>4, <1>5

-----------------------------------------------------------------------------
LEMMA TrieInvInit == TrieInit => TrieInv
  <1> SUFFICES ASSUME TrieInit
               PROVE  TrieInv
    OBVIOUS
  <1>1. /\ trie = [nodes |-> <<>>, head |-> 0, keys |-> 0] /\ walk = NoWalk /\ stored = <<>>
    BY DEF TrieInit
  <1>2. TrieTypes
    <2>1. NoWalk \in WalkType
      BY DEF NoWalk, WalkType
    <2> QED
      BY <1>1, <2>1 DEF TrieTypes
  <1> DEFINE before == [x \in 1..0 |-> <<>>]
  <1>3. Len(trie.nodes) = 0 /\ Len(stored) = 0 /\ trie.head = 0 /\ 1..0 = {} /\ walk.op = "none"
    BY <1>1 DEF NoWalk
  <1>4. before \in [1..Len(trie.nodes) -> Seq(Nat)]
    BY <1>3
  <1> HIDE DEF before
  <1>5. TrieShape(trie, before, stored)
    BY <1>3, <1>4 DEF TrieShape, LevelsSorted, NodesAreBeginnings, FirstFrom
  <1>6. ValuesKept(trie, before)
    BY <1>3 DEF ValuesKept
  <1>7. WalkFits(before)
    BY <1>3 DEF WalkFits, DevicesResolve
  <1> QED
    BY <1>2, <1>5, <1>6, <1>7 DEF TrieInv

LEMMA ValueKept ==
    ASSUME stored' = stored, NEW r
    PROVE  ValueOf(r)' = ValueOf(r)
  <1> DEFINE adds == {i \in 1..Len(stored) : stored[i] = r}
  <1>1. ValueOf(r) = IF adds = {} THEN 0 ELSE CHOOSE i \in adds : \A j \in adds : j <= i
    BY DEF ValueOf
  <1> DEFINE more == {i \in 1..Len(stored') : stored'[i] = r}
  <1>2. ValueOf(r)' = IF more = {} THEN 0 ELSE CHOOSE i \in more : \A j \in more : j <= i
    BY DEF ValueOf
  <1>3. more = adds
    OBVIOUS
  <1> HIDE DEF adds, more
  <1> QED
    BY <1>1, <1>2, <1>3

(* A step of a search leaves the trie alone. *)
LEMMA TrieKept ==
    ASSUME TrieTypes, NEW before, TrieShape(trie, before, stored), ValuesKept(trie, before),
           UNCHANGED <<trie, stored>>, walk' \in WalkType, WalkFits(before)'
    PROVE  TrieInv'
  <1>1. TrieTypes'
    BY DEF TrieTypes
  <1>2. TrieShape(trie, before, stored)'
    BY Zenon
  <1>a. trie' = trie /\ stored' = stored
    OBVIOUS
  <1>b. \A r : ValueOf(r)' = ValueOf(r)
    BY <1>a, ValueKept
  <1>3. ValuesKept(trie, before)'
    BY <1>a, <1>b, Zenon DEF ValuesKept, Spelled
  <1> QED
    BY <1>1, <1>2, <1>3 DEF TrieInv

(* There is a first node once a key was added. *)
LEMMA HeadExists ==
    ASSUME TrieTypes, NEW before, TrieShape(trie, before, stored), stored # <<>>
    PROVE  trie.head # 0
  <1>1. stored \in Seq(TrieKeys) /\ Len(stored) >= 1
    BY EmptySeq DEF TrieTypes
  <1>2. 1 \in 1..Len(stored) /\ stored[1] \in Seq(Nat) /\ Len(stored[1]) >= 1 /\ 1 \in 1..Len(stored[1])
    <2>1. stored[1] \in TrieKeys
      BY <1>1
    <2>2. stored[1] \in Seq(Nat) /\ Len(stored[1]) >= 1
      BY <2>1, KeysAreStrings, Zenon
    <2> QED
      BY <1>1, <2>2
  <1>3. PICK x \in 1..Len(trie.nodes) : before[x] = Begins(stored[1], 1 - 1)
    BY <1>2 DEF TrieShape, NodesAreBeginnings
  <1>4. 1 - 1 = 0
    OBVIOUS
  <1>5. before[x] = <<>>
    BY <1>2, <1>3, <1>4, BeginsNone
  <1>6. TrieNodes(trie)
    BY DEF TrieTypes, TrieNodes
  <1>7. trie.nodes[x].c \in Nat
    BY <1>6, NodeTypes
  <1>8. FirstFrom(trie, before, trie.head, <<>>, 0)
    BY DEF TrieShape, LevelsSorted
  <1> QED
    BY <1>5, <1>7, <1>8 DEF FirstFrom

(* A walk starts in the first level. *)
LEMMA WalkStarts ==
    ASSUME NEW t, NEW before, NEW keys, TrieShape(t, before, keys), NEW w, w.key \in TrieKeys,
           w.at = 1, w.prev = 0, w.cur = t.head, Len(t.nodes) \in Nat
    PROVE  Searching(t, w, before) /\ Begins(w.key, w.at - 1) = <<>>
  <1>1. w.key \in Seq(Nat) /\ Len(w.key) >= 1
    BY KeysAreStrings, Zenon
  <1>2. 1 - 1 = 0 /\ 1 \in 1..Len(w.key)
    BY <1>1
  <1>3. Begins(w.key, w.at - 1) = <<>>
    BY <1>1, <1>2, BeginsNone
  <1>4. FirstFrom(t, before, t.head, <<>>, 0)
    BY DEF TrieShape, LevelsSorted
  <1> QED
    BY <1>2, <1>3, <1>4 DEF Searching

LEMMA TrieInvAdd ==
    ASSUME TrieInv, NEW key \in TrieKeys, TrieAdd(key)
    PROVE  TrieInv'
  <1>1. PICK before : TrieShape(trie, before, stored) /\ ValuesKept(trie, before)
    BY DEF TrieInv
  <1>2. /\ walk' = [NoWalk EXCEPT !.op = "add", !.key = key, !.level = trie.head, !.cur = trie.head]
        /\ trie' = trie /\ stored' = stored
    BY DEF TrieAdd
  <1>3. TrieTypes /\ trie.head \in Nat /\ Len(trie.nodes) \in Nat
    BY DEF TrieInv, TrieTypes
  <1>4. key \in Seq(Nat)
    BY KeysAreStrings, Zenon
  <1>5. /\ walk' \in WalkType /\ walk'.op = "add" /\ walk'.key = key /\ walk'.at = 1 /\ walk'.prev = 0
        /\ walk'.cur = trie.head /\ walk'.parent = 0
    BY <1>2, <1>3, <1>4 DEF NoWalk, WalkType
  <1>6. Searching(trie, walk', before)
    BY <1>1, <1>3, <1>5, WalkStarts
  <1>7. WalkFits(before)'
    BY <1>2, <1>5, <1>6 DEF WalkFits, AddAt, DevicesResolve
  <1> QED
    BY <1>1, <1>2, <1>3, <1>5, <1>7, TrieKept

LEMMA TrieInvGet ==
    ASSUME TrieInv, NEW key \in TrieKeys, TrieGet(key)
    PROVE  TrieInv'
  <1>1. PICK before : TrieShape(trie, before, stored) /\ ValuesKept(trie, before)
    BY DEF TrieInv
  <1>2. /\ walk' = [NoWalk EXCEPT !.op = IF trie.keys = 0 THEN "got" ELSE "get", !.key = key,
                              !.level = trie.head, !.cur = trie.head]
        /\ trie' = trie /\ stored' = stored
    BY DEF TrieGet
  <1>3. TrieTypes /\ trie.head \in Nat /\ Len(trie.nodes) \in Nat /\ (trie.keys = 0 <=> stored = <<>>)
    BY DEF TrieInv, TrieTypes
  <1>4. key \in Seq(Nat)
    BY KeysAreStrings, Zenon
  <1>5. /\ walk' \in WalkType /\ walk'.key = key /\ walk'.at = 1 /\ walk'.prev = 0
        /\ walk'.cur = trie.head /\ walk'.level = trie.head /\ walk'.value = 0
        /\ walk'.op = IF trie.keys = 0 THEN "got" ELSE "get"
    BY <1>2, <1>3, <1>4 DEF NoWalk, WalkType
  <1>6. CASE trie.keys = 0
    <2>1. stored' = <<>> /\ walk'.op = "got" /\ walk'.value = 0
      BY <1>2, <1>3, <1>5, <1>6
    <2>2. ToSet(stored') = {}
      BY <2>1 DEF ToSet
    <2>3. DevicesResolve'
      BY <2>1, <2>2 DEF DevicesResolve
    <2>4. WalkFits(before)'
      BY <2>1, <2>3 DEF WalkFits
    <2> QED
      BY <1>1, <1>2, <1>3, <1>5, <2>4, TrieKept
  <1>7. CASE trie.keys # 0
    <2>1. walk'.op = "get" /\ trie.head # 0
      BY <1>1, <1>3, <1>5, <1>7, HeadExists
    <2>2. Searching(trie, walk', before) /\ Begins(walk'.key, walk'.at - 1) = <<>>
      BY <1>1, <1>3, <1>5, WalkStarts
    <2>3. FirstFrom(trie, before, trie.head, <<>>, 0)
      BY <1>1 DEF TrieShape, LevelsSorted
    <2>4. GetAt(trie, walk', before)
      BY <1>5, <2>1, <2>2, <2>3 DEF GetAt
    <2>5. WalkFits(before)'
      BY <1>2, <2>1, <2>2, <2>4 DEF WalkFits, DevicesResolve
    <2> QED
      BY <1>1, <1>2, <1>3, <1>5, <2>5, TrieKept
  <1> QED
    BY <1>6, <1>7

-----------------------------------------------------------------------------
(* What a walk knows of the node it stands on. *)
LEMMA CurInLevel ==
    ASSUME NEW t, NEW w, NEW before, Searching(t, w, before), w.cur # 0
    PROVE  w.cur \in 1..Len(t.nodes) /\ before[w.cur] = Begins(w.key, w.at - 1)
  <1>1. PICK level : level = Begins(w.key, w.at - 1)
    OBVIOUS
  <1>2. \E c : FirstFrom(t, before, w.cur, level, c)
    BY <1>1 DEF Searching
  <1>3. PICK c : FirstFrom(t, before, w.cur, level, c)
    BY <1>2
  <1>4. w.cur \in 0..Len(t.nodes) /\ before[w.cur] = level
    BY <1>3 DEF FirstFrom
  <1> QED
    BY <1>1, <1>4

LEMMA MatchSpells ==
    ASSUME NEW t, NEW w, NEW before, Searching(t, w, before), w.cur # 0,
           t.nodes[w.cur].c = w.key[w.at]
    PROVE  Spelled(t, before, w.cur) = Begins(w.key, w.at)
  <1>1. before[w.cur] = Begins(w.key, w.at - 1)
    BY CurInLevel
  <1>2. w.key \in TrieKeys /\ w.at \in 1..Len(w.key)
    BY DEF Searching
  <1>3. w.key \in Seq(Nat)
    BY <1>2, KeysAreStrings, Zenon
  <1>4. Begins(w.key, w.at) = Append(Begins(w.key, w.at - 1), w.key[w.at])
    BY <1>2, <1>3, BeginsStep
  <1> QED
    BY <1>1, <1>4 DEF Spelled

(* The types of a walk. *)
LEMMA WalkParts ==
    ASSUME TrieInv, walk.op \in {"add", "get"}
    PROVE  /\ TrieTypes /\ TrieNodes(trie) /\ walk \in WalkType /\ stored \in Seq(TrieKeys)
           /\ stored \in Seq(Seq(Nat)) /\ Len(trie.nodes) \in Nat
           /\ \A x \in 1..Len(trie.nodes) : /\ trie.nodes[x].c \in Nat /\ trie.nodes[x].next \in Nat
                                            /\ trie.nodes[x].down \in Nat /\ trie.nodes[x].value \in Nat
           /\ walk.key \in TrieKeys /\ walk.key \in Seq(Nat) /\ Len(walk.key) >= 1
           /\ walk.at \in 1..Len(walk.key) /\ walk.key[walk.at] \in Nat
  <1>1. TrieTypes /\ walk \in WalkType /\ stored \in Seq(TrieKeys)
    BY DEF TrieInv, TrieTypes
  <1>2. TrieNodes(trie)
    BY <1>1 DEF TrieTypes, TrieNodes
  <1>3. PICK before : Searching(trie, walk, before)
    BY DEF TrieInv, WalkFits
  <1>4. walk.key \in TrieKeys /\ walk.at \in 1..Len(walk.key)
    BY <1>3 DEF Searching
  <1>5. walk.key \in Seq(Nat) /\ Len(walk.key) >= 1
    BY <1>4, KeysAreStrings, Zenon
  <1>6. walk.key[walk.at] \in Nat
    BY <1>4, <1>5
  <1>7. stored \in Seq(Seq(Nat))
    BY <1>1, KeysAreStrings, Zenon
  <1>8. /\ Len(trie.nodes) \in Nat
        /\ \A x \in 1..Len(trie.nodes) : /\ trie.nodes[x].c \in Nat /\ trie.nodes[x].next \in Nat
                                         /\ trie.nodes[x].down \in Nat /\ trie.nodes[x].value \in Nat
    BY <1>2, NodeTypes
  <1> QED
    BY <1>1, <1>2, <1>4, <1>5, <1>6, <1>7, <1>8

LEMMA TrieInvSearch ==
    ASSUME TrieInv, SearchLevel
    PROVE  TrieInv'
  <1>1. PICK before : TrieShape(trie, before, stored) /\ ValuesKept(trie, before) /\ WalkFits(before)
    BY DEF TrieInv
  <1>2. walk.op \in {"add", "get"} /\ trie' = trie /\ stored' = stored
    BY DEF TrieInv, TrieTypes, WalkType, SearchLevel, NoCallRuns
  <1>3. /\ walk.cur # 0 /\ trie.nodes[walk.cur].c < walk.key[walk.at]
        /\ walk' = [walk EXCEPT !.prev = walk.cur, !.cur = trie.nodes[walk.cur].next]
    BY DEF SearchLevel, Before, Char
  <1>4. TrieTypes /\ walk \in WalkType /\ walk.key \in TrieKeys /\ walk.at \in 1..Len(walk.key)
    BY <1>2, WalkParts
  <1>5. Searching(trie, walk, before)
    BY <1>1, <1>2 DEF WalkFits
  <1>6. walk.cur \in 1..Len(trie.nodes) /\ before[walk.cur] = Begins(walk.key, walk.at - 1)
    BY <1>3, <1>5, CurInLevel
  <1>7. FirstFrom(trie, before, trie.nodes[walk.cur].next, before[walk.cur], trie.nodes[walk.cur].c + 1)
    BY <1>1, <1>6 DEF TrieShape, LevelsSorted
  <1>8. trie.nodes[walk.cur].next \in Nat /\ walk.cur \in 0..Len(trie.nodes) /\ walk.cur \in Nat
    BY <1>2, <1>6, WalkParts
  <1>9. /\ walk' \in WalkType /\ walk'.op = walk.op /\ walk'.key = walk.key /\ walk'.at = walk.at
        /\ walk'.prev = walk.cur /\ walk'.cur = trie.nodes[walk.cur].next
        /\ walk'.parent = walk.parent /\ walk'.level = walk.level
    BY <1>3, <1>4, <1>8 DEF WalkType
  <1>10. Searching(trie, walk', before)
    BY <1>3, <1>4, <1>6, <1>7, <1>8, <1>9 DEF Searching
  <1>11. /\ walk'.op = "add" => AddAt(trie, walk', before)
         /\ walk'.op = "get" => GetAt(trie, walk', before)
    BY <1>1, <1>9 DEF WalkFits, AddAt, GetAt
  <1>12. WalkFits(before)'
    <2>1. walk'.op # "got"
      BY <1>2, <1>9
    <2> QED
      BY <1>2, <1>10, <1>11, <2>1 DEF WalkFits, DevicesResolve
  <1> QED
    BY <1>1, <1>2, <1>4, <1>9, <1>12, TrieKept

(* One level down, behind a character that matches. *)
LEMMA DownStarts ==
    ASSUME TrieInv, NEW before, TrieShape(trie, before, stored), WalkFits(before),
           walk.op \in {"add", "get"}, Match, walk.at < Len(walk.key),
           NEW w, w.key = walk.key, w.at = walk.at + 1, w.prev = 0, w.cur = trie.nodes[walk.cur].down
    PROVE  /\ Searching(trie, w, before)
           /\ FirstFrom(trie, before, trie.nodes[walk.cur].down, Begins(w.key, w.at - 1), 0)
           /\ Spelled(trie, before, walk.cur) = Begins(w.key, w.at - 1)
           /\ walk.cur \in 1..Len(trie.nodes)
  <1>1. walk.cur # 0 /\ trie.nodes[walk.cur].c = walk.key[walk.at]
    BY DEF Match, Char
  <1>2. Searching(trie, walk, before)
    BY DEF WalkFits
  <1>3. walk.cur \in 1..Len(trie.nodes)
    BY <1>1, <1>2, CurInLevel
  <1>4. Spelled(trie, before, walk.cur) = Begins(walk.key, walk.at)
    BY <1>1, <1>2, MatchSpells
  <1>5. /\ walk.key \in TrieKeys /\ walk.at \in 1..Len(walk.key) /\ Len(walk.key) \in Nat
        /\ Len(trie.nodes) \in Nat
    BY WalkParts
  <1>6. w.at \in 1..Len(walk.key) /\ w.at - 1 = walk.at
    BY <1>5
  <1>7. FirstFrom(trie, before, trie.nodes[walk.cur].down, Begins(w.key, w.at - 1), 0)
    BY <1>3, <1>4, <1>6 DEF TrieShape, LevelsSorted
  <1>8. Searching(trie, w, before)
    BY <1>5, <1>6, <1>7 DEF Searching
  <1> QED
    BY <1>3, <1>4, <1>6, <1>7, <1>8

LEMMA TrieInvDescend ==
    ASSUME TrieInv, AddDescend
    PROVE  TrieInv'
  <1>1. PICK before : TrieShape(trie, before, stored) /\ ValuesKept(trie, before) /\ WalkFits(before)
    BY DEF TrieInv
  <1>2. /\ walk.op = "add" /\ Match /\ walk.at < Len(walk.key) /\ trie' = trie /\ stored' = stored
        /\ walk' = [walk EXCEPT !.at = walk.at + 1, !.level = trie.nodes[walk.cur].down,
                                !.parent = walk.cur, !.prev = 0, !.cur = trie.nodes[walk.cur].down]
    BY DEF AddDescend
  <1>3. TrieTypes /\ walk \in WalkType
    BY <1>2, WalkParts
  <1>4. Searching(trie, walk, before) /\ walk.cur # 0
    BY <1>1, <1>2 DEF WalkFits, Match
  <1>5. walk.cur \in 1..Len(trie.nodes)
    BY <1>4, CurInLevel
  <1>6. trie.nodes[walk.cur].down \in Nat /\ walk.at \in Nat /\ walk.at >= 1 /\ walk.cur \in Nat
    BY <1>2, <1>5, WalkParts
  <1>7. /\ walk' \in WalkType /\ walk'.op = "add" /\ walk'.key = walk.key /\ walk'.at = walk.at + 1
        /\ walk'.prev = 0 /\ walk'.cur = trie.nodes[walk.cur].down /\ walk'.parent = walk.cur
    <2>1. PICK down \in Nat, next \in Nat, cur \in Nat :
              down = trie.nodes[walk.cur].down /\ next = walk.at + 1 /\ cur = walk.cur
      BY <1>6
    <2>2. walk' = [walk EXCEPT !.at = next, !.level = down, !.parent = cur, !.prev = 0, !.cur = down]
      BY <1>2, <2>1
    <2>3. /\ walk' \in WalkType /\ walk'.op = walk.op /\ walk'.key = walk.key /\ walk'.at = next
          /\ walk'.prev = 0 /\ walk'.cur = down /\ walk'.parent = cur
      BY <1>3, <2>2 DEF WalkType
    <2> QED
      BY <1>2, <2>1, <2>3
  <1>8. /\ Searching(trie, walk', before) /\ walk.cur \in 1..Len(trie.nodes)
        /\ Spelled(trie, before, walk.cur) = Begins(walk'.key, walk'.at - 1)
    BY <1>1, <1>2, <1>7, DownStarts
  <1>9. AddAt(trie, walk', before)
    BY <1>6, <1>7, <1>8 DEF AddAt
  <1>10. WalkFits(before)'
    BY <1>2, <1>7, <1>8, <1>9 DEF WalkFits, DevicesResolve
  <1> QED
    BY <1>1, <1>2, <1>3, <1>7, <1>10, TrieKept

-----------------------------------------------------------------------------
(* The characters and the pointers of a trie. *)
SameShape(t, u) ==
    /\ Len(u.nodes) = Len(t.nodes) /\ u.head = t.head
    /\ \A x \in 1..Len(t.nodes) : /\ u.nodes[x].c = t.nodes[x].c /\ u.nodes[x].next = t.nodes[x].next
                                  /\ u.nodes[x].down = t.nodes[x].down

LEMMA FirstSame ==
    ASSUME NEW t, NEW u, NEW before, SameShape(t, u), NEW h, NEW level, NEW c,
           FirstFrom(t, before, h, level, c), Len(t.nodes) \in Nat
    PROVE  FirstFrom(u, before, h, level, c)
  <1>1. Len(u.nodes) = Len(t.nodes) /\ \A x \in 1..Len(t.nodes) : u.nodes[x].c = t.nodes[x].c
    BY DEF SameShape
  <1>2. h # 0 => h \in 1..Len(t.nodes)
    BY DEF FirstFrom
  <1> QED
    BY <1>1, <1>2 DEF FirstFrom

SpellsAll(t, before, x, k, m) == m = Len(k) /\ Spelled(t, before, x) = Begins(k, m)

(* A key with a node for each of its characters can be added to the keys. *)
LEMMA ShapeSame ==
    ASSUME NEW t, NEW u, NEW before, NEW keys \in Seq(Seq(Nat)), TrieNodes(t), SameShape(t, u),
           TrieShape(t, before, keys), NEW k \in Seq(Nat), NEW x \in 1..Len(t.nodes),
           NEW m \in 1..Len(k), SpellsAll(t, before, x, k, m)
    PROVE  TrieShape(u, before, Append(keys, k))
  <1>1. /\ Len(u.nodes) = Len(t.nodes) /\ u.head = t.head /\ Len(t.nodes) \in Nat
        /\ \A y \in 1..Len(t.nodes) : /\ u.nodes[y].c = t.nodes[y].c /\ u.nodes[y].next = t.nodes[y].next
                                      /\ u.nodes[y].down = t.nodes[y].down
    BY NodeTypes DEF SameShape
  <1>2. \A y \in 1..Len(t.nodes) : Spelled(u, before, y) = Spelled(t, before, y)
    BY <1>1 DEF Spelled
  <1>3. before \in [1..Len(u.nodes) -> Seq(Nat)]
    BY <1>1 DEF TrieShape
  <1>4. LevelsSorted(u, before)
    <2>1. FirstFrom(u, before, u.head, <<>>, 0)
      BY <1>1, FirstSame DEF TrieShape, LevelsSorted
    <2>2. ASSUME NEW y \in 1..Len(u.nodes)
          PROVE  /\ FirstFrom(u, before, u.nodes[y].down, Spelled(u, before, y), 0)
                 /\ FirstFrom(u, before, u.nodes[y].next, before[y], u.nodes[y].c + 1)
      <3>1. /\ FirstFrom(t, before, t.nodes[y].down, Spelled(t, before, y), 0)
            /\ FirstFrom(t, before, t.nodes[y].next, before[y], t.nodes[y].c + 1)
        BY <1>1 DEF TrieShape, LevelsSorted
      <3>2. /\ FirstFrom(u, before, t.nodes[y].down, Spelled(t, before, y), 0)
            /\ FirstFrom(u, before, t.nodes[y].next, before[y], t.nodes[y].c + 1)
        BY <1>1, <3>1, FirstSame
      <3>3. /\ u.nodes[y].down = t.nodes[y].down /\ Spelled(u, before, y) = Spelled(t, before, y)
            /\ u.nodes[y].next = t.nodes[y].next /\ u.nodes[y].c = t.nodes[y].c
        BY <1>1, <1>2
      <3> QED
        BY <3>2, <3>3
    <2>3. \A y, z \in 1..Len(u.nodes) : before[y] = before[z] /\ u.nodes[y].c = u.nodes[z].c => y = z
      BY <1>1 DEF TrieShape, LevelsSorted
    <2> QED
      BY <2>1, <2>2, <2>3 DEF LevelsSorted
  <1>5. PICK more \in Seq(Seq(Nat)) : more = Append(keys, k)
    BY AppendProperties
  <1>6. /\ Len(more) = Len(keys) + 1 /\ more[Len(keys) + 1] = k /\ Len(keys) \in Nat
        /\ \A i \in 1..Len(keys) : more[i] = keys[i] /\ i \in 1..Len(more)
    BY <1>5
  <1>8. ASSUME NEW n \in 1..m
        PROVE  HasNode(t, before, k, n)
    <2>1. Spelled(t, before, x) = Begins(k, m)
      BY DEF SpellsAll
    <2> QED
      BY <2>1, AllBefore
  <1>7. NodesAreBeginnings(u, before, more)
    <2>1. ASSUME NEW y \in 1..Len(u.nodes)
          PROVE  BeginsAKey(u, before, y, more)
      <3>1. PICK i \in 1..Len(keys) : \E n \in 1..Len(keys[i]) : Spelled(t, before, y) = Begins(keys[i], n)
        BY <1>1 DEF TrieShape, NodesAreBeginnings, BeginsAKey
      <3> QED
        BY <1>1, <1>2, <1>6, <3>1 DEF BeginsAKey
    <2>2. ASSUME NEW i \in 1..Len(more), NEW n \in 1..Len(more[i])
          PROVE  \E y \in 1..Len(u.nodes) : before[y] = Begins(more[i], n - 1) /\ u.nodes[y].c = more[i][n]
      <3>1. CASE i \in 1..Len(keys)
        <4>1. more[i] = keys[i] /\ n \in 1..Len(keys[i])
          BY <1>6, <3>1
        <4>2. PICK y \in 1..Len(t.nodes) : before[y] = Begins(keys[i], n - 1) /\ t.nodes[y].c = keys[i][n]
          BY <3>1, <4>1 DEF TrieShape, NodesAreBeginnings
        <4> QED
          BY <1>1, <4>1, <4>2
      <3>2. CASE i = Len(keys) + 1
        <4>1. more[i] = k /\ n \in 1..m
          BY <1>6, <3>2 DEF SpellsAll
        <4>3. PICK y \in 1..Len(t.nodes) : before[y] = Begins(k, n - 1) /\ t.nodes[y].c = k[n]
          BY <1>8, <4>1 DEF HasNode
        <4> QED
          BY <1>1, <4>1, <4>3
      <3> QED
        BY <1>6, <3>1, <3>2
    <2> QED
      BY <2>1, <2>2 DEF NodesAreBeginnings
  <1> QED
    BY <1>3, <1>4, <1>5, <1>7 DEF TrieShape

(* Two nodes never spell the same. *)
LEMMA SpelledOnce ==
    ASSUME NEW t, NEW before, NEW keys, TrieNodes(t), TrieShape(t, before, keys),
           NEW x \in 1..Len(t.nodes), NEW y \in 1..Len(t.nodes),
           Spelled(t, before, x) = Spelled(t, before, y)
    PROVE  x = y
  <1>1. PICK a \in Seq(Nat), b \in Seq(Nat), c \in Nat, d \in Nat :
            a = before[x] /\ b = before[y] /\ c = t.nodes[x].c /\ d = t.nodes[y].c
    <2>1. before[x] \in Seq(Nat) /\ before[y] \in Seq(Nat)
      BY DEF TrieShape
    <2>2. t.nodes[x].c \in Nat /\ t.nodes[y].c \in Nat
      BY NodeTypes
    <2> QED
      BY <2>1, <2>2
  <1>2. Append(a, c) = Append(b, d)
    BY <1>1 DEF Spelled
  <1>3. a = b /\ c = d
    <2>2. a \in Seq(Nat) /\ b \in Seq(Nat) /\ c \in Nat /\ d \in Nat
      BY <1>1
    <2>3. a = b
      BY <1>2, <2>2, AppendParts, Zenon
    <2>4. c = d
      BY <1>2, <2>2, AppendParts
    <2> QED
      BY <2>3, <2>4
  <1> QED
    BY <1>1, <1>3 DEF TrieShape, LevelsSorted

-----------------------------------------------------------------------------
LEMMA AddedTypes ==
    ASSUME TrieInv, walk.op = "add", NEW u \in [nodes : Seq(TrieNode), head : Nat, keys : Nat],
           trie' = u, u.keys # 0, walk' = NoWalk, stored' = Append(stored, walk.key)
    PROVE  TrieTypes' /\ stored \in Seq(TrieKeys) /\ walk.key \in TrieKeys
  <1>1. stored \in Seq(TrieKeys) /\ walk.key \in TrieKeys
    BY WalkParts
  <1>2. stored' \in Seq(TrieKeys) /\ Len(stored') = Len(stored) + 1 /\ Len(stored) \in Nat
    BY <1>1
  <1>3. stored' # <<>>
    BY <1>2
  <1>4. NoWalk \in WalkType
    BY DEF NoWalk, WalkType
  <1> QED
    BY <1>1, <1>2, <1>3, <1>4 DEF TrieTypes

LEMMA AddedWalk ==
    ASSUME walk' = NoWalk, NEW before
    PROVE  WalkFits(before)'
  <1>1. walk'.op = "none"
    BY DEF NoWalk
  <1> QED
    BY <1>1 DEF WalkFits, DevicesResolve

(* The key was there already. *)
LEMMA TrieInvReplace ==
    ASSUME TrieInv, walk.op = "add", Match, walk.at = Len(walk.key),
           trie' = [trie EXCEPT !.nodes[walk.cur].value = Len(stored) + 1],
           walk' = NoWalk, stored' = Append(stored, walk.key)
    PROVE  TrieInv'
  <1>1. PICK before : TrieShape(trie, before, stored) /\ ValuesKept(trie, before) /\ WalkFits(before)
    BY DEF TrieInv
  <1>2. /\ TrieTypes /\ TrieNodes(trie) /\ stored \in Seq(TrieKeys) /\ stored \in Seq(Seq(Nat))
        /\ walk.key \in TrieKeys /\ walk.key \in Seq(Nat) /\ Len(walk.key) >= 1 /\ Len(trie.nodes) \in Nat
    BY WalkParts
  <1>3. Searching(trie, walk, before) /\ walk.cur # 0 /\ trie.nodes[walk.cur].c = walk.key[walk.at]
    BY <1>1 DEF WalkFits, Match, Char
  <1>4. PICK x \in 1..Len(trie.nodes), value \in Nat : x = walk.cur /\ value = Len(stored) + 1
    BY <1>2, <1>3, CurInLevel
  <1>5. Spelled(trie, before, x) = Begins(walk.key, walk.at)
    BY <1>3, <1>4, MatchSpells
  <1>6. PICK u : u = [trie EXCEPT !.nodes[x].value = value] /\ trie' = u
    BY <1>4
  <1>7. /\ u \in [nodes : Seq(TrieNode), head : Nat, keys : Nat] /\ u.head = trie.head /\ u.keys = trie.keys
        /\ Len(u.nodes) = Len(trie.nodes)
        /\ \A y \in 1..Len(trie.nodes) :
              u.nodes[y] = IF y = x THEN [trie.nodes[x] EXCEPT !.value = value] ELSE trie.nodes[y]
    <2>1. trie \in [nodes : Seq(TrieNode), head : Nat, keys : Nat] /\ trie.nodes \in Seq(TrieNode)
      BY <1>2 DEF TrieTypes
    <2>2. trie.nodes[x] \in TrieNode
      BY <1>4, <2>1
    <2>3. PICK e \in TrieNode : e = [trie.nodes[x] EXCEPT !.value = value]
      BY <1>4, <2>2 DEF TrieNode
    <2>4. PICK ns : ns = [trie.nodes EXCEPT ![x] = e]
      OBVIOUS
    <2>5. /\ ns \in Seq(TrieNode) /\ Len(ns) = Len(trie.nodes)
          /\ \A y \in 1..Len(trie.nodes) : ns[y] = IF y = x THEN e ELSE trie.nodes[y]
      BY <1>4, <2>1, <2>3, <2>4
    <2>6. u = [trie EXCEPT !.nodes = ns]
      BY <1>6, <2>3, <2>4
    <2>7. /\ u \in [nodes : Seq(TrieNode), head : Nat, keys : Nat]
          /\ u.head = trie.head /\ u.keys = trie.keys /\ u.nodes = ns
      BY <2>1, <2>5, <2>6
    <2> QED
      BY <2>3, <2>5, <2>7
  <1>8. /\ SameShape(trie, u)
        /\ \A y \in 1..Len(trie.nodes) : u.nodes[y].value = IF y = x THEN value ELSE trie.nodes[y].value
    <2>1. \A y \in 1..Len(trie.nodes) : trie.nodes[y] \in TrieNode
      BY <1>2 DEF TrieNodes
    <2>2. \A y \in 1..Len(trie.nodes) :
              /\ u.nodes[y].c = trie.nodes[y].c /\ u.nodes[y].next = trie.nodes[y].next
              /\ u.nodes[y].down = trie.nodes[y].down
              /\ u.nodes[y].value = IF y = x THEN value ELSE trie.nodes[y].value
      BY <1>7, <2>1, ZenonT(30) DEF TrieNode
    <2> QED
      BY <1>7, <2>2 DEF SameShape
  <1>9. TrieShape(u, before, Append(stored, walk.key))
    <2>1. PICK k \in Seq(Nat) : k = walk.key
      BY <1>2
    <2>2. PICK m \in 1..Len(k) : m = Len(k)
      <3>1. Len(k) \in 1..Len(k)
        BY <1>2, <2>1
      <3> QED
        BY <3>1, Zenon
    <2>3. SpellsAll(trie, before, x, k, m)
      BY <1>5, <2>1, <2>2 DEF SpellsAll
    <2>4. TrieShape(u, before, Append(stored, k))
      BY <1>1, <1>2, <1>4, <1>8, <2>2, <2>3, ShapeSame
    <2> QED
      BY <2>1, <2>4
  <1>10. trie.keys # 0
    <2>1. \E j \in 1..Len(stored) : \E m \in 1..Len(stored[j]) : NodeBegins(trie, before, stored, x, j, m)
      BY <1>1, <1>2, <1>4, NodesBegin
    <2>2. stored # <<>>
      BY <2>1
    <2> QED
      BY <1>2, <2>2 DEF TrieTypes
  <1>11. TrieTypes'
    BY <1>6, <1>7, <1>10, AddedTypes
  <1>12. ValuesKept(u, before)'
    <2>1. ASSUME NEW y \in 1..Len(trie.nodes)
          PROVE  u.nodes[y].value = ValueOf(Spelled(u, before, y))'
      <3>1. PICK r : r = Spelled(trie, before, y) /\ r = Spelled(u, before, y)
        BY <1>8 DEF SameShape, Spelled
      <3>2. ValueOf(r)' = IF r = walk.key THEN Len(stored) + 1 ELSE ValueOf(r)
        BY <1>2, ValueAppended
      <3>3. trie.nodes[y].value = ValueOf(r)
        BY <1>1, <3>1 DEF ValuesKept
      <3>4. r = walk.key <=> y = x
        <4>1. Spelled(trie, before, x) = walk.key
          BY <1>2, <1>5, BeginsAll
        <4>2. r = walk.key => y = x
          BY <1>1, <1>2, <1>4, <3>1, <4>1, SpelledOnce
        <4> QED
          BY <3>1, <4>1, <4>2
      <3>5. ValueOf(r)' = u.nodes[y].value
        BY <1>4, <1>8, <3>2, <3>3, <3>4
      <3> QED
        BY <3>1, <3>5
    <2> QED
      BY <1>7, <2>1 DEF ValuesKept
  <1>13. WalkFits(before)'
    BY AddedWalk
  <1>14. TrieShape(trie, before, stored)' /\ ValuesKept(trie, before)'
    BY <1>6, <1>9, <1>12 DEF ValuesKept
  <1> QED
    BY <1>11, <1>13, <1>14 DEF TrieInv

(* The key, or a beginning of it, is new. *)
LEMMA TrieInvInsert ==
    ASSUME TrieInv, walk.op = "add", ~Before, ~Match, trie' = InsertChain(trie, walk, Len(stored) + 1),
           walk' = NoWalk, stored' = Append(stored, walk.key)
    PROVE  TrieInv'
  <1>1. PICK before : TrieShape(trie, before, stored) /\ ValuesKept(trie, before) /\ WalkFits(before)
    BY DEF TrieInv
  <1>2. /\ TrieTypes /\ TrieNodes(trie) /\ stored \in Seq(TrieKeys) /\ stored \in Seq(Seq(Nat))
        /\ walk.key \in TrieKeys /\ walk.key \in Seq(Nat) /\ Len(trie.nodes) \in Nat
        /\ walk.at \in 1..Len(walk.key) /\ walk.key[walk.at] \in Nat
        /\ \A y \in 1..Len(trie.nodes) : trie.nodes[y].c \in Nat
    BY WalkParts
  <1>3. Searching(trie, walk, before) /\ AddAt(trie, walk, before)
    BY <1>1 DEF WalkFits
  <1>4. walk.cur # 0 => walk.cur \in 1..Len(trie.nodes)
    BY <1>3, CurInLevel
  <1>5. walk.cur # 0 => walk.key[walk.at] < trie.nodes[walk.cur].c
    <2>1. ASSUME walk.cur # 0
          PROVE  walk.key[walk.at] < trie.nodes[walk.cur].c
      <3>1. trie.nodes[walk.cur].c \in Nat /\ walk.key[walk.at] \in Nat
        BY <1>2, <1>4, <2>1
      <3>2. ~(trie.nodes[walk.cur].c < walk.key[walk.at]) /\ trie.nodes[walk.cur].c # walk.key[walk.at]
        BY <2>1 DEF Before, Match, Char
      <3> QED
        BY <3>1, <3>2
    <2> QED
      BY <2>1
  <1>6. InsertsAt(trie, walk, before, stored)
    <2>1. InPlace(trie, walk, before)
      BY <1>2, <1>3, <1>5, SearchEnds
    <2>2. walk.prev \in 0..Len(trie.nodes) /\ walk.cur \in 0..Len(trie.nodes)
      BY <1>2, <1>3, <1>4 DEF Searching
    <2>3. walk.parent \in 0..Len(trie.nodes)
      BY <1>2, <1>3 DEF AddAt
    <2>4. Inserting(trie, walk)
      BY <1>2, <2>2, <2>3 DEF Inserting
    <2> QED
      BY <1>1, <1>2, <1>3, <2>1, <2>4 DEF InsertsAt
  <1>7. PICK value \in Nat, u \in {trie'} : value = Len(stored) + 1 /\ u = InsertChain(trie, walk, value) /\ trie' = u
    BY <1>2
  <1>8. PICK after, d : Inserted(trie, u, walk, before, after, stored, value, d)
    BY <1>6, <1>7, InsertedIs
  <1>9. TrieShape(u, after, Append(stored, walk.key))
    BY <1>8, ShapeInserted
  <1>10. /\ TrieNodes(u) /\ u.keys = trie.keys + 1
         /\ u.head = IF walk.prev = 0 /\ walk.parent = 0 THEN Len(trie.nodes) + 1 - walk.at + walk.at ELSE trie.head
         /\ d = Len(trie.nodes) + 1 - walk.at
    BY <1>8 DEF Inserted, Extends, Chained
  <1>11. u \in [nodes : Seq(TrieNode), head : Nat, keys : Nat] /\ u.keys # 0
    <2>1. trie.keys \in Nat /\ trie.head \in Nat
      BY <1>2 DEF TrieTypes
    <2>2. u.keys \in Nat /\ u.keys # 0 /\ u.head \in Nat /\ u.nodes \in Seq(TrieNode)
      <3>1. u.nodes \in Seq(TrieNode)
        BY <1>10 DEF TrieNodes
      <3>2. u.keys \in Nat /\ u.keys # 0
        BY <1>10, <2>1
      <3>3. \A N, at \in Nat : N + 1 - at + at \in Nat
        OBVIOUS
      <3>4. Len(trie.nodes) + 1 - walk.at + walk.at \in Nat
        BY <1>2, <3>3
      <3>5. u.head \in Nat
        BY <1>10, <2>1, <3>4, Zenon
      <3> QED
        BY <3>1, <3>2, <3>5
    <2>3. u = [nodes |-> u.nodes, head |-> u.head, keys |-> u.keys]
      BY <1>7 DEF InsertChain
    <2> QED
      BY <2>2, <2>3
  <1>12. TrieTypes'
    BY <1>7, <1>11, AddedTypes
  <1>13. ASSUME NEW y \in 1..Len(u.nodes)
         PROVE  u.nodes[y].value = ValueOf(Spelled(u, after, y))'
    <2>1. Extends(trie, u, before, after, walk.key, walk.at, d)
      BY <1>8, InsertedParts
    <2>2. y \in 1..Len(trie.nodes) \/ \E n \in walk.at..Len(walk.key) : y = d + n
      BY <2>1, OldOrChain
    <2>3. CASE y \in 1..Len(trie.nodes)
      <3>1. PICK r : r = Spelled(trie, before, y) /\ r = Spelled(u, after, y)
        BY <1>8, <2>3, SpelledInserted
      <3>2. ValueOf(r)' = IF r = walk.key THEN Len(stored) + 1 ELSE ValueOf(r)
        BY <1>2, ValueAppended
      <3>3. trie.nodes[y].value = ValueOf(r)
        BY <1>1, <2>3, <3>1 DEF ValuesKept
      <3>4. r # walk.key
        <4>1. PICK n \in walk.at..Len(walk.key) : n = Len(walk.key)
          BY <1>2
        <4>2. Spelled(trie, before, y) # Begins(walk.key, n)
          BY <1>6, <2>3, <4>1, NothingBelow
        <4> QED
          BY <1>2, <3>1, <4>1, <4>2, BeginsAll
      <3>5. u.nodes[y].value = trie.nodes[y].value
        BY <1>8, <2>3 DEF Inserted, Chained
      <3> QED
        BY <3>1, <3>2, <3>3, <3>4, <3>5
    <2>4. CASE y \notin 1..Len(trie.nodes)
      <3>1. PICK n \in walk.at..Len(walk.key) : y = d + n
        BY <2>2, <2>4
      <3>2. PICK r : r = Begins(walk.key, n) /\ r = Spelled(u, after, y)
        BY <1>8, <3>1, SpelledInserted
      <3>3. ValueOf(r)' = IF r = walk.key THEN Len(stored) + 1 ELSE ValueOf(r)
        BY <1>2, ValueAppended
      <3>4. u.nodes[y].value = IF n = Len(walk.key) THEN value ELSE 0
        BY <1>8, <3>1 DEF Inserted, Chained
      <3>5. r = walk.key <=> n = Len(walk.key)
        <4>1. PICK k \in Seq(Nat), at \in 1..Len(walk.key) : k = walk.key /\ at = walk.at
          BY <1>2
        <4>2. n \in 0..Len(k)
          BY <3>1, <4>1
        <4>3. Len(Begins(k, n)) = n
          BY <4>2, BeginsIs
        <4>4. Begins(k, Len(k)) = k
          BY <4>1, BeginsAll
        <4> QED
          BY <3>2, <4>1, <4>3, <4>4
      <3>6. ValueOf(r) = 0
        <4>1. ASSUME NEW j \in 1..Len(stored), stored[j] = r
              PROVE  FALSE
          <5>1. PICK key \in Seq(Nat), m \in Nat : key = stored[j] /\ m = Len(key)
            BY <1>2
          <5>2. m \in 0..Len(stored[j]) /\ Begins(stored[j], m) = stored[j]
            BY <5>1, BeginsAll
          <5>3. Begins(stored[j], m) # Begins(walk.key, n)
            BY <1>6, <3>1, <5>2, NoKeyAlike
          <5> QED
            BY <3>2, <4>1, <5>2, <5>3
        <4> QED
          BY <1>2, <4>1, ValueIs
      <3>7. ValueOf(r)' = u.nodes[y].value
        BY <1>7, <3>3, <3>4, <3>5, <3>6
      <3> QED
        BY <3>2, <3>7
    <2> QED
      BY <2>3, <2>4
  <1>14. ValuesKept(u, after)'
    BY <1>13 DEF ValuesKept
  <1>15. WalkFits(after)'
    BY AddedWalk
  <1>16. TrieShape(trie, after, stored)' /\ ValuesKept(trie, after)'
    BY <1>7, <1>9, <1>14 DEF ValuesKept
  <1> QED
    BY <1>12, <1>15, <1>16 DEF TrieInv

LEMMA TrieInvFinish ==
    ASSUME TrieInv, AddFinish
    PROVE  TrieInv'
  <1>1. CASE Match /\ walk.at = Len(walk.key) /\ trie' = [trie EXCEPT !.nodes[walk.cur].value = Len(stored) + 1]
    BY <1>1, TrieInvReplace DEF AddFinish
  <1>2. CASE ~Match /\ trie' = InsertChain(trie, walk, Len(stored) + 1)
    BY <1>2, TrieInvInsert DEF AddFinish
  <1> QED
    BY <1>1, <1>2 DEF AddFinish

-----------------------------------------------------------------------------
(* What the answer is, when the key ends or nothing is below it. *)
Answer(t, w) ==
    IF w.at = Len(w.key) /\ (IF w.cur # 0 /\ t.nodes[w.cur].c = w.key[w.at] THEN t.nodes[w.cur].down ELSE 0) = 0
    THEN t.nodes[w.level].value
    ELSE 0

LEMMA AllButLastIs ==
    ASSUME NEW k \in Seq(Nat), Len(k) >= 1
    PROVE  /\ Front(k) = Begins(k, Len(k) - 1) /\ Front(k) \in Seq(Nat) /\ Len(Front(k)) = Len(k) - 1
           /\ k = Append(Front(k), k[Len(k)])
  <1>1. PICK n \in 1..Len(k) : n = Len(k) /\ n - 1 \in 0..Len(k)
    OBVIOUS
  <1>2. Front(k) = Begins(k, n - 1)
    BY <1>1 DEF Front, Begins
  <1>3. Begins(k, n - 1) \in Seq(Nat) /\ Len(Begins(k, n - 1)) = n - 1
    BY <1>1, BeginsIs
  <1>4. Begins(k, n) = Append(Begins(k, n - 1), k[n])
    BY <1>1, BeginsStep
  <1>5. Begins(k, n) = k
    BY <1>1, BeginsAll
  <1> QED
    BY <1>1, <1>2, <1>3, <1>4, <1>5

(* A key that starts with the characters before the last one of another. *)
LEMMA PrefixIs ==
    ASSUME NEW k \in Seq(Nat), Len(k) >= 1, NEW j \in Seq(Nat), NEW n \in 0..Len(j),
           Begins(j, n) = Begins(k, Len(k) - 1)
    PROVE  IsPrefix(Front(k), j)
  <1>1. PICK f \in Seq(Nat), L \in Nat : f = Front(k) /\ L = Len(f) /\ f = Begins(k, Len(k) - 1)
    BY AllButLastIs
  <1>2. Begins(j, n) = f
    BY <1>1
  <1>3. Len(Begins(j, n)) = n
    BY BeginsIs
  <1>4. L = n
    BY <1>1, <1>2, <1>3
  <1>5. Begins(f, Len(f)) = f
    BY <1>1, BeginsAll
  <1>6. SubSeq(f, 1, Len(f)) = f /\ SubSeq(j, 1, Len(f)) = f /\ Len(f) <= Len(j)
    BY <1>1, <1>2, <1>4, <1>5 DEF Begins
  <1> QED
    BY <1>1, <1>6 DEF IsPrefix

(* An answer is the value of a key like the asked one. *)
LEMMA AnswerAlike ==
    ASSUME TrieInv, walk.op = "get", NEW before, TrieShape(trie, before, stored), ValuesKept(trie, before),
           WalkFits(before), Answer(trie, walk) # 0
    PROVE  Answer(trie, walk) <= Len(stored) /\ Front(stored[Answer(trie, walk)]) = Front(walk.key)
  <1>1. /\ TrieNodes(trie) /\ stored \in Seq(TrieKeys) /\ walk.key \in Seq(Nat) /\ Len(walk.key) >= 1
        /\ Len(trie.nodes) \in Nat
    BY WalkParts
  <1>2. walk.at = Len(walk.key) /\ Answer(trie, walk) = trie.nodes[walk.level].value
    BY DEF Answer
  <1>3. walk.level \in 1..Len(trie.nodes) /\ before[walk.level] = Begins(walk.key, walk.at - 1)
    BY <1>1 DEF WalkFits, GetAt, FirstFrom
  <1>4. PICK r, value : /\ r = Spelled(trie, before, walk.level) /\ value = Answer(trie, walk)
                        /\ value = ValueOf(r)
    BY <1>2, <1>3 DEF ValuesKept
  <1>5. value \in 1..Len(stored) /\ stored[value] = r
    BY <1>1, <1>4, ValueIs
  <1>6. PICK key \in Seq(Nat), b \in Seq(Nat), c \in Nat :
            /\ key = r /\ b = before[walk.level] /\ c = trie.nodes[walk.level].c /\ Len(key) >= 1
    <2>1. stored[value] \in TrieKeys
      BY <1>1, <1>5
    <2>2. r \in Seq(Nat) /\ Len(r) >= 1
      BY <1>5, <2>1, KeysAreStrings
    <2>3. before[walk.level] \in Seq(Nat)
      BY <1>3 DEF TrieShape
    <2>4. trie.nodes[walk.level].c \in Nat
      BY <1>1, <1>3, NodeTypes
    <2> QED
      BY <2>2, <2>3, <2>4
  <1>7. PICK f \in Seq(Nat), e \in Nat : f = Front(key) /\ key = Append(f, e)
    <2>1. Front(key) \in Seq(Nat) /\ key = Append(Front(key), key[Len(key)])
      BY <1>6, AllButLastIs
    <2>2. key[Len(key)] \in Nat
      BY <1>6
    <2> QED
      BY <2>1, <2>2
  <1>8. Append(f, e) = Append(b, c)
    BY <1>4, <1>6, <1>7 DEF Spelled
  <1>9. f = b
    <2>1. f \in Seq(Nat) /\ e \in Nat /\ b \in Seq(Nat) /\ c \in Nat
      BY <1>6, <1>7
    <2> QED
      BY <1>8, <2>1, AppendParts, Zenon
  <1>10. Front(walk.key) = b
    BY <1>1, <1>2, <1>3, <1>6, AllButLastIs
  <1>11. Front(stored[value]) = Front(walk.key) /\ value <= Len(stored)
    BY <1>5, <1>6, <1>7, <1>9, <1>10
  <1> QED
    BY <1>4, <1>11

(* A character of a stored key is found in its level. *)
LEMMA StoredMatches ==
    ASSUME TrieInv, walk.op = "get", ~Before, NEW before, TrieShape(trie, before, stored), WalkFits(before),
           NEW i \in 1..Len(stored), stored[i] = walk.key
    PROVE  Match /\ Spelled(trie, before, walk.cur) = Begins(walk.key, walk.at)
  <1>1. /\ TrieNodes(trie) /\ walk.at \in 1..Len(walk.key) /\ walk.key[walk.at] \in Nat
        /\ Len(trie.nodes) \in Nat /\ \A x \in 1..Len(trie.nodes) : trie.nodes[x].c \in Nat
    BY WalkParts
  <1>2. Searching(trie, walk, before)
    BY DEF WalkFits
  <1>3. PICK y \in 1..Len(trie.nodes) :
            before[y] = Begins(walk.key, walk.at - 1) /\ trie.nodes[y].c = walk.key[walk.at]
    <2>1. \A n \in 1..Len(stored[i]) :
              \E y \in 1..Len(trie.nodes) : before[y] = Begins(stored[i], n - 1) /\ trie.nodes[y].c = stored[i][n]
      BY DEF TrieShape, NodesAreBeginnings
    <2> QED
      BY <1>1, <2>1
  <1>4. Match
    <2> SUFFICES ASSUME ~Match
                 PROVE  FALSE
      OBVIOUS
    <2>1. walk.cur # 0 => walk.cur \in 1..Len(trie.nodes)
      BY <1>2, CurInLevel
    <2>2. walk.prev # 0 => walk.prev \in 1..Len(trie.nodes)
      BY <1>1, <1>2 DEF Searching
    <2>3. walk.cur # 0 => walk.key[walk.at] < trie.nodes[walk.cur].c
      <3>1. ASSUME walk.cur # 0
            PROVE  walk.key[walk.at] < trie.nodes[walk.cur].c
        <4>1. trie.nodes[walk.cur].c \in Nat /\ walk.key[walk.at] \in Nat
          BY <1>1, <2>1, <3>1
        <4>2. ~(trie.nodes[walk.cur].c < walk.key[walk.at]) /\ trie.nodes[walk.cur].c # walk.key[walk.at]
          BY <3>1 DEF Before, Match, Char
        <4> QED
          BY <4>1, <4>2
      <3> QED
        BY <3>1
    <2>4. InPlace(trie, walk, before)
      BY <1>1, <1>2, <2>3, SearchEnds
    <2>5. /\ walk.prev # 0 => trie.nodes[walk.prev].c < walk.key[walk.at]
          /\ \/ walk.cur # 0 /\ trie.nodes[walk.cur].c <= trie.nodes[y].c
             \/ walk.prev # 0 /\ trie.nodes[y].c <= trie.nodes[walk.prev].c
      BY <1>3, <2>4 DEF InPlace
    <2>6. CASE walk.cur # 0 /\ trie.nodes[walk.cur].c <= trie.nodes[y].c
      <3>1. trie.nodes[walk.cur].c \in Nat /\ walk.key[walk.at] < trie.nodes[walk.cur].c
        BY <1>1, <2>1, <2>3, <2>6
      <3> QED
        BY <1>1, <1>3, <2>6, <3>1, SMTT(30)
    <2>7. CASE walk.prev # 0 /\ trie.nodes[y].c <= trie.nodes[walk.prev].c
      <3>1. trie.nodes[walk.prev].c \in Nat /\ trie.nodes[walk.prev].c < walk.key[walk.at]
        BY <1>1, <2>2, <2>5, <2>7
      <3> QED
        BY <1>1, <1>3, <2>7, <3>1, SMTT(30)
    <2> QED
      BY <2>5, <2>6, <2>7
  <1>5. Spelled(trie, before, walk.cur) = Begins(walk.key, walk.at)
    BY <1>2, <1>4, MatchSpells DEF Match, Char
  <1> QED
    BY <1>4, <1>5

(* No other key has the same characters up to the last one. *)
Alone(k) == \A other \in ToSet(stored) : other # k => ~IsPrefix(Front(k), other)

LEMMA AloneIs ==
    ASSUME stored \in Seq(TrieKeys), NEW k \in Seq(Nat), Len(k) >= 1, Alone(k),
           NEW j \in 1..Len(stored), NEW n \in 0..Len(stored[j]), Begins(stored[j], n) = Begins(k, Len(k) - 1)
    PROVE  stored[j] = k
  <1>1. stored[j] \in TrieKeys
    OBVIOUS
  <1>2. stored[j] \in Seq(Nat)
    BY <1>1, KeysAreStrings, Zenon
  <1>3. PICK key \in Seq(Nat) : key = stored[j]
    BY <1>2
  <1>4. n \in 0..Len(key) /\ Begins(key, n) = Begins(k, Len(k) - 1)
    BY <1>3
  <1>5. IsPrefix(Front(k), key)
    BY <1>4, PrefixIs
  <1>6. stored[j] \in ToSet(stored)
    BY DEF ToSet
  <1> QED
    BY <1>3, <1>5, <1>6 DEF Alone

LEMMA AnswerFound ==
    ASSUME TrieInv, walk.op = "get", ~Before, NEW before, TrieShape(trie, before, stored),
           ValuesKept(trie, before), WalkFits(before), Alone(walk.key),
           NEW i \in 1..Len(stored), stored[i] = walk.key,
           walk.at = Len(walk.key) \/ trie.nodes[walk.cur].down = 0
    PROVE  Answer(trie, walk) = ValueOf(walk.key)
  <1>1. /\ TrieNodes(trie) /\ walk.at \in 1..Len(walk.key) /\ stored \in Seq(TrieKeys)
        /\ walk.key \in Seq(Nat) /\ Len(walk.key) >= 1 /\ stored \in Seq(Seq(Nat))
        /\ Len(trie.nodes) \in Nat /\ \A x \in 1..Len(trie.nodes) : trie.nodes[x].c \in Nat
    BY WalkParts
  <1>2. Match /\ Spelled(trie, before, walk.cur) = Begins(walk.key, walk.at)
    BY StoredMatches
  <1>3. walk.cur # 0 /\ trie.nodes[walk.cur].c = walk.key[walk.at]
    BY <1>2 DEF Match, Char
  <1>4. walk.cur \in 1..Len(trie.nodes)
    <2>1. Searching(trie, walk, before)
      BY DEF WalkFits
    <2> QED
      BY <1>3, <2>1, CurInLevel
  <1>5. FirstFrom(trie, before, trie.nodes[walk.cur].down, Begins(walk.key, walk.at), 0)
    BY <1>2, <1>4 DEF TrieShape, LevelsSorted
  <1>6. walk.at = Len(walk.key)
    <2> SUFFICES ASSUME walk.at # Len(walk.key)
                 PROVE  FALSE
      OBVIOUS
    <2>1. walk.at + 1 \in 1..Len(walk.key) /\ (walk.at + 1) - 1 = walk.at
      BY <1>1, SMTT(30)
    <2>2. PICK n \in 1..Len(walk.key) : n = walk.at + 1 /\ n - 1 = walk.at
      BY <2>1
    <2>3. PICK z \in 1..Len(trie.nodes) : before[z] = Begins(walk.key, n - 1)
      BY <2>2 DEF TrieShape, NodesAreBeginnings
    <2>4. before[z] = Begins(walk.key, walk.at) /\ trie.nodes[z].c \in Nat
      BY <1>1, <2>2, <2>3
    <2> QED
      BY <1>5, <2>4 DEF FirstFrom
  <1>7. PICK k \in Seq(Nat), L \in Nat : k = walk.key /\ L = Len(k) /\ L >= 1 /\ L = walk.at
    BY <1>1, <1>6
  <1>8. Alone(k) /\ L - 1 \in 0..Len(k) /\ L \in 0..Len(k) /\ Begins(k, L) = k /\ L - 1 = Len(k) - 1
    <2>1. Alone(k)
      BY <1>7, Zenon
    <2>2. L - 1 \in 0..Len(k) /\ L \in 0..Len(k) /\ L - 1 = Len(k) - 1
      BY <1>7
    <2>3. Begins(k, L) = k
      BY <1>7, BeginsAll
    <2> QED
      BY <2>1, <2>2, <2>3
  <1>9. trie.nodes[walk.cur].down = 0
    <2> SUFFICES ASSUME trie.nodes[walk.cur].down # 0
                 PROVE  FALSE
      OBVIOUS
    <2>1. PICK z \in 1..Len(trie.nodes) : z = trie.nodes[walk.cur].down /\ before[z] = Begins(k, L)
      BY <1>1, <1>5, <1>7, SMTT(30) DEF FirstFrom
    <2>2. PICK j \in 1..Len(stored) : \E m \in 1..Len(stored[j]) : NodeBegins(trie, before, stored, z, j, m)
      BY <1>1, <2>1, NodesBegin
    <2>3. PICK m \in 1..Len(stored[j]) : NodeBegins(trie, before, stored, z, j, m)
      BY <2>2
    <2>4. PICK key \in Seq(Nat), n \in Nat : key = stored[j] /\ n = m - 1 /\ n < Len(key) /\ Len(key) \in Nat
      <3>1. stored[j] \in Seq(Nat)
        BY <1>1
      <3>2. m - 1 \in Nat /\ m - 1 < Len(stored[j]) /\ Len(stored[j]) \in Nat
        BY <3>1
      <3> QED
        BY <3>1, <3>2
    <2>5. n \in 0..Len(key) /\ Begins(key, n) = Begins(k, L)
      BY <2>1, <2>3, <2>4 DEF NodeBegins
    <2>6. n = L /\ \A l \in 0..n : Begins(key, l) = Begins(k, l)
      <3>1. k \in Seq(Nat) /\ key \in Seq(Nat) /\ L \in 0..Len(k)
        BY <1>7, <1>8, <2>4
      <3> QED
        BY <2>5, <3>1, BeginsSame
    <2>7. L - 1 \in 0..n /\ L - 1 \in 0..Len(stored[j])
      <3>1. L \in Nat /\ L >= 1 /\ n = L /\ n < Len(key) /\ Len(key) \in Nat /\ Len(stored[j]) = Len(key)
        BY <1>7, <2>4, <2>6
      <3>2. \A a, b \in Nat : a >= 1 /\ a < b => a - 1 \in 0..a /\ a - 1 \in 0..b
        OBVIOUS
      <3> QED
        BY <3>1, <3>2
    <2>8. PICK p \in 0..Len(stored[j]) : p = L - 1 /\ Begins(stored[j], p) = Begins(k, L - 1)
      BY <2>4, <2>6, <2>7
    <2>9. stored[j] = k
      BY <1>1, <1>7, <1>8, <2>8, AloneIs
    <2>10. Len(key) = L /\ L < Len(key) /\ L \in Nat
      <3>1. L = Len(k) /\ key = k
        BY <1>7, <2>4, <2>9
      <3>2. n = L /\ n < Len(key) /\ L \in Nat
        BY <1>7, <2>4, <2>6
      <3> QED
        BY <3>1, <3>2
    <2> QED
      BY <2>10
  <1>10. Answer(trie, walk) = trie.nodes[walk.level].value
    BY <1>3, <1>6, <1>9 DEF Answer
  <1>11. PICK x \in 1..Len(trie.nodes) : x = walk.level /\ before[x] = Begins(k, L - 1)
    BY <1>1, <1>7, SMTT(30) DEF WalkFits, GetAt, FirstFrom
  <1>12. Spelled(trie, before, x) = k
    <2>1. PICK j \in 1..Len(stored) : \E m \in 1..Len(stored[j]) : NodeBegins(trie, before, stored, x, j, m)
      BY <1>1, <1>11, NodesBegin
    <2>2. PICK m \in 1..Len(stored[j]) : NodeBegins(trie, before, stored, x, j, m)
      BY <2>1
    <2>3. Spelled(trie, before, x) = Begins(stored[j], m) /\ before[x] = Begins(stored[j], m - 1)
      BY <2>2 DEF NodeBegins
    <2>4. PICK p \in 0..Len(stored[j]) : p = m - 1 /\ m = p + 1 /\ Begins(stored[j], p) = Begins(k, L - 1)
      <3>1. m \in Nat /\ m >= 1 /\ Len(stored[j]) \in Nat /\ m <= Len(stored[j])
        <4>1. stored[j] \in Seq(Nat)
          BY <1>1
        <4> QED
          BY <2>2, <4>1
      <3>2. PICK p \in Nat : p = m - 1 /\ m = p + 1 /\ p \in 0..Len(stored[j])
        BY <3>1
      <3>3. Begins(stored[j], p) = Begins(k, L - 1)
        BY <1>11, <2>3, <3>2
      <3> QED
        BY <3>2, <3>3
    <2>5. stored[j] = k
      BY <1>1, <1>7, <1>8, <2>4, AloneIs
    <2>6. p \in 0..Len(k) /\ Begins(k, p) = Begins(k, L - 1)
      BY <2>4, <2>5
    <2>7. Len(Begins(k, p)) = p /\ Len(Begins(k, L - 1)) = L - 1
      BY <1>7, <1>8, <2>6, BeginsIs
    <2>8. m = L
      BY <1>7, <2>4, <2>6, <2>7
    <2> QED
      BY <1>8, <2>3, <2>5, <2>8
  <1> QED
    BY <1>7, <1>10, <1>11, <1>12 DEF ValuesKept

LEMMA TrieInvDown ==
    ASSUME TrieInv, GetDown
    PROVE  TrieInv'
  <1>1. PICK before : TrieShape(trie, before, stored) /\ ValuesKept(trie, before) /\ WalkFits(before)
    BY DEF TrieInv
  <1>2. walk.op = "get" /\ ~Before /\ trie' = trie /\ stored' = stored
    BY DEF GetDown
  <1>3. PICK down : down = IF Match THEN trie.nodes[walk.cur].down ELSE 0
    OBVIOUS
  <1>4. /\ TrieTypes /\ walk \in WalkType /\ walk.key \in Seq(Nat) /\ walk.at \in 1..Len(walk.key)
        /\ TrieNodes(trie) /\ stored \in Seq(TrieKeys)
    BY <1>2, WalkParts
  <1>5. Searching(trie, walk, before)
    BY <1>1, <1>2 DEF WalkFits
  <1>6. CASE /\ walk.at < Len(walk.key) /\ down # 0
             /\ walk' = [walk EXCEPT !.at = walk.at + 1, !.level = down, !.prev = 0, !.cur = down]
    <2>1. Match /\ down = trie.nodes[walk.cur].down
      BY <1>3, <1>6
    <2>2. walk.cur \in 1..Len(trie.nodes)
      BY <1>5, <2>1, CurInLevel DEF Match
    <2>3. down \in Nat
      BY <1>4, <2>1, <2>2, NodeTypes
    <2>4. PICK next \in Nat : next = walk.at + 1
      BY <1>4
    <2>5. /\ walk' \in WalkType /\ walk'.op = walk.op /\ walk'.key = walk.key /\ walk'.at = next
          /\ walk'.prev = 0 /\ walk'.cur = down /\ walk'.level = down
      <3>1. walk' = [walk EXCEPT !.at = next, !.level = down, !.prev = 0, !.cur = down]
        BY <1>6, <2>4
      <3> QED
        BY <1>4, <2>3, <2>4, <3>1 DEF WalkType
    <2>6. walk'.key = walk.key /\ walk'.at = walk.at + 1 /\ walk'.prev = 0 /\ walk'.cur = trie.nodes[walk.cur].down
      BY <2>1, <2>4, <2>5
    <2>7. /\ Searching(trie, walk', before)
          /\ FirstFrom(trie, before, trie.nodes[walk.cur].down, Begins(walk'.key, walk'.at - 1), 0)
      BY <1>1, <1>2, <1>6, <2>1, <2>6, DownStarts
    <2>8. GetAt(trie, walk', before)
      BY <1>6, <2>1, <2>5, <2>7 DEF GetAt
    <2>9. WalkFits(before)'
      BY <1>2, <2>5, <2>7, <2>8 DEF WalkFits, DevicesResolve
    <2> QED
      BY <1>1, <1>2, <1>4, <2>5, <2>9, TrieKept
  <1>7. CASE /\ walk.at = Len(walk.key) \/ down = 0
             /\ walk' = [NoWalk EXCEPT !.op = "got", !.key = walk.key,
                            !.value = IF walk.at = Len(walk.key) /\ down = 0 THEN trie.nodes[walk.level].value ELSE 0]
    <2>1. down = IF walk.cur # 0 /\ trie.nodes[walk.cur].c = walk.key[walk.at] THEN trie.nodes[walk.cur].down ELSE 0
      BY <1>3 DEF Match, Char
    <2>2. PICK value : value = Answer(trie, walk)
      OBVIOUS
    <2>3. value = IF walk.at = Len(walk.key) /\ down = 0 THEN trie.nodes[walk.level].value ELSE 0
      BY <2>1, <2>2 DEF Answer
    <2>4. walk' = [NoWalk EXCEPT !.op = "got", !.key = walk.key, !.value = value]
      BY <1>7, <2>3
    <2>5. value \in Nat
      <3>1. Len(trie.nodes) \in Nat /\ \A x \in 1..Len(trie.nodes) : trie.nodes[x].value \in Nat
        BY <1>4, NodeTypes
      <3>2. walk.level \in 1..Len(trie.nodes)
        BY <1>1, <1>2, <3>1 DEF WalkFits, GetAt, FirstFrom
      <3> QED
        BY <2>3, <3>1, <3>2
    <2>6. walk' \in WalkType /\ walk'.op = "got" /\ walk'.key = walk.key /\ walk'.value = value
      BY <1>4, <2>4, <2>5 DEF NoWalk, WalkType
    <2>7. ASSUME walk.key \in ToSet(stored), Alone(walk.key)
          PROVE  value = ValueOf(walk.key)
      <3>1. PICK i \in 1..Len(stored) : stored[i] = walk.key
        BY <1>4, <2>7 DEF ToSet
      <3>2. Match
        BY <1>1, <1>2, <3>1, StoredMatches
      <3>3. walk.at = Len(walk.key) \/ trie.nodes[walk.cur].down = 0
        BY <1>3, <1>7, <3>2
      <3>4. Answer(trie, walk) = ValueOf(walk.key)
        BY <1>1, <1>2, <2>7, <3>1, <3>3, AnswerFound
      <3> QED
        BY <2>2, <3>4
    <2>8. value # 0 => value <= Len(stored) /\ Front(stored[value]) = Front(walk.key)
      BY <1>1, <1>2, <2>2, AnswerAlike
    <2>9. DevicesResolve'
      <3>1. \A r : ValueOf(r)' = ValueOf(r)
        BY <1>2, ValueKept
      <3>2. walk.key \in ToSet(stored) /\ Alone(walk.key) => walk'.value = ValueOf(walk.key)'
        BY <2>6, <2>7, <3>1
      <3>3. walk'.value # 0 => walk'.value <= Len(stored) /\ Front(stored[walk'.value]) = Front(walk.key)
        BY <2>6, <2>8
      <3> QED
        BY <1>2, <2>6, <3>2, <3>3 DEF DevicesResolve, Alone
    <2>10. WalkFits(before)'
      BY <2>6, <2>9 DEF WalkFits
    <2> QED
      BY <1>1, <1>2, <1>4, <2>6, <2>10, TrieKept
  <1> QED
    BY <1>3, <1>6, <1>7 DEF GetDown

LEMMA TrieInvNext == TrieInv /\ [TrieNext]_trieVars => TrieInv'
  <1> SUFFICES ASSUME TrieInv, [TrieNext]_trieVars
               PROVE  TrieInv'
    OBVIOUS
  <1>1. CASE \E key \in TrieKeys : TrieAdd(key) \/ TrieGet(key)
    BY <1>1, TrieInvAdd, TrieInvGet
  <1>2. CASE SearchLevel
    BY <1>2, TrieInvSearch
  <1>3. CASE AddDescend
    BY <1>3, TrieInvDescend
  <1>4. CASE AddFinish
    BY <1>4, TrieInvFinish
  <1>5. CASE GetDown
    BY <1>5, TrieInvDown
  <1>6. CASE UNCHANGED trieVars
    <2>1. PICK before : TrieShape(trie, before, stored) /\ ValuesKept(trie, before) /\ WalkFits(before)
      BY DEF TrieInv
    <2>2. trie' = trie /\ walk' = walk /\ stored' = stored
      BY <1>6 DEF trieVars
    <2>3. TrieTypes /\ walk' \in WalkType
      BY <2>2 DEF TrieInv, TrieTypes
    <2>4. WalkFits(before)'
      <3>1. \A r : ValueOf(r)' = ValueOf(r)
        BY <2>2, ValueKept
      <3>2. DevicesResolve => DevicesResolve'
        BY <2>2, <3>1 DEF DevicesResolve
      <3> QED
        BY <2>1, <2>2, <3>2 DEF WalkFits
    <2> QED
      BY <2>1, <2>2, <2>3, <2>4, TrieKept
  <1> QED
    BY <1>1, <1>2, <1>3, <1>4, <1>5, <1>6 DEF TrieNext

(* The answers of trie_get: a device path is found, with the value that    *)
(* was added last, and any answer is the value of a key that differs from  *)
(* the asked one in its last character at most; for every set of keys and  *)
(* any number of additions.                                                *)
THEOREM DevicesAreFound == TrieSpec => []DevicesResolve
  <1>1. TrieInv => DevicesResolve
    BY DEF TrieInv, WalkFits
  <1> QED
    BY <1>1, TrieInvInit, TrieInvNext, PTL DEF TrieSpec
=============================================================================
