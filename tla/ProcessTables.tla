--------------------------- MODULE ProcessTables ---------------------------
(***************************************************************************)
(* What a PCB says of memory and files: the list of VMAs, the heap with    *)
(* its break, the table of file descriptors, and the file objects and disk *)
(* inodes that open allocates (process.c, syscalls.c, filesystem.c).       *)
(*                                                                         *)
(* System calls run with IRQs masked, so each is one action.  VMAs and     *)
(* files are objects with identities, since fork copies some pointers and  *)
(* some objects.  heap_vma is the field in front of fds: an index of -1    *)
(* into fds is heap_vma.                                                   *)
(***************************************************************************)
EXTENDS Integers, Sequences, FiniteSets, FiniteSetsExt, SequencesExt

CONSTANTS
    Procs, First,   \* PCBs; the process that procalloc makes
    MAX_OPEN_FILES, \* 32
    PAGE_SIZE,      \* addresses in a page
    Limit,          \* user addresses are 0..Limit; the stack ends at Limit
    Breaks,         \* values of start_brk that programs have
    Regions,        \* the pairs <<addr, len>> that programs pass to mmap
    Addresses,      \* the addresses that programs pass to brk
    Inodes,         \* files on the disk, by their inode
    Prots,          \* the permissions that programs pass to mmap
    Devices,        \* the devices of the trie that programs open
    Slaves,         \* I2C addresses
    MaxVmas,        \* bound: VMA objects ever allocated
    MaxFiles,       \* bound: file objects ever allocated
    MaxLeaks        \* bound: opens of missing files

NULL == 0
NoHeap == <<>>

ASSUME ProcessTablesAssumption ==
    /\ First \in Procs
    /\ MAX_OPEN_FILES \in Nat /\ MAX_OPEN_FILES >= 3
    /\ PAGE_SIZE \in Nat /\ PAGE_SIZE > 0
    /\ MaxVmas \in Nat /\ MaxVmas >= 1 /\ MaxFiles \in Nat /\ MaxFiles >= 3
    /\ Limit \in Nat /\ Limit % PAGE_SIZE = 0 /\ Limit >= 2 * PAGE_SIZE
    /\ Breaks \subseteq 0..Limit /\ Addresses \subseteq 0..Limit
    /\ Regions \subseteq Nat \X Nat
    /\ NULL \notin Inodes /\ NULL \notin Procs
    /\ Prots \subseteq {{"R"}, {"R", "W"}}
    /\ Devices \subseteq {"ttyS1", "i2c", "fb0"}

VARIABLES
    parent,    \* the process that forked it; NULL for an unused PCB
    vmas,      \* pcb->vmas: the list of VMAs from its head
    vma,       \* the VMA objects
    heap,      \* pcb->heap_vma: <<"vma", v>>, <<"file", f>> or NoHeap
    brk,       \* pcb->brk; start_brk is always the same
    fds,       \* pcb->fds
    file,      \* the file objects: what they are, private_data or inode
    slots,     \* what the inode objects of the slab hold, in slab order
    leaked,    \* the inode objects that open never frees
    own,       \* history: descriptors a process got from open, not by fork
    hung       \* an abort in EL1

vars == <<parent, vmas, vma, heap, brk, fds, file, slots, leaked, own, hung>>

VmaIds == 1..MaxVmas
FileIds == 1..MaxFiles
Fds == 0..MAX_OPEN_FILES - 1
NoVma == [start |-> 0, end |-> 0, permissions |-> {}]
NoFile == [ops |-> "none", data |-> <<>>]
Stdio == [ops |-> "stdio", data |-> <<>>]

AlignDown(a) == a - (a % PAGE_SIZE)

AlignUp(a) == AlignDown(a + PAGE_SIZE - 1)

Live(p) == parent[p] # NULL /\ ~hung
FreshVmas == {v \in VmaIds : vma[v] = NoVma}
FreshFiles == {f \in FileIds : file[f].ops = "none"}
-----------------------------------------------------------------------------
(* procalloc: the stack's VMA of two pages, and three descriptors. *)
Init ==
    /\ parent = [p \in Procs |-> IF p = First THEN First ELSE NULL]
    /\ vmas = [p \in Procs |-> IF p = First THEN <<1>> ELSE <<>>]
    /\ vma = [v \in VmaIds |->
               IF v = 1 THEN [start |-> Limit - 2 * PAGE_SIZE, end |-> Limit,
                              permissions |-> {"R", "W"}]
               ELSE NoVma]
    /\ heap = [p \in Procs |-> NoHeap]
    /\ brk = [p \in Procs |-> 0]
    /\ fds = [p \in Procs |-> [i \in Fds |-> IF p = First /\ i < 3 THEN i + 1 ELSE NULL]]
    /\ file = [f \in FileIds |-> IF f <= 3 THEN Stdio ELSE NoFile]
    /\ slots = [f \in FileIds |-> NULL] /\ leaked = {}
    /\ own = [p \in Procs |-> {}]
    /\ hung = FALSE

Hang == hung' = TRUE /\ UNCHANGED <<parent, vmas, vma, heap, brk, fds, file, slots, leaked, own>>

(* list_entry order: the loop of clone_active_proc walks the parent's list *)
(* backwards and adds each copy at the front.                              *)
\* Mutant: the list is walked forwards, and the copy is in reverse order.
ClonedReversed(p, ids) == [i \in 1..Len(vmas[p]) |-> ids[Len(vmas[p]) + 1 - i]]
Cloned(p, ids) == ids

(* clone_active_proc: the PCB is copied byte by byte, then the VMAs.  The  *)
(* copy of heap_vma still points at the parent's VMA, that of fds at the   *)
(* parent's files.                                                         *)
Fork(p, q) ==
    /\ Live(p) /\ parent[q] = NULL
    /\ Cardinality(FreshVmas) >= Len(vmas[p])
    /\ LET n   == Len(vmas[p])
           ids == CHOOSE f \in [1..n -> FreshVmas] : IsInjective(f)
           src == [v \in ToSet(ids) |-> vmas[p][CHOOSE i \in 1..n : Cloned(p, ids)[i] = v]] IN
       /\ vmas' = [vmas EXCEPT ![q] = ids]
       /\ vma' = [v \in VmaIds |-> IF v \in ToSet(ids) THEN vma[src[v]] ELSE vma[v]]
    /\ parent' = [parent EXCEPT ![q] = p]
    /\ heap' = [heap EXCEPT ![q] = heap[p]]
    /\ brk' = [brk EXCEPT ![q] = brk[p]]
    /\ fds' = [fds EXCEPT ![q] = fds[p]]
    /\ UNCHANGED <<file, slots, leaked, own, hung>>
-----------------------------------------------------------------------------
(* A VMA that the comparisons of mmap and brk find around an address. *)
Around(v, a) == vma[v].start < a /\ a < vma[v].end

(* sys_mmap: the last VMA of the list around addr is the answer; without   *)
(* one a VMA is added at the front, whatever lies between its ends.        *)
Mmap(p, addr, len, prot) ==
    /\ Live(p)
    /\ \A v \in ToSet(vmas[p]) : ~Around(v, addr)
    /\ FreshVmas # {}
    /\ LET v == Min(FreshVmas) IN
       /\ vma' = [vma EXCEPT ![v] = [start |-> AlignDown(addr), end |-> AlignUp(addr + len),
                                     permissions |-> prot]]
       /\ vmas' = [vmas EXCEPT ![p] = <<v>> \o @]
    /\ UNCHANGED <<parent, heap, brk, fds, file, slots, leaked, own, hung>>

(* The bounds that sys_brk sees through heap_vma; a file object read as a  *)
(* VMA gives its inode pointer and position, which is 0.                   *)
HeapEnd(p) == IF heap[p][1] = "vma" THEN vma[heap[p][2]].end ELSE 0

BrkDenied(p, addr) ==
    \/ addr < HeapEnd(p)
    \/ \E v \in ToSet(vmas[p]) : heap[p] # <<"vma", v>> /\ Around(v, addr)

(* sys_brk: the first call makes an empty heap at start_brk, the others    *)
(* move its end.  A heap_vma that is a file gets its position overwritten. *)
Brk(p, a) ==
    /\ Live(p)
    /\ IF heap[p] = NoHeap
       THEN /\ FreshVmas # {}
            /\ LET v == Min(FreshVmas) IN
               /\ vma' = [vma EXCEPT ![v] = [start |-> brk[p], end |-> brk[p],
                                             permissions |-> {"R", "W"}]]
               /\ vmas' = [vmas EXCEPT ![p] = <<v>> \o @]
               /\ heap' = [heap EXCEPT ![p] = <<"vma", v>>]
       ELSE /\ ~BrkDenied(p, AlignUp(a))
            /\ vma' = IF heap[p][1] = "vma" THEN [vma EXCEPT ![heap[p][2]].end = AlignUp(a)] ELSE vma
            /\ UNCHANGED <<vmas, heap>>
    /\ UNCHANGED <<parent, brk, fds, file, slots, leaked, own, hung>>
-----------------------------------------------------------------------------
(* fd_alloc: the first free entry, or -1. *)
FreeFds(p) == {i \in Fds : fds[p][i] = NULL}

\* Mutant: the last entry is never used.
FdAllocStopsEarly(p) == LET free == FreeFds(p) \ {MAX_OPEN_FILES - 1} IN
                        IF free = {} THEN -1 ELSE Min(free)
FdAlloc(p) == IF FreeFds(p) = {} THEN -1 ELSE Min(FreeFds(p))

(* The end of sys_open: the entry fd_alloc returned is set, and entry -1   *)
(* is heap_vma.                                                            *)
Install(p, f) ==
    IF FdAlloc(p) = -1
    THEN heap' = [heap EXCEPT ![p] = <<"file", f>>] /\ UNCHANGED <<fds, own>>
    ELSE /\ fds' = [fds EXCEPT ![p][FdAlloc(p)] = f]
         /\ own' = [own EXCEPT ![p] = @ \cup {FdAlloc(p)}]
         /\ UNCHANGED heap

\* Mutant: the descriptor is the device's own file object.
DeviceFileShared(dev) ==
    LET used == {f \in FileIds : file[f].ops = dev} IN
    IF used # {} THEN Min(used) ELSE Min(FreshFiles)

(* The copy of the device's file object that sys_open makes. *)
DeviceFile(dev) == Min(FreshFiles)

(* sys_open of a device of the trie, with the open operation of its file.  *)
(* The value of /dev/fb0 is 1 and is taken for the address of a file.      *)
OpenDevice(p, dev) ==
    /\ Live(p) /\ FreshFiles # {}
    /\ IF dev = "fb0" THEN Hang
       ELSE /\ file' = [file EXCEPT ![DeviceFile(dev)] = [ops |-> dev, data |-> <<>>]]
            /\ Install(p, DeviceFile(dev))
            /\ UNCHANGED <<parent, vmas, vma, brk, slots, leaked, hung>>

(* open of a path that resolves to inode n: the inode object, the first    *)
(* free one, is filled, and freed before the file is returned.             *)
FirstFree == Min(FileIds \ leaked)

DiskFile(n) ==
    /\ FreshFiles # {} /\ leaked # FileIds
    /\ file' = [file EXCEPT ![Min(FreshFiles)] = [ops |-> "disk", data |-> <<FirstFree, n>>]]
    /\ slots' = [slots EXCEPT ![FirstFree] = n]

OpenDisk(p, n) ==
    /\ Live(p)
    /\ DiskFile(n)
    /\ Install(p, Min(FreshFiles))
    /\ UNCHANGED <<parent, vmas, vma, brk, leaked, hung>>

(* open of a path that is relative or does not resolve: sys_open and       *)
(* sys_execve return an error, and the inode object is never freed.        *)
OpenMissing(p) ==
    /\ Live(p) /\ Cardinality(leaked) < MaxLeaks
    /\ leaked' = leaked \cup {FirstFree}
    /\ slots' = [slots EXCEPT ![FirstFree] = NULL]
    /\ UNCHANGED <<parent, vmas, vma, heap, brk, fds, file, own, hung>>

(* sys_execve: the file object is dropped without close, the break is the  *)
(* new program's, and VMAs, heap and descriptors stay.                     *)
Execve(p, n, b) ==
    /\ Live(p)
    /\ DiskFile(n)
    /\ brk' = [brk EXCEPT ![p] = b]
    /\ UNCHANGED <<parent, vmas, vma, heap, fds, leaked, own, hung>>

(* sys_read, sys_write and sys_ioctl of a descriptor whose file has no     *)
(* operations: file_ops is NULL.                                           *)
UseDisk(p, i) ==
    /\ Live(p) /\ fds[p][i] # NULL
    /\ file[fds[p][i]].ops = "disk"
    /\ Hang

(* i2c_ioctl(I2C_SLAVE): the address is kept in the file object. *)
Ioctl(p, i, s) ==
    /\ Live(p) /\ fds[p][i] # NULL
    /\ file[fds[p][i]].ops = "i2c"
    /\ file' = [file EXCEPT ![fds[p][i]].data = <<s>>]
    /\ UNCHANGED <<parent, vmas, vma, heap, brk, fds, slots, leaked, own, hung>>
-----------------------------------------------------------------------------
Next ==
    \E p \in Procs :
        \/ \E q \in Procs : Fork(p, q)
        \/ \E r \in Regions, prot \in Prots : Mmap(p, r[1], r[2], prot)
        \/ \E a \in Addresses : Brk(p, a)
        \/ \E dev \in Devices : OpenDevice(p, dev)
        \/ \E n \in Inodes : OpenDisk(p, n)
        \/ OpenMissing(p)
        \/ \E n \in Inodes, b \in Breaks : Execve(p, n, b)
        \/ \E i \in Fds : UseDisk(p, i) \/ \E s \in Slaves : Ioctl(p, i, s)

Spec == Init /\ [][Next]_vars
-----------------------------------------------------------------------------
(* heap_vma is the process's heap, or inherited from one: it points at     *)
(* something else only once the table of descriptors is full, when         *)
(* fd_alloc's -1 has been used as an index.                                *)
HeapOverwrittenOnlyWhenFull ==
    \A p \in Procs : heap[p] # NoHeap /\ heap[p][1] = "file" => FreeFds(p) = {}

(* The VMA that find_vma takes for an address: the first of the list. *)
Lookup(p, a) ==
    LET at == {i \in 1..Len(vmas[p]) : vma[vmas[p][i]].start <= a /\ a < vma[vmas[p][i]].end}
    IN  IF at = {} THEN NoVma ELSE vma[vmas[p][Min(at)]]

(* VMAs survive the calls of relatives.  After fork the child finds for    *)
(* every address the VMA with the bounds and permissions its parent finds, *)
(* also where mmap made VMAs overlap; and the end of a heap never moves    *)
(* down, whichever of the processes that share its VMA after forks calls   *)
(* brk.                                                                    *)
VmasKept ==
    [][/\ \A p, q \in Procs : parent[q] = NULL /\ parent'[q] = p =>
             \A a \in 0..Limit : Lookup(q, a)' = Lookup(p, a)'
       /\ \A p \in Procs : heap[p] # NoHeap /\ heap'[p] = heap[p] =>
             HeapEnd(p)' >= HeapEnd(p)]_vars

(* Two opens never give the same file object, so what ioctl stores for one *)
(* descriptor is not seen through another unless fork copied it.           *)
OpensAreSeparate ==
    \A p, q \in Procs : \A i \in own[p], j \in own[q] :
        <<p, i>> # <<q, j>> => fds[p][i] # fds[q][j]
=============================================================================
