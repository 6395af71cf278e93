---------------------------- MODULE AddressSpace ----------------------------
(***************************************************************************)
(* User address spaces: page tables, copy-on-write and the reference       *)
(* counts of page frames (memory/paging.c, memory/mmap.c), page faults     *)
(* (system/userfault.c) and the loader of programs (filesystem/elf.c).     *)
(*                                                                         *)
(* A fault or a system call runs with IRQs masked, so it is one action;    *)
(* between two of them any process may run, which stands for the           *)
(* scheduler.  buddy_alloc returns a free frame or NULL (PageAllocator).   *)
(* The tree of page tables of a process is one frame, table[p], and a      *)
(* function from pages to entries; a VMA is a page with permissions.       *)
(* User memory is mapped by single pages of order 0, never by blocks.      *)
(***************************************************************************)
EXTENDS Naturals, FiniteSets, Sequences

CONSTANTS
    Procs,             \* the PCBs that fork can allocate
    Shell,             \* the process that the kernel starts
    Pages,             \* the pages of a user address space, from 0
    StackPages,        \* the pages of the stack VMA of procalloc
    Frames,            \* the frames that buddy_alloc manages
    NoFrame,           \* in an entry that is not valid
    NullFrame,         \* va_to_pa(NULL), when buddy_alloc returned NULL
    Values,            \* contents of a page
    Zero,              \* what buddy_alloc_pt fills a table with
    Programs,          \* executables, as sequences of program headers
    PAGE_SIZE,         \* units of p_memsz and p_filesz in a page
    Prots,             \* the permissions that programs ask mmap for
    Workload,          \* the calls that programs make
    FrameArrayMapped   \* can handle_el0_fault read the page frame array at
                       \* pa_to_va(page_frame_array_start())?

Permissions == {"R", "W"}

\* Elf64_Phdr, with the page of p_vaddr and the contents that the file has for
\* the segment.
ProgramHeaders ==
    [load : BOOLEAN, page : Nat, memsz : Nat, filesz : Nat,
     prot : SUBSET Permissions, contents : Values]

ASSUME AddressSpaceConstants ==
    /\ Shell \in Procs
    /\ StackPages \subseteq Pages /\ Pages \subseteq Nat
    /\ IsFiniteSet(Procs) /\ IsFiniteSet(Pages) /\ IsFiniteSet(Frames)
    /\ NoFrame \notin Frames \cup Values /\ NullFrame \notin Frames /\ NoFrame # NullFrame
    /\ Zero \in Values
    /\ Programs \subseteq Seq(ProgramHeaders)
    /\ PAGE_SIZE \in Nat \ {0}
    /\ Prots \subseteq SUBSET Permissions
    /\ Workload \subseteq {"fork", "exec", "exit", "mmap", "copy"}
    /\ FrameArrayMapped \in BOOLEAN

VARIABLES
    state,      \* of a process: unused, live or terminated
    table,      \* the frame of the page tables, pcb->ttbr
    pt,         \* the leaf entries of the page tables
    vma,        \* the permissions of the VMA that holds a page, or NoVma
    allocated,  \* the frames whose state is not PAGE_FREE
    refcount,   \* page_frame_t.refcount
    data,       \* what is in a frame
    fault,      \* the access that a process repeats after a fault
    halted      \* "no"; "crash" after halt(); "hang" after an abort in EL1

vars == <<state, table, pt, vma, allocated, refcount, data, fault, halted>>

Ap        == {"RW", "RO", "NA"}   \* EL0_RW_EL1_RW, EL0_RO_EL1_RO, EL0_NA_EL1_RO
Entries   == [frame : Frames \cup {NoFrame, NullFrame}, ap : Ap, cow : BOOLEAN]
Invalid   == [frame |-> NoFrame, ap |-> "NA", cow |-> FALSE]
NoVma     == {"none"}
NoFault   == <<>>
Kinds     == {"read", "write"}

Valid(e)  == e.frame # NoFrame
Users(f)  == {u \in Procs \X Pages : pt[u[1]][u[2]].frame = f}
UsesBy(p, f) == Cardinality({v \in Pages : pt[p][v].frame = f})
Image(p)  == {v \in Pages : Valid(pt[p][v])}

\* The MMU: what an access from EL0 needs.
Permitted(e, k) ==
    /\ e.frame \in Frames
    /\ e.ap = "RW" \/ (e.ap = "RO" /\ k = "read")

\* parse_block_flags for a user page.
ApOf(prot) ==
    IF {"R", "W"} \subseteq prot THEN "RW" ELSE IF "R" \in prot THEN "RO" ELSE "NA"

\* map_pages, for the entry e of a page: an entry that is valid is left alone.
MapPages(e, f, prot) ==
    IF Valid(e) THEN e ELSE [frame |-> f, ap |-> ApOf(prot), cow |-> FALSE]

\* What buddy_alloc(PAGE_SIZE) may return.
BuddyAlloc == IF allocated = Frames THEN {NullFrame} ELSE Frames \ allocated

\* A process that can run in EL0 and is not in the middle of an access.
Ready(p) ==
    /\ halted = "no"
    /\ state[p] = "live"
    /\ fault[p] = NoFault
    /\ Image(p) # {}

\* An abort in EL1: sync_invalid_el1h waits for a debugger for ever.
Hang ==
    /\ halted' = "hang"
    /\ UNCHANGED <<state, table, pt, vma, allocated, refcount, data, fault>>
-----------------------------------------------------------------------------
\* procalloc for the shell, whose first program add_shell_to_scheduler loads.
Init ==
    /\ state = [p \in Procs |-> IF p = Shell THEN "live" ELSE "unused"]
    /\ \E f \in Frames :
        /\ table = [p \in Procs |-> IF p = Shell THEN f ELSE NoFrame]
        /\ allocated = {f}
        /\ refcount = [g \in Frames |-> IF g = f THEN 1 ELSE 0]
    /\ pt = [p \in Procs |-> [v \in Pages |-> Invalid]]
    /\ vma = [p \in Procs |->
                [v \in Pages |-> IF p = Shell /\ v \in StackPages THEN {"R", "W"} ELSE NoVma]]
    /\ data = [f \in Frames |-> Zero]
    /\ fault = [p \in Procs |-> NoFault]
    /\ halted = "no"

\* A user instruction reads or writes a page it may access.
Access(p, v, k, x) ==
    /\ halted = "no" /\ state[p] = "live"
    /\ fault[p] \in {NoFault, <<v, k>>}
    /\ Permitted(pt[p][v], k)
    /\ data' = IF k = "write" THEN [data EXCEPT ![pt[p][v].frame] = x] ELSE data
    /\ fault' = [fault EXCEPT ![p] = NoFault]
    /\ UNCHANGED <<state, table, pt, vma, allocated, refcount, halted>>

\* A user instruction that the MMU refuses: handle_el0_fault runs, and the
\* instruction is repeated after it.
Faults(p, v, k) ==
    /\ Image(p) # {}
    /\ halted = "no" /\ state[p] = "live"
    /\ fault[p] \in {NoFault, <<v, k>>}
    /\ ~Permitted(pt[p][v], k)

\* check_cow: the walk ends at an entry with the copy-on-write bit.
CheckCow(p, v) == pt[p][v].cow

\* The frames after decrement_ref of every frame as often as n says.
DecrementRefs(n) ==
    LET ref == [f \in Frames |-> refcount[f] - n[f]]
    IN  [ref |-> ref, freed |-> {f \in allocated : ref[f] = 0}]

\* Mutant: the test comes after the count was decremented.
SoleTooLate(f) == refcount[f] = 0

\* The test of handle_el0_fault whether nobody else has the frame.
Sole(f) == refcount[f] = 1

\* Mutant: the new page is not filled.
CopyNothing(old, new) == data

\* memcpy(new_page, base_addr, PAGE_SIZE)
CopyPage(old, new) == [data EXCEPT ![new] = data[old]]

\* handle_el0_fault, when check_cow finds the copy-on-write bit set: copy the
\* page, and make the entry writable again if nobody else had the original.
\* The original's count is read through pa_to_va(page_frame_array_start()).
CowFault(p, v, k) ==
    /\ Faults(p, v, k)
    /\ CheckCow(p, v)
    /\ \E new \in BuddyAlloc :
        LET old  == pt[p][v].frame
            sole == Sole(old)
            dec  == DecrementRefs([f \in Frames |-> IF f = old THEN 1 ELSE 0])
        IN  IF new = NullFrame \/ ~FrameArrayMapped
            THEN Hang
            ELSE /\ data' = CopyPage(old, new)
                 /\ pt' = [pt EXCEPT ![p][v] =
                            [frame |-> new,
                             ap    |-> IF sole THEN "RW" ELSE @.ap,
                             cow   |-> ~sole]]
                 /\ refcount' = [dec.ref EXCEPT ![new] = 1]
                 /\ allocated' = (allocated \ dec.freed) \cup {new}
                 /\ fault' = [fault EXCEPT ![p] = <<v, k>>]
                 /\ UNCHANGED <<state, table, vma, halted>>

\* check_vma: the address is in a VMA.  When map_pages finds a valid entry the new
\* page is lost.
VmaFault(p, v, k) ==
    /\ Faults(p, v, k)
    /\ ~CheckCow(p, v)
    /\ vma[p][v] # NoVma
    /\ \E new \in BuddyAlloc :
        /\ pt' = [pt EXCEPT ![p][v] = MapPages(@, new, vma[p][v])]
        /\ allocated' = allocated \cup ({new} \cap Frames)
        /\ refcount' = [f \in Frames |-> IF f = new THEN 1 ELSE refcount[f]]
    /\ fault' = [fault EXCEPT ![p] = <<v, k>>]
    /\ UNCHANGED <<state, table, vma, data, halted>>

\* handle_el0_fault, otherwise: halt() stops the kernel with IRQs masked.
GenuineFault(p, v, k) ==
    /\ Faults(p, v, k)
    /\ ~CheckCow(p, v)
    /\ vma[p][v] = NoVma
    /\ halted' = "crash"
    /\ UNCHANGED <<state, table, pt, vma, allocated, refcount, data, fault>>

\* clone_page_table: the entry that both sides have after the fork.
CowEntry(e) == IF Valid(e) THEN [e EXCEPT !.ap = "RO", !.cow = TRUE] ELSE e

\* Mutant: the new user is not counted.
CloneRefSame(p, f) == refcount[f]

\* clone_page_table: refcount++ for every entry.
CloneRef(p, f) == refcount[f] + UsesBy(p, f)

\* clone_page_table builds tables of their own for the child.
ChildTable(p, new) == new

\* clone_active_proc: the VMAs are copied, then clone_virtual_memory.  Without
\* a page for the tables it writes through NULL; the frame of an entry that
\* holds va_to_pa(NULL) is far outside the page frame array.
Fork(p, c) ==
    /\ "fork" \in Workload
    /\ Ready(p)
    /\ state[c] = "unused"
    /\ \E new \in BuddyAlloc :
        LET shared == [v \in Pages |-> CowEntry(pt[p][v])]
        IN  IF new = NullFrame \/ UsesBy(p, NullFrame) > 0
            THEN Hang
            ELSE /\ state' = [state EXCEPT ![c] = "live"]
                 /\ table' = [table EXCEPT ![c] = ChildTable(p, new)]
                 /\ pt' = [pt EXCEPT ![p] = shared, ![c] = shared]
                 /\ vma' = [vma EXCEPT ![c] = vma[p]]
                 /\ allocated' = allocated \cup {new}
                 /\ refcount' = [f \in Frames |-> IF f = new THEN 1 ELSE CloneRef(p, f)]
                 /\ data' = [data EXCEPT ![new] = Zero]
                 /\ UNCHANGED <<fault, halted>>

\* reap_virtual_memory of p: one decrement_ref per valid entry and one for the
\* tables.
Reaped(p) ==
    DecrementRefs([f \in Frames |-> UsesBy(p, f) + (IF f = table[p] THEN 1 ELSE 0)])

\* The part of reap() that gives the memory of the process back.
Exit(p) ==
    /\ "exit" \in Workload
    /\ Ready(p)
    /\ IF UsesBy(p, NullFrame) > 0
       THEN Hang
       ELSE /\ state' = [state EXCEPT ![p] = "terminated"]
            /\ table' = [table EXCEPT ![p] = NoFrame]
            /\ pt' = [pt EXCEPT ![p] = [v \in Pages |-> Invalid]]
            /\ refcount' = Reaped(p).ref
            /\ allocated' = allocated \ Reaped(p).freed
            /\ UNCHANGED <<vma, data, fault, halted>>
-----------------------------------------------------------------------------
\* The headers that readelf loads: a header of another type is looked at again
\* and again, as program_header is not advanced.
Loaded(prog) == {i \in DOMAIN prog : \A j \in 1..i : prog[j].load}

Ceil(n) == (n + PAGE_SIZE - 1) \div PAGE_SIZE

\* Pages of a segment, its pages that come from the file, and the pages that
\* readelf maps: 1 << log2_pow2(p_memsz / 4096).
SegmentPages(s) == s.page..(s.page + Ceil(s.memsz) - 1)
FilePages(s)    == s.page..(s.page + Ceil(s.filesz) - 1)
Log2(n)         == IF n = 0 THEN 0 ELSE CHOOSE o \in 0..n : 2^o <= n /\ n < 2^(o + 1)
MappedPages(s)  == s.page..(s.page + 2^Log2(s.memsz \div PAGE_SIZE) - 1)

\* The segment that page v of a program is in.
SegmentOf(prog, v) == prog[CHOOSE i \in Loaded(prog) : v \in MappedPages(prog[i])]

\* An entry for page v: mapped read/write for the copy, then update_mapping
\* with the permissions of the segment.
LoadedEntry(prog, v, f) ==
    LET s == SegmentOf(prog, v)
    IN  MapPages(Invalid, f, IF v \in SegmentPages(s) THEN s.prot ELSE {"R", "W"})

\* What buddy_alloc may return for the pages of the segments, in ascending
\* order, after the frame tab for the tables: NULL once no frame is left.
Layouts(need, tab) ==
    LET free == Frames \ (allocated \cup {tab})
    IN  {g \in [need -> free \cup {NullFrame}] :
            \A w \in need :
                LET before == {g[v] : v \in {u \in need : u < w}}
                IN  /\ g[w] # NullFrame => g[w] \notin before
                    /\ g[w] = NullFrame => free \subseteq before}

\* The pages that readelf maps for a program, and those it copies from the file.
NeedPages(prog) == UNION {MappedPages(prog[i]) : i \in Loaded(prog)}
CopiedPages(prog) == UNION {FilePages(prog[i]) : i \in Loaded(prog)}

\* The frames that readelf got: for the tables and for the pages.
GotFrames(prog, tab, g) ==
    {tab} \cup {g[v] : v \in {w \in NeedPages(prog) : g[w] # NullFrame}}

\* The frames after zeroing the tables and copying the segments.
LoadedData(prog, tab, g) ==
    [f \in Frames |->
        IF f = tab THEN Zero
        ELSE IF \E v \in CopiedPages(prog) : g[v] = f
        THEN SegmentOf(prog, CHOOSE v \in CopiedPages(prog) : g[v] = f).contents
        ELSE data[f]]

\* sys_execve with memory for all that it copies: readelf builds a new address
\* space, copies the segments into it through the new mapping and reaps the
\* old one.  The VMAs stay.
Load(p, prog, tab, g) ==
    /\ pt' = [pt EXCEPT ![p] = [v \in Pages |->
                IF v \in NeedPages(prog) THEN LoadedEntry(prog, v, g[v]) ELSE Invalid]]
    /\ table' = [table EXCEPT ![p] = tab]
    /\ refcount' = [f \in Frames |->
                      IF f \in GotFrames(prog, tab, g) THEN 1 ELSE Reaped(p).ref[f]]
    /\ allocated' = (allocated \ Reaped(p).freed) \cup GotFrames(prog, tab, g)
    /\ data' = LoadedData(prog, tab, g)
    /\ UNCHANGED <<state, vma, fault, halted>>

\* sys_execve.  A copy to a page that has no frame aborts in EL1.
Exec(p, prog) ==
    /\ Ready(p) \/ (state[p] = "live" /\ Image(p) = {} /\ halted = "no")
    /\ "exec" \in Workload \/ Image(p) = {}
    /\ \E tab \in BuddyAlloc : \E g \in Layouts(NeedPages(prog), tab) :
        IF \/ tab = NullFrame
           \/ \E v \in CopiedPages(prog) : v \notin NeedPages(prog) \/ g[v] = NullFrame
           \/ UsesBy(p, NullFrame) > 0
        THEN Hang
        ELSE Load(p, prog, tab, g)

\* sys_mmap of a page that no VMA holds yet.
Mmap(p, v, prot) ==
    /\ "mmap" \in Workload
    /\ Ready(p)
    /\ vma[p][v] = NoVma
    /\ vma' = [vma EXCEPT ![p][v] = prot]
    /\ UNCHANGED <<state, table, pt, allocated, refcount, data, fault, halted>>

\* A system call copies into the user's buffer (pipe_read): the kernel has no
\* handler for the abort that a page which is absent or read-only causes.
CopyToUser(p, v, x) ==
    /\ "copy" \in Workload
    /\ Ready(p)
    /\ Valid(pt[p][v]) \/ vma[p][v] # NoVma
    /\ IF Permitted(pt[p][v], "write")
       THEN /\ data' = [data EXCEPT ![pt[p][v].frame] = x]
            /\ UNCHANGED <<state, table, pt, vma, allocated, refcount, fault, halted>>
       ELSE Hang

Fault(p, v, k) == CowFault(p, v, k) \/ VmaFault(p, v, k) \/ GenuineFault(p, v, k)

Next ==
    \E p \in Procs :
        \/ \E v \in Pages, k \in Kinds : Fault(p, v, k)
        \/ \E v \in Pages, k \in Kinds, x \in Values : Access(p, v, k, x)
        \/ \E v \in Pages, x \in Values : CopyToUser(p, v, x)
        \/ \E v \in Pages, prot \in Prots : Mmap(p, v, prot)
        \/ \E c \in Procs : Fork(p, c)
        \/ \E prog \in Programs : Exec(p, prog)
        \/ Exit(p)

Spec == Init /\ [][Next]_vars

\* A process whose access faulted repeats it.
Retry(p) ==
    \E v \in Pages, k \in Kinds :
        /\ fault[p] = <<v, k>>
        /\ Fault(p, v, k) \/ \E x \in Values : Access(p, v, k, x)

FairSpec == Spec /\ \A p \in Procs : WF_vars(Retry(p))
-----------------------------------------------------------------------------
\* TypeOK: every variable has its type.
TypeOK ==
    /\ state \in [Procs -> {"unused", "live", "terminated"}]
    /\ table \in [Procs -> Frames \cup {NoFrame}]
    /\ pt \in [Procs -> [Pages -> Entries]]
    /\ vma \in [Procs -> [Pages -> (SUBSET Permissions) \cup {NoVma}]]
    /\ allocated \subseteq Frames
    /\ refcount \in [Frames -> Nat]
    /\ data \in [Frames -> Values]
    /\ fault \in [Procs -> {NoFault} \cup (Pages \X Kinds)]
    /\ halted \in {"no", "crash", "hang"}

\* Whatever forks, faults, execs and exits do, the count of a frame that is
\* mapped is the number of entries that hold it, so decrement_ref frees it with
\* its last user and not before.
RefcountExact ==
    \A f \in Frames :
        Users(f) # {} => f \in allocated /\ refcount[f] = Cardinality(Users(f))

\* The page tables of a living process are in a frame of their own, which is
\* neither free nor mapped nor the table of another process.
TablesPrivate ==
    \A p \in Procs : state[p] = "live" =>
        /\ table[p] \in allocated
        /\ refcount[table[p]] = 1
        /\ Users(table[p]) = {}
        /\ \A q \in Procs \ {p} : table[q] # table[p]

\* A frame that two entries share is read-only and marked copy-on-write in
\* both: no write to it goes past handle_el0_fault.
SharedIsCow ==
    \A f \in Frames : \A u, w \in Users(f) :
        u # w => pt[u[1]][u[2]].ap = "RO" /\ pt[u[1]][u[2]].cow

\* What fork, faults, exec and exit leave of the page tables: counts are exact,
\* tables are nobody else's, and pages are shared by copy-on-write only.
SharingExact == TypeOK /\ RefcountExact /\ TablesPrivate /\ SharedIsCow

\* What the programs see of the machine.
LiveProcs == {p \in Procs : state[p] = "live"}
BusyProcs == {p \in Procs : fault[p] # NoFault}
Contents(e) == IF e.frame \in Frames THEN data[e.frame] ELSE NoFrame
UserMemory == [p \in Procs |-> [v \in Pages |-> Contents(pt[p][v])]]

\* The sharing is invisible: for programs, every process has its own memory.
Memory == INSTANCE PrivateMemory WITH
    Absent <- NoFrame, live <- LiveProcs, busy <- BusyProcs, mem <- UserMemory
MemoryIsPrivate == Memory!Spec

\* What handle_el0_fault can do about an access <<v, k>>: it copies the page of
\* a marked entry and makes the copy writable, maps an absent page with the
\* permissions of its VMA, and halts outside of all VMAs.  It can do nothing
\* about a valid entry that is read-only without the mark.
Resolvable(p, v, k) ==
    LET e == pt[p][v] IN
    \/ Permitted(e, k)
    \/ e.cow
    \/ vma[p][v] = NoVma
    \/ ~Valid(e) /\ \A f \in Frames : Permitted(MapPages(e, f, vma[p][v]), k)

\* An access that faults and that handle_el0_fault can do something about is
\* completed, also while other processes fork, copy and exit, unless the kernel
\* stops or runs out of frames: the process does not fault for ever.
FaultingAccessCompletes ==
    \A p \in Procs :
        (fault[p] # NoFault /\ Resolvable(p, fault[p][1], fault[p][2]))
            ~> (fault[p] = NoFault \/ halted # "no" \/ allocated = Frames)

\* "resolved the faulting address with lazy mapping, so we can return to user
\* space" (userfault.c:37): the access for which the handler returned is
\* completed.
LazyMappingResolves ==
    \A p \in Procs :
        (fault[p] # NoFault /\ vma[p][fault[p][1]] # NoVma)
            ~> (fault[p] = NoFault \/ halted # "no")

\* Only an address outside of all VMAs stops the kernel: "halt for genuine
\* crash" (userfault.c:140).
OnlyCrashesHalt == halted # "hang"
=============================================================================
