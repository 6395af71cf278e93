---------------------------- MODULE BootMapping ----------------------------
(***************************************************************************)
(* The kernel's own page tables: map_high lays them before the MMU is on   *)
(* (boot/highhalf.c), and map adds to them afterwards (memory/mmap.c).     *)
(*                                                                         *)
(* Addresses are offsets from VIRT_BASE in units smaller than a page, so   *)
(* that a section may begin inside one.  The tables of level 0 and 1 have  *)
(* one entry each for RAM and are only counted; a level 2 entry covers a   *)
(* chunk of ENTRIES pages and is invalid, a block, or a table of pages.    *)
(***************************************************************************)
EXTENDS Integers, Sequences, FiniteSets, FiniteSetsExt

CONSTANTS
    PageUnits,   \* address units in a page
    ENTRIES,     \* 512: entries of a table, pages of a 2 MiB block
    RamPages,    \* pages of the first GiB
    BootPage,    \* the page of __kernel_start: 128, inside of the first chunk
    BootPages,   \* pages of the boot image at __kernel_start
    ImageSizes,  \* sizes that .text, .rodata, .data and .bss may have
    TailSizes,   \* pages that the page frame array, the static page region
                 \* and the test section may have
    MaxMaps      \* bound: calls of map after boot

ASSUME BootAssumption ==
    /\ PageUnits \in Nat /\ PageUnits > 0 /\ ENTRIES \in Nat /\ ENTRIES > 0
    /\ RamPages \in Nat /\ RamPages % ENTRIES = 0
    /\ BootPage \in Nat /\ BootPages \in Nat /\ MaxMaps \in Nat
    /\ ImageSizes \subseteq Nat /\ TailSizes \subseteq Nat \ {0}

VARIABLES
    layout,   \* the sections' bounds, as the linker script places them
    stage,    \* the step of map_high that is next
    l2,       \* the level 2 table of the high half
    tables,   \* lo_allocated_pages
    damage,   \* words of RAM, as page and index, that may have been written as
              \* if they were entries
    maps      \* calls of map so far

bootVars == <<layout, stage, l2, tables, damage, maps>>

Chunks == 0..(RamPages \div ENTRIES) - 1
ChunkOf(p) == p \div ENTRIES
PagesOf(c) == c * ENTRIES .. (c + 1) * ENTRIES - 1

NoEntry == [kind |-> "invalid"]
Block(pa, perms) == [kind |-> "block", pa |-> pa, perms |-> perms]
NoPage == [pa |-> -1, perms |-> "none"]

PageDown(a) == a \div PageUnits
PageUp(a) == (a + PageUnits - 1) \div PageUnits

(* linker.ld: .text follows the boot image without alignment, .bss follows *)
(* .data, the others begin at a page.                                      *)
Placed(text, rodata, data, bss, pfa, static, test) ==
    LET t0 == (BootPage + BootPages) * PageUnits + 1
        t1 == PageUp(t0 + text) * PageUnits
        r1 == PageUp(t1 + rodata) * PageUnits
        b0 == r1 + data
        b1 == b0 + bss
        k0 == PageUp(b1) * PageUnits
        f0 == k0 + 2 * PageUnits
        s0 == f0 + pfa * PageUnits
        e0 == s0 + static * PageUnits
    IN  [text |-> <<t0, t1>>, rodata |-> <<t1, r1>>, data |-> <<r1, b0>>, bss |-> <<b0, b1>>,
         kstack |-> <<k0, f0>>, pfa |-> <<f0, s0>>, static |-> <<s0, e0>>,
         test |-> <<e0, e0 + test * PageUnits>>]
-----------------------------------------------------------------------------
(* map_l3_range and map_pages: a missing level 3 table is made, and entries *)
(* that are valid stay as they are.  A valid level 2 entry is followed as a *)
(* table also when it is a block: then the word of the block's first page   *)
(* at the index of the page is taken for the entry, and written.            *)
EnterPages(m, va, pa, n, perms) ==
    LET ps == va..va + n - 1
        touched == {c \in Chunks : PagesOf(c) \cap ps # {}} IN
    [l2 |-> [c \in Chunks |->
        IF c \notin touched \/ m.l2[c].kind = "block" THEN m.l2[c]
        ELSE [kind |-> "table", l3 |-> [p \in PagesOf(c) |->
                LET old == IF m.l2[c].kind = "table" THEN m.l2[c].l3[p] ELSE NoPage IN
                IF p \in ps /\ old = NoPage THEN [pa |-> pa + (p - va), perms |-> perms]
                ELSE old]]],
     tables |-> m.tables + Cardinality({c \in touched : m.l2[c] = NoEntry}),
     damage |-> m.damage \cup {<<m.l2[ChunkOf(p)].pa, p % ENTRIES>> : p \in
                               {p \in ps : m.l2[ChunkOf(p)].kind = "block"}}]

(* map_l2_range: a level 2 entry that is valid stays as it is. *)
EnterBlocks(m, va, pa, n, perms) ==
    LET first == ChunkOf(va) IN
    [m EXCEPT !.l2 = [c \in Chunks |->
        IF c \in first..first + n - 1 /\ m.l2[c] = NoEntry
        THEN Block(pa + (c - first) * ENTRIES, perms) ELSE m.l2[c]]]

\* Mutant: the pages in front of the first block do not advance pa.
MapLoSamePa(m, va, pa, pages, perms) ==
    LET front  == Min({((ENTRIES - (va % ENTRIES)) % ENTRIES), pages})
        blocks == (pages - front) \div ENTRIES
        m1 == EnterPages(m, va, pa, front, perms)
        m2 == EnterBlocks(m1, va + front, pa, blocks, perms)
    IN  EnterPages(m2, va + front + blocks * ENTRIES, pa + blocks * ENTRIES,
                   (pages - front) % ENTRIES, perms)

(* map_lo: pages up to a 2 MiB border, then blocks, then pages. *)
MapLo(m, va, pa, pages, perms) ==
    LET front  == Min({((ENTRIES - (va % ENTRIES)) % ENTRIES), pages})
        blocks == (pages - front) \div ENTRIES
        m1 == EnterPages(m, va, pa, front, perms)
        m2 == EnterBlocks(m1, va + front, pa + front, blocks, perms)
    IN  EnterPages(m2, va + front + blocks * ENTRIES, pa + front + blocks * ENTRIES,
                   (pages - front) % ENTRIES, perms)

(* The regions that map_high maps, in its order, as first page, page after *)
(* the last, and permissions.                                              *)
Covering(s) == <<PageDown(layout[s][1]), PageUp(layout[s][2])>>

BootRegions == <<
    [pages |-> <<0, BootPage>>,                              perms |-> "RW"],
    [pages |-> Covering("text"),                               perms |-> "RX"],
    [pages |-> Covering("rodata"),                             perms |-> "RO"],
    [pages |-> Covering("bss"),                                perms |-> "RW"],
    [pages |-> Covering("static"),                             perms |-> "RW"],
    [pages |-> Covering("kstack"),                             perms |-> "RW"],
    [pages |-> Covering("pfa"),                                perms |-> "RW"],
    [pages |-> <<PageUp(layout.test[2]), RamPages>>,         perms |-> "RW"]>>
-----------------------------------------------------------------------------
(* Two level 0 tables are allocated first; the high half's level 1 and 2   *)
(* tables come with the first region, and the page of enable_mmu takes     *)
(* three tables in the low half.                                           *)
BootInit ==
    /\ layout = Placed(0, 0, 0, 0, 0, 0, 0) /\ stage = 0
    /\ l2 = [c \in Chunks |-> NoEntry]
    /\ tables = 0 /\ damage = {} /\ maps = 0

Link ==
    /\ stage = 0
    /\ \E text, rodata, data, bss \in ImageSizes, pfa, static, test \in TailSizes :
        /\ layout' = Placed(text, rodata, data, bss, pfa, static, test)
        /\ PageUp(layout'.test[2]) <= RamPages
    /\ stage' = 1 /\ tables' = 2 + 2 + 3
    /\ UNCHANGED <<l2, damage, maps>>

MapRegion ==
    /\ stage \in 1..Len(BootRegions)
    /\ LET r == BootRegions[stage]
           m == MapLo([l2 |-> l2, tables |-> tables, damage |-> damage], r.pages[1], r.pages[1],
                      r.pages[2] - r.pages[1], r.perms)
       IN  l2' = m.l2 /\ tables' = m.tables /\ damage' = m.damage
    /\ stage' = stage + 1
    /\ UNCHANGED <<layout, maps>>

(* map of one page; its level 3 tables come from the buddy allocator. *)
MapPages(p, perms) ==
    [EnterPages([l2 |-> l2, tables |-> tables, damage |-> damage], p, p, 1, perms)
     EXCEPT !.tables = tables]

(* map(page, va_to_pa(page), 0, flags) for a page of the buddy allocator:   *)
(* slabs, kernel stacks, page tables, copies of user pages and the frame    *)
(* buffer's page are to be writable; kmalloc of several pages passes        *)
(* MAP_KERNEL alone, which is read-only.                                    *)
Map ==
    /\ stage > Len(BootRegions) /\ maps < MaxMaps
    /\ \E p \in PageUp(layout.test[2])..RamPages - 1, perms \in {"RW", "RO"} :
        l2' = MapPages(p, perms).l2 /\ damage' = MapPages(p, perms).damage
    /\ maps' = maps + 1
    /\ UNCHANGED <<layout, stage, tables>>

BootNext == Link \/ MapRegion \/ Map

BootSpec == BootInit /\ [][BootNext]_bootVars
-----------------------------------------------------------------------------
(* translate_va, and the walk of the MMU: where a page is. *)
TranslateVa(p) ==
    LET e == l2[ChunkOf(p)] IN
    CASE e.kind = "invalid" -> NoPage
      [] e.kind = "block" -> [pa |-> e.pa + (p % ENTRIES), perms |-> e.perms]
      [] OTHER -> e.l3[p]

FreeRam == PageUp(layout.test[2])..RamPages - 1

Holding(s) == {p \in 0..RamPages - 1 : PageDown(layout[s][1]) <= p /\ p < PageUp(layout[s][2])}

(* Once the MMU is on every page of the kernel is mapped to its own frame, *)
(* with the permissions of the section it holds: code executable,          *)
(* read-only data read-only, the rest writable.  .data is never mapped by  *)
(* itself: what does not share a page with .bss is lost.  The RAM behind   *)
(* the kernel, which the page allocator hands out, is writable.            *)
SegmentsMapped ==
    stage > Len(BootRegions) =>
        /\ \A p \in Holding("text") : TranslateVa(p) = [pa |-> p, perms |-> "RX"]
        /\ \A p \in Holding("rodata") : TranslateVa(p) = [pa |-> p, perms |-> "RO"]
        /\ \A s \in {"bss", "kstack", "pfa", "static"} : \A p \in Holding(s) :
               TranslateVa(p) = [pa |-> p, perms |-> "RW"]
        /\ \A p \in Holding("data") : TranslateVa(p) = NoPage <=> p \notin Holding("bss")
        /\ \A p \in Holding("test") : TranslateVa(p) = NoPage
        /\ \A p \in FreeRam : TranslateVa(p) = [pa |-> p, perms |-> "RW"]

(* map_high leaves the kernel mapped as SegmentsMapped says, gets there    *)
(* safely, and map never takes it back, whichever pages and permissions it *)
(* is asked for.  "early boot uses 15 pages" (mmap.c:3): the tables fit in *)
(* front of the page that alloc_page_table hands out first, as long as the *)
(* kernel with its stack ends at most four blocks above where it starts.   *)
(* No region of map_high reaches into a chunk that an earlier one mapped   *)
(* as a block, so no block is followed as a table, although the sections   *)
(* begin and end inside of chunks and share the first one with the pages   *)
(* in front of the kernel.  map does follow blocks as tables, but what it  *)
(* writes then is in RAM behind the kernel, never in the kernel itself.    *)
KernelMapped ==
    /\ SegmentsMapped
    /\ ChunkOf(PageUp(layout.kstack[2])) - ChunkOf(BootPage) <= 4 => tables <= 15
    /\ maps = 0 => damage = {}
    /\ \A word \in damage : word[1] \in FreeRam
=============================================================================
