------------------------------ MODULE MCStorage ------------------------------
(***************************************************************************)
(* The page allocator, the object allocator and the SD card driver.  They  *)
(* share no state; the initial state chooses the one that runs, and the    *)
(* others stand still.                                                     *)
(***************************************************************************)
EXTENDS BuddyAllocator, SlabAllocator, Emmc, TLC

CONSTANTS narrow, wide   \* two of the classes of kmalloc

VARIABLE part   \* the component that runs

PowersOfTwo == [o \in 0..MaxOrder |-> 2^o]

\* A class whose bitmap is zeroed, as those of 64 bytes and more, and a class
\* whose bitmap is longer, as that of 32 bytes.
TwoClasses == {narrow, wide}
Objects == (narrow :> 2) @@ (wide :> 3)

\* One sector, several, the highest sector that a byte address can name, and
\* more sectors than a transfer can have.
SmallReads == {<<0, 1>>, <<3, 2>>, <<15, 1>>, <<0, 3>>}

storageVars == <<part, vars, slabVars, emmcVars>>

\* A component that stands still has one initial state.
StorageInit ==
    /\ part \in {"pages", "objects", "card"}
    /\ Init /\ SlabInit /\ EmmcInit
    /\ part # "objects" => class = [b \in Blocks |-> narrow]
    /\ part # "card" => card.kind = "v1" /\ req = <<0, 1>>

OfPages(next)   == part = "pages" /\ next /\ UNCHANGED <<part, slabVars, emmcVars>>
OfObjects(next) == part = "objects" /\ next /\ UNCHANGED <<part, vars, emmcVars>>
OfCard(next)    == part = "card" /\ next /\ UNCHANGED <<part, vars, slabVars>>

StorageNext == OfPages(Next) \/ OfObjects(SlabNext) \/ OfCard(EmmcNext)

\* The fairness of BuddyAllocator and of Emmc, each while it runs.
StorageSpec ==
    /\ StorageInit /\ [][StorageNext]_storageVars
    /\ WF_storageVars(OfPages(Step))
    /\ WF_storageVars(OfCard(Driver)) /\ WF_storageVars(OfCard(Hardware))
-----------------------------------------------------------------------------
\* CallsReturn of BuddyAllocator, in the behaviours in which it runs: every
\* call of buddy_alloc, buddy_free and the initial layout returns.
AllocatorCallsReturn == part = "pages" => CallsReturn
=============================================================================
