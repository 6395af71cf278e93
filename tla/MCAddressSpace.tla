--------------------------- MODULE MCAddressSpace ---------------------------
(***************************************************************************)
(* AddressSpace with programs of the shape that user/linker.ld gives them: *)
(* a read-only text segment, then a writable data segment.                 *)
(***************************************************************************)
EXTENDS AddressSpace, TLC

CONSTANTS p1, p2, p3, f1, f2, f3, f4, f5, f6, x0, x1

Header(page, memsz, filesz, prot, contents) ==
    [load |-> TRUE, page |-> page, memsz |-> memsz, filesz |-> filesz,
     prot |-> prot, contents |-> contents]

\* Text in page 0; data in page 1, if there is one.
TextOnly    == << Header(0, 2, 2, {"R"}, x0) >>
TextAndData == << Header(0, 2, 2, {"R"}, x0), Header(1, 2, 1, {"R", "W"}, x1) >>

Usual == {TextOnly, TextAndData}
Small == {TextOnly}

TwoPages == 0..1
ThreePages == 0..2
SecondPage == {1}

ReadWrite == {{"R", "W"}}
ReadOnly == {{"R"}}

FrameSymmetry == Permutations(Frames)
=============================================================================
