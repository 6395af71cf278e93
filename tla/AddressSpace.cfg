SPECIFICATION Spec
CONSTANTS
    p1 = p1
    p2 = p2
    p3 = p3
    f1 = f1
    f2 = f2
    f3 = f3
    f4 = f4
    f5 = f5
    f6 = f6
    x0 = x0
    x1 = x1
    Procs = {p1, p2, p3}
    Shell = p1
    Pages <- TwoPages
    StackPages <- SecondPage
    Frames = {f1, f2, f3, f4, f5}
    NoFrame = NoFrame
    NullFrame = NullFrame
    Values = {x0, x1}
    Zero = x0
    Programs <- Usual
    PAGE_SIZE = 2
    Prots <- ReadWrite
    Workload = {"fork", "exec", "exit", "mmap", "copy"}
    FrameArrayMapped = TRUE
SYMMETRY FrameSymmetry
INVARIANTS
    SharingExact
PROPERTIES
    MemoryIsPrivate
CHECK_DEADLOCK FALSE
