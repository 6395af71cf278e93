SPECIFICATION FairSpec
CONSTANTS
    p1 = p1
    p2 = p2
    p3 = p3
    f1 = f1
    f2 = f2
    f3 = f3
    f4 = f4
    f5 = f5
    f6 = f6
    x0 = x0
    x1 = x1
    Procs = {p1}
    Shell = p1
    Pages <- ThreePages
    StackPages <- SecondPage
    Frames = {f1, f2, f3, f4}
    NoFrame = NoFrame
    NullFrame = NullFrame
    Values = {x0}
    Zero = x0
    Programs <- Small
    PAGE_SIZE = 2
    Prots <- ReadOnly
    Workload = {"mmap"}
    FrameArrayMapped = TRUE
PROPERTIES
    LazyMappingResolves
CHECK_DEADLOCK FALSE
