SPECIFICATION ServicesSpec
CONSTANTS
    Procs = {1, 2}
    First = 1
    MAX_OPEN_FILES = 4
    PAGE_SIZE = 2
    Limit = 12
    Breaks = {2}
    Regions <- SmallRegions
    Addresses = {5, 12}
    Inodes = {71}
    Prots = {{"R"}}
    Devices = {"i2c", "fb0"}
    Slaves = {33}
    MaxVmas = 5
    MaxFiles = 5
    MaxLeaks = 1
    Users = {u1, u2, u3}
    IdleTask = idle
    Nobody = nobody
    MaxFrames = 2
    Slots = 4
    Lengths = {0, 2}
    MutexNap = 1
    MaxTime = 1
    MaxRequests = 5
    Disarmed = disarmed
    RingBytes = 4
    Word = 16
    HalfWord = 8
    BufAddress = 12
    Counts = {1, 3, 8, 9}
    MaxKeys = 10
    ParamSize = 4
    MaxParams = 5
    Columns = 2
    Lines = 2
    TabColumns = 1
    BufSize = 3
    Texts <- SmallTexts
    UserAlphabet = {"x", "%", "nl", "ESC", "["}
    MaxTyped = 7
    MaxPrinted = 5
    TrieKeys <- ShortKeys
    MaxAdds = 3
    BlockBytes = 4
    SectorsPerBlock = 2
    FsStart = 100
    DirectBlocks = 3
    InodeBlocks = 6
    TableEntries = 3
    NumberLimit = 70
    InodeBytes = 2
    InodesPerGroup = 4
    InodeTables <- GroupTables
    RootInode = 2
    DiskInodes <- DiskLayout
    DirBlocks <- DirectoryBlocks
    Tables <- IndirectBlocks
    BehindTable = {0, 61, 99}
    NoNumbers <- ThreeZeros
    PathChars = {"/", "a", "b"}
    MaxPath = 6
    ReadCounts = {0, 1, 3, 4, 9}
    SeekOffsets = {0, 3, 8}
    PageUnits = 2
    ENTRIES = 4
    RamPages = 64
    BootPage = 1
    BootPages = 1
    ImageSizes = {1, 4, 9}
    TailSizes = {1, 6}
    MaxMaps = 1
INVARIANTS
    HeapOverwrittenOnlyWhenFull
    OpensAreSeparate
    MutexExclusion
    WaiterIsRemembered
    AlarmIsEarliest
    
    ConsoleShows
    DevicesResolve
    PathsResolve
    ReadsAreTheFile
    KernelMapped
PROPERTIES
    VmasKept
    HandedOver
CHECK_DEADLOCK FALSE
