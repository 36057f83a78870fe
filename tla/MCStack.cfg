SPECIFICATION MCSpec
CHECK_DEADLOCK FALSE
CONSTANTS
    SIZE = 6
    MaxRequest = 3
    Pids = {1, 2}
    Frames = {2, 3, 4, 5, 6, 7}
    LowFrames = {0, 1}
    StackPages = {2}
    ImagePages = {4}
    RawPages = {3, 4}
    HeapPages = {5, 6, 7}
    DevicePages = {8}
    PageUnits = 2
    Requests = {2}
    DeviceLengths = {1}
    Arguments <- MCArguments
    MaxStacks = 1
    NoFrame = NoFrame
    Index = {0, 1}
    Pages <- MCPages
    PageFrames = {1, 2}
    TableFrame = 1
    TablePage <- MCTablePage
    MAX_PAGE_TABLES = 6
    Garbage = 1
    Unit = 2
    MAX_OK_ENTRIES = 3
    MEMORY_RESERVED_BELOW = 2
    HEAP_START = 8
    HEAP_SIZE = 2
    Limit = 12
    MaxE820 = 3
    NoRange = NoRange
    PageSize = 4
    MIN_BUDDY = 4
    Capacity = 2
    HeapFrames = {1, 2, 3, 4, 5}
    Sizes = {2, 3, 4}
    DMA_BLOCKS = 5
    BlockBytes = 2
    MaxDma = 7
    Chars = {0, 1, 2}
    Slash = 0
    MaxName = 2
    MaxSubscriptions = 3
    None = None
    e1 = e1
    Events <- MCEvents
    Waits <- MCWaits
    TIME_SLICE = 3
    MIN_EXEC_TIME = 2
    MaxPid = 3
    Cores = 3
    MaxPolls = 2
    StackTops = {1, 2}
INVARIANT StacksKept
