SPECIFICATION MCSpec
CHECK_DEADLOCK FALSE
CONSTANTS
    PSTOP = 4
    MaxReceived = 4
    MaxSent = 1
    TX_BUFFER_COUNT = 2
    RX_BUFFER_SIZE = 4
    Overhang = 1
    MaxRtlSent = 4
    MaxRtlReceived = 3
    SECTOR_SIZE = 2
    FirstSector = 65535
    SectorCount = 3
    Bytes = {0, 1}
    CacheSize = 2
    MaxLength = 3
    Codes = {"1C", "12"}
    MaxKeys = 2
    MaxErrors = 1
    MAILBOX_BUFFER_LIMIT = 2
    Registers = 3
    Base = 2
    MaxTime = 4
    Configs <- MCConfigs
    Hours = {0, 12, 23}
    Definitions <- MCDefinitions
    Programs <- MCPrograms
    MaxCrashes = 1
    HEIGHT = 2
    WIDTH = 2
    LastConsole = 1
    Texts <- MCTexts
    KeyEvents <- MCKeyEvents
    Modifiers <- MCModifiers
    Mapping <- MCMapping
    NumberOf <- MCNumberOf
    MaxPrints = 2
    MaxKeyEvents = 5
    Records <- MCRecords
    ReadSize = 3
    LineLimit = 3
    MaxRecords = 2
INVARIANTS
    PacketsInOrder
    ReadExact
    EventsMatchKeys
    TimeNotTorn
    NoWaiterForgotten
    OutputIsTail
PROPERTIES
    
    WriteExact
    StartupCompletes
    LogShown
