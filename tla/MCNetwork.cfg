SPECIFICATION MCSpec
CHECK_DEADLOCK FALSE
CONSTANTS
    Offers <- MCOffers
    Foreign = "10.0.0.9"
    DnsClients = {"c1", "c2"}
    DnsNames = {"a", "b"}
    NxNames = {"b"}
    ReqIds = {0, 1}
    MaxLost = 1
    MaxCopies = 1
    MaxQueries = 2
    RequestsOf <- MCRequestsOf
    FixedPorts = {80}
    RANGE_DYNAMIC = {1}
    Remotes = {"r1", "r2"}
    MaxSockets = 3
    MaxSegments = 2
    MaxRequests = 3
    MaxTcpCrashes = 1
    Payloads <- MCPayloads
    PortNumbers = {53, 65535}
    OptionLists <- MCOptionLists
    DomainNames <- MCDomainNames
    MaxNames = 3
INVARIANTS
    LeaseHeld
    DnsAnswerMatches
    TcpRequestTracked
    DemuxExact
    PacketsSurvive
    MessagesParsed
PROPERTY NetProgress
