CONSTANTS
    l1 = l1
    l2 = l2
    Listeners = {l1, l2}
    MaxBytes <- MCBytes
    MaxChunkLen = 2
    MaxIoErrors = 1
    Radix = 2
    Conns = {"a", "b"}
    TunnelScenarios <- MCTunnels
    WireCap = 3
    ChannelBuffer = 1
    MaxCuts = 1
    SshScenarios <- MCSsh
    MaxSshInput = 1
    ScpScenarios <- MCScp
    Stale <- MCStale
    QuicScenarios <- MCQuic
    StatusCount = 2
SPECIFICATION StreamsSpec
CHECK_DEADLOCK FALSE
INVARIANTS
    TunnelsCarry
    ChannelsTold
PROPERTIES
    SpoolSound
    StreamsEnd
