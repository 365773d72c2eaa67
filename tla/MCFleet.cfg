CONSTANTS
    m1 = m1
    m2 = m2
    s1 = s1
    s2 = s2
    Machines = {m1, m2}
    RdvServers <- MCServers
    AdvertWorlds <- MCAdvertWorlds
    FleetJobs <- MCFleetJobs
    Target <- V3
    VerifyPolls = 2
    Pids = {1, 2, 3, 4}
    Sites <- MCSites
    Channel = 2
    MaxLogins = 3
SPECIFICATION HostsSpec
CHECK_DEADLOCK FALSE
INVARIANTS
    FleetTrue
    HostsSound
PROPERTIES
    NeverBack
    HostsSettle
