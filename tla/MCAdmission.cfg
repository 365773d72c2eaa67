SPECIFICATION FairSpec
CONSTANTS
  c1 = c1  c2 = c2  c3 = c3  c4 = c4
  ipA = ipA  ipB = ipB  ipC = ipC
  Conns = {c1, c2, c3, c4}
  Ips = {ipA, ipB, ipC}
  IpOf <- MCIpOf
  PortOf <- MCPortOf
  Denied = {}
  MaxGlobal = 3
  MaxPerIp = 1
  Start = 0
  Full = 1
  MaxFailures = 2
  Window = 1
  Ban = 1
  MaxTime = 2
INVARIANTS LimitsAddUp BelowThreshold
PROPERTIES PermitsComeBack
CHECK_DEADLOCK FALSE
