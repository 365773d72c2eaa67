SPECIFICATION FairSpec
CONSTANTS
  d1 = d1  u1 = u1
  Devices = {d1}
  Requests = {u1}
  TargetOf <- MCTarget
  MaxBoots = 2
  MaxChanges = 3
  MaxConns = 2
  MaxIfaces = 2
  Expiry = 1
  RelayCap = 1
INVARIANTS NeverPairedWithItself
PROPERTIES StreamKept Recovers
CHECK_DEADLOCK FALSE
