SPECIFICATION RelayFairSpec
CONSTANTS
  c1 = c1  c2 = c2  c3 = c3  c4 = c4
  ipA = ipA  ipB = ipB
  Conns = {c1, c2, c3, c4}
  Uuids = {u1, u2}
  Ips = {ipA, ipB}
  NoConn = NoConn
  NoUuid = NoUuid
  IpOf <- MCIpOf
  MaxPerIp = 2
  MaxWaiting = 1
  MaxSessions = 1
INVARIANTS CountersAddUp RoomSound NoCrossedTunnels
PROPERTIES PairingSpec ComesToRest
CHECK_DEADLOCK FALSE
