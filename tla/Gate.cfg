SPECIFICATION GateSpec
CONSTANTS
  Proc = {p1, p2}
  client = client
  client6 = client6
  guest = guest
  proxy = proxy
  junk = junk
  Ip <- MCIp
  None = None
  Address <- MCAddress
  Trusted = {proxy}
  Connections <- MCConnections
  ConfigRate = 0
  DefaultRate = 3
  ConfigBurst = 2
  Cost = 2
  TTL = 4
  Second = 1
  MaxDelay = 1
  MaxTime = 6
  Windows <- MCWindows
SYMMETRY MCSymmetry
INVARIANTS
  TypeOK
  RateBound
  PeerBound
PROPERTIES
  IdleForgotten
  UndelayedIsIdeal
