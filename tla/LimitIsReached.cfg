SPECIFICATION Spec
CONSTANTS
  c1 = c1  c2 = c2  c3 = c3  c4 = c4
  i1 = i1  i2 = i2
  Conn = {c1, c2, c3}
  Ipid = {i1, i2}
  IpidOf <- MCIpidOf
  PlayerLimit = 2
  MulticlientLimit = 2
  MaxConnections = 0
  MaxStranded = 0
  Timeout = 1
PROPERTY
  LimitIsReached
