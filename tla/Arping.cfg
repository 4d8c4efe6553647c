SPECIFICATION Spec
CONSTANTS
  h1 = h1
  h2 = h2
  h3 = h3
  s1 = s1
  s2 = s2
  s3 = s3
  c1 = c1
  c2 = c2
  i1 = i1
  i2 = i2
  i3 = i3
  m1 = m1
  m2 = m2
  m3 = m3
  kBroadcastMac = kBroadcastMac
  NoIp = NoIp
  NoMac = NoMac
  Hosts = {h1, h2}
  Servers = {s2}
  Clients = {c1}
  Procs = {s2, c1}
  Ips = {i1, i2, i3}
  Macs = {m1, m2, m3}
  HostOf <- MCHostOf
  IfIp0 <- MCIfIp
  IfMac0 <- MCIfMac
  OtherPayloads <- MCOther
  Stray <- MCStray
  RcvQueueMax = 1
  ReaddressMax = 1
  NumRequests = 2
  Faults = {"loss", "flood", "ioerror", "crash"}
INVARIANT TypeOK
INVARIANT BindingsOwned
INVARIANT RepliesSolicited
 
 
PROPERTY DropsAreRewritten
 
