SPECIFICATION Spec
CONSTANTS
  h1 = h1
  h2 = h2
  h3 = h3
  s2 = s2
  s3 = s3
  p1 = p1
  i1 = i1
  i2 = i2
  i3 = i3
  i4 = i4
  m1 = m1
  m2 = m2
  m3 = m3
  kBroadcastMac = kBroadcastMac
  kDefaultDst = kDefaultDst
  NoIp = NoIp
  NoMac = NoMac
  Hosts = {h1, h2, h3}
  Servers = {s2, s3}
  Pingers = {p1}
  Procs = {s2, s3, p1}
  Ips = {i1, i2, i3, i4}
  Macs = {m1, m2, m3}
  HostOf <- MCHostOf
  IfIp0 <- MCIfIp
  IfMac0 <- MCIfMac
  RoutingFile <- DefaultFile
  OtherPayloads <- MCOther
  Stray <- MCStray
  RcvQueueMax = 1
  ReaddressMax = 0
  Targets <- MCTargets
  NumRequests = 2
  Faults = {"loss", "flood", "ioerror", "crash"}
INVARIANT TypeOK
INVARIANT GatewayUsed
INVARIANT BindingsOwned
