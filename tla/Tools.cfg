SPECIFICATION FairSpec
CONSTANTS
  h1 = h1
  h2 = h2
  s = s
  c1 = c1
  c2 = c2
  m = m
  Hosts = {h1, h2}
  Procs = {s, c1, c2, m}
  Servers = {s}
  Clients = {c1, c2}
  ArpMonitors = {m}
  Sniffers = {m}
  kClientHost = h1
  HostOf <- MCHostOf
  Stray <- MCStray
  RcvQueueMax = 2
  NoiseMax = 1
INVARIANT TypeOK
INVARIANT QuietAnswers
INVARIANT WrongTypeOnlyEarly
 
 
PROPERTY ClientsReturn
PROPERTY EchoSettles
CHECK_DEADLOCK FALSE
