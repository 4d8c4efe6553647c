SPECIFICATION Spec
CONSTANTS
  m1 = m1
  m2 = m2
  NoMac = NoMac
  JunkIp = 20
  JunkMac = JunkMac
  MacLen = 17
  KeyLen <- MCKeyLen
  Bindings <- MCBindings
  Procs = {1}
  Ips = {3, 12}
  Macs = {m1, m2}
  DiskFull = TRUE
INVARIANT ShortSaveSpoilsOne
INVARIANT TypeOK
INVARIANT FileReadable
INVARIANT LoadsOnlySaved
INVARIANT LoadInvertsSave
