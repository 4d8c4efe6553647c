SPECIFICATION Spec
CONSTANTS
  Macs = {mac1, mac2}
  kBroadcastMac = kBroadcastMac
  Absent = Absent
  Data <- MCData
  LengthMax = 2
  SendMax = 2
INVARIANT DataWaits
CHECK_DEADLOCK FALSE
