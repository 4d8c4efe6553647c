SPECIFICATION FairSpec
CONSTANTS
  Packets <- MCPackets
  BUFSIZE = 2
  Capacity = 2
  PacketMax = 2
  Faults = {"ctrl-c", "ioerror"}
INVARIANT TypeOK
INVARIANT BufferFits
INVARIANT StallsOnlyWhenFull
PROPERTY CarriesPackets
PROPERTY OneWayDelivered
PROPERTY EndsTogether
CHECK_DEADLOCK FALSE
