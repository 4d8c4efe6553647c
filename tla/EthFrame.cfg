SPECIFICATION Spec
CONSTANTS
  Header <- SmallHeader
  kEthernetPayloadMin = 2
  kEthernetPayloadMax = 3
  Payloads <- SmallPayloads
  RecvSizes <- SmallRecvSizes
  FlipMax = 2
INVARIANT TypeOK
INVARIANT DamageDetected
INVARIANT PayloadDelivered
INVARIANT FcsIsCrc
