SPECIFICATION Spec
CONSTANTS
  TemplateIds = {10, 20, 21, 99}
  MessageLengths = {3, 4}
  HeaderLength = 2
  computeLength <- MCcomputeLength
  MaxMessages = 3
  MaxPackets = 1
INVARIANTS TypeOK HandlesMessagesInOrder AllOrNothing TranscriptIsFaithful
PROPERTY IsPacketDelivery
CHECK_DEADLOCK FALSE
