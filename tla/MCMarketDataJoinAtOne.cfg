SPECIFICATION Spec
CONSTANTS
  Wrap = 8
  ChannelIds = {1}
  KeyWrap = 4
  FirstSeq = 1
  LastSeq = 3
  MaxCopies = 1
  Timeout = 1
  MaxTime = 1
INVARIANT JoinAssertionHolds
CHECK_DEADLOCK FALSE
