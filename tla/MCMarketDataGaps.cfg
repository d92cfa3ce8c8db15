SPECIFICATION Spec
CONSTANTS
  Wrap = 8
  ChannelIds = {1, 6}
  KeyWrap = 4
  FirstSeq = 2
  LastSeq = 4
  MaxCopies = 2
  Timeout = 1
  MaxTime = 1
INVARIANTS TypeOK GapNeverSilent JoinAssertionHolds
PROPERTIES NoFalseAlarm IsGapDetector
CHECK_DEADLOCK FALSE
