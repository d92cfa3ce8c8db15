SPECIFICATION FairSpec
CONSTANTS
  Wrap = 4
  ChannelIds = {1}
  KeyWrap = 4
  FirstSeq = 2
  LastSeq = 5
  MaxCopies = 1
  Timeout = 2
  MaxTime = 7
INVARIANTS OneWarningPerSilence GapNeverSilent
PROPERTY SilenceIsReported
CHECK_DEADLOCK FALSE
