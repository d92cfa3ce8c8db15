SPECIFICATION FairSpec
CONSTANTS
  RequestTimeout = 1
  PingFreq = 1
  TestOrderLogon = 0
  TestOrderDisconnect = 0
  Accounts = {a1, a2}
  Strangers = {}
  Streams = {}
  Symbols = {}
  Timeout = 1
  MaxTime = 3
  Idle = Idle
PROPERTY AutoReconnect
CHECK_DEADLOCK FALSE
