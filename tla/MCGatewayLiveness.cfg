SPECIFICATION FairSpec
CONSTANTS
  RequestTimeout = 1
  PingFreq = 1
  TestOrderLogon = 1
  TestOrderDisconnect = 1
  Accounts = {a1, a2}
  Strangers = {}
  Streams = {}
  Symbols = {}
  Timeout = 1
  MaxTime = 4
  Idle = Idle
PROPERTIES LogonFollows Reconnects
CHECK_DEADLOCK FALSE
