SPECIFICATION Spec
CONSTANTS
  RequestTimeout = 1
  PingFreq = 1
  TestOrderLogon = 1
  TestOrderDisconnect = 0
  Accounts = {a1, a2}
  Strangers = {s1}
  Streams = {incremental}
  Symbols = {x}
  Timeout = 1
  MaxTime = 4
  Idle = Idle
SYMMETRY Symmetry
INVARIANTS TypeOK OneLogonPerConnection ConnectAssertion StatusIsCurrent NoFatalRequest
PROPERTY IsLogonProtocol
CHECK_DEADLOCK FALSE
