SPECIFICATION Spec
CONSTANTS
  Wrap = 4
  LastSeq = 5
  MaxDatagrams = 5
INVARIANTS TypeOK BookIsUnbroken ReadyIsUnbroken
CHECK_DEADLOCK FALSE
