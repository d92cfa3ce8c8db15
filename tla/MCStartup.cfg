SPECIFICATION FairSpec
CONSTANTS
  Names = {a1, a2, a3}
  NoName = NoName
  MaxEntries = 3
INVARIANTS TypeOK StreamIdsUnique ServesTheConfiguration MasterIsServed RefusalIsJustified
PROPERTY ComesUp
CHECK_DEADLOCK FALSE
