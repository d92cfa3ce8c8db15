SPECIFICATION Spec
CONSTANTS
  Names = {a1, a2}
  NoName = NoName
  MaxEntries = 1
INVARIANT MasterCheckCanBeDisabled
CHECK_DEADLOCK FALSE
