SPECIFICATION Spec
CONSTANTS
  MaxCommands = 2
  CdbLength = 2
  Total = 3
  Chunk = 2
  Length = {2, 3, 4}
INVARIANTS BytesInOrder StatusAgrees
PROPERTIES Recovers
CHECK_DEADLOCK FALSE
