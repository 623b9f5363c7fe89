SPECIFICATION Spec
CONSTANTS
  Lun = {0, 1}
  MissingLun = {2}
  Initiator = {}
  Cdb <- LinkedCdbs
  MaxChunks = 2
  MaxMessages = 2
  BusReset = TRUE
  LateReset = FALSE
  UNKNOWN = UNKNOWN
  NOT_RESERVED = NOT_RESERVED
PROPERTY SenseMatches
