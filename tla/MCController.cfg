SPECIFICATION FairSpec
CONSTANTS
  Lun = {0}
  MissingLun = {1}
  Initiator = {a, b}
  a = a
  b = b
  Cdb <- HostCdbs
  MaxChunks = 2
  MaxMessages = 2
  BusReset = TRUE
  LateReset = TRUE
  UNKNOWN = UNKNOWN
  NOT_RESERVED = NOT_RESERVED
INVARIANTS TypeOK FreeIsClean ReservationHolds
PROPERTIES KeepsProtocol NeverTakenOver 
