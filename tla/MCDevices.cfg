\* The device types and the tools, one at a time.
SPECIFICATION Spec
CONSTANTS
  Parts = {"TRANSFER", "HOST", "PRINTER", "NETWORK", "GENERIC", "DISK", "TAPE", "SIMH", "EXEC", "MODE", "CONFIG"}
  MAX_TRANSFER_LENGTH = 4
  MediumSize = 11 DefaultSize = 2 Sizes = {1, 2, 4} W32 = 16 W64 = 32 Count6 = 3 MaxCommands = 2
  Initiators = {i1, i2} Anonymous = {a1} MaxOperations = 5
  MaxPrints = 5
  MaxPackets = 2 MaxMessages = 3
  RealBlocks = 5 RealSizes = {2, 3} DefaultBlock = 2
  GenericStarts = {0, 2} GenericCounts = {0, 3} HeaderLength = 2 MaxGeneric = 3
  Capacity = 6 W16 = 5 SasiLimit = 2
  DefaultLength = 4 OddLength = 7 MaxGlitches = 1
  Limits = {0, 2} W28 = 8 END_OF_DATA = 5
  DeviceFiles = {"sg0", "sg1"} Targets = {"id3", "id4"} MaxLines = 3 Pieces = 1
  DeviceTypes = {"HD", "TAPE", "HOST"} Codes = {0, 8, 50, 63} Allocations = {4, 255}
  BlockSizes = {0, 512, 1024, 514}
  MaxPersists = 2
INVARIANTS TypeOK TransferExact SpoolExact NetworkExact GenericExact CopiesExact OwnAnswer PagesAccepted ConfigSurvives
PROPERTIES OwnResult DumpEnds
CHECK_DEADLOCK FALSE
