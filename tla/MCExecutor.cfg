SPECIFICATION Spec
SYMMETRY Symmetry
CONSTANTS
  Slot <- Slots
  File = {f1, f2}
  MaxDevices = 2
  MissingFiles = FALSE
  InitMayFail = TRUE
  Name <- Names
  Length <- Lengths
  DefaultName <- Defaults
  GivenName <- SomeNames
  NoSlot = NoSlot
  NoFile = NoFile
  NoName = NoName
INVARIANTS DevicesConsistent FilesConsistent 
PROPERTIES AttachAllOrNothing
