SPECIFICATION Spec
CONSTANTS
  d1 = d1
  d2 = d2
  Drive = {d1, d2}
  File = {f1, f2}
  Kind <- TwoRemovables
  ReadOnlyFile = {}
  AttachMode = {"piscsi", "linux", "write_through"}
  NoFile = NoFile
  NoDrive = NoDrive
PROPERTIES EjectSaves
CHECK_DEADLOCK FALSE
