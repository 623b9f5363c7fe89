SPECIFICATION Spec
CONSTANTS
  d1 = d1
  d2 = d2
  Drive = {d1, d2}
  File = {f1, f2}
  Kind <- OpticalAndFixed
  ReadOnlyFile = {f2}
  AttachMode = {"piscsi", "linux"}
  NoFile = NoFile
  NoDrive = NoDrive
INVARIANTS MediaAgree ReservedExactly
PROPERTIES LockedStays DetachSaves
CHECK_DEADLOCK FALSE
