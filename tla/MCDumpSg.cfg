\* With the SG driver a dump is not a copy.
SPECIFICATION Spec
CONSTANTS
  Jobs <- Dumps
  Capacity = 6 W16 = 7 W32 = 64 SasiLimit = 2 MAX_TRANSFER_LENGTH = 4
INVARIANT SgDiskCopied
CHECK_DEADLOCK FALSE
