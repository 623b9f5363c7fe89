SPECIFICATION Spec
CONSTANTS
  NBlocks = 3
  TrackSize = 1
  CacheMax = 2
  SerialMod = 3
  IntLimit = 8
  Value = {0, 1}
INVARIANTS TypeOK Coherent NoSpuriousError
PROPERTIES EvictsColder ImplementsBlockStore
