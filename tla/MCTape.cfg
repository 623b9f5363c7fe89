SPECIFICATION Spec
CONSTANTS
  BlockSize = 2
  Media <- MCMedia
  Lengths = {2, 3}
  Counts = {1, 2}
  Identifiers = {2}
  Data = {1}
  MaxDrift = 1
INVARIANTS LocationKnown
PROPERTY ImplementsMedium
ACTION_CONSTRAINT WaysBack
VIEW View
