\* A chunk whose tries all end in an error status.
SPECIFICATION FairSpec
CONSTANTS
  Sizes = {2}
  Positions = {0}
  ChunkSize = 1
  MaxChunks = 2
  Concurrency = 1
  MaxAhead = 1
  Attempts = 3
PROPERTY StreamGoesOn
CHECK_DEADLOCK FALSE
