\* Files of up to four chunks, two connections, a window of three, two tries per chunk.
SPECIFICATION FairSpec
CONSTANTS
  Sizes = {7, 8}
  Positions = {0, 3, 8}
  ChunkSize = 2
  MaxChunks = 4
  Concurrency = 2
  MaxAhead = 3
  Attempts = 2
INVARIANT TypeOK
INVARIANT LookAheadBounded
INVARIANT HeadAdmitted
INVARIANT ConnectionsBounded
INVARIANT FinishedWhole
INVARIANT LengthKept
PROPERTY WaitEnds
CHECK_DEADLOCK FALSE
