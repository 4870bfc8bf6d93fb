SPECIFICATION Spec
CONSTANTS
  None = "none"
  Active = "active"
  Workers = {w1, w2}
  Requests = {r1, r2}
  Ids = {"a", "b"}
  Bare = {"b"}
  Asked = {"a", "active"}
  Drives = {"d", "e"}
  Env = "none"
  TTL = 2
  Flight = 1
  MaxEntries = 1
  Start <- MCStart
  MaxTrouble = 1
  MaxStarts = 3
SYMMETRY Symmetry
INVARIANTS TypeOK AgeBounded OfTheNamed DeletedGone
