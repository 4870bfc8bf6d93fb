\* The link asked for is its own canonical form, so that all routes share keys.
SPECIFICATION Spec
CONSTANTS
  Links = {canon}
  Canon = canon
  Files = 2
  Videos = {2}
  Acts = {"d", "s"}
  Tiers = {"free", "premium"}
  Requests = {r1, r2}
  TTL = 2
  ShortTTL = 1
  LongTTL = 3
  MaxEntries = 2
  MaxStarts = 3
  MaxOutages = 1
SYMMETRY Symmetry
INVARIANTS TypeOK ForeignExplained ManifestExplained
