\* Two videos and one request at a time: manifests by fs_id and without.
SPECIFICATION Spec
CONSTANTS
  Links = {canon}
  Canon = canon
  Files = 2
  Videos = {1, 2}
  Acts = {"d", "s"}
  Tiers = {"free", "premium"}
  Requests = {r1}
  TTL = 2
  ShortTTL = 1
  LongTTL = 3
  MaxEntries = 2
  MaxStarts = 3
  MaxOutages = 0
INVARIANT FileTargeted
