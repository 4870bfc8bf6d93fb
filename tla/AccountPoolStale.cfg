\* Two workers: a rotation writes back a record it read before the mark.
SPECIFICATION Spec
CONSTANTS
  None = None
  Accounts = {a1, a2}
  Workers = {w1, w2}
  Requests = {p1}
  WorkerOf <- MCWorkerOf
  AdminKinds = {}
  MaxTries = 2
  MaxFaults = 1
  MaxAdmin = 0
  MaxTime = 1
PROPERTY MarkKept
CHECK_DEADLOCK FALSE
