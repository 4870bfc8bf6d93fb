\* Two workers share the pool: their Redis commands interleave, and may fail.
SPECIFICATION FairSpec
CONSTANTS
  None = None
  Accounts = {a1, a2}
  Workers = {w1, w2}
  Requests = {p1}
  WorkerOf <- MCWorkerOf
  AdminKinds = {"activate", "delete", "verify", "update", "profile", "cron"}
  MaxTries = 2
  MaxFaults = 2
  MaxAdmin = 1
  MaxTime = 1
INVARIANT TypeOK
 
PROPERTY FailoverElsewhere
PROPERTY WorkersConverge
CHECK_DEADLOCK FALSE
