\* Three requests in two workers for the two keys of one link.
SPECIFICATION FairSpec
CONSTANTS
  None = None
  Requests = {r1, r2, r3}
  Links = {l1}
  Workers = {w1, w2}
  WorkerOf <- MCWorkerOf
  MayAsk <- MCMayAsk
  MaxFaults = 1
INVARIANT TypeOK PollerExclusive
PROPERTY ImplementsSingleFlight RequestsAnswered
CHECK_DEADLOCK FALSE
