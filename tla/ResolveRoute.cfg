\* Three requests for the two cache keys of one link.
SPECIFICATION FairSpec
CONSTANTS
  Requests = {r1, r2, r3}
  Links = {l1}
  None = None
INVARIANT TypeOK
INVARIANT WakeUpOwed
INVARIANT CollapseUnlessExcused
INVARIANT PollerExclusive
PROPERTY ImplementsSingleFlight
PROPERTY FollowersAnswered
PROPERTY JobsDrain
CHECK_DEADLOCK FALSE
