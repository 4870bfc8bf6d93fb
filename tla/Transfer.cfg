SPECIFICATION FairSpec
CONSTANTS
  None = None
  Accounts = {a1, a2}
  Bare = {a2}
  Resolves = {1, 2}
  Action <- MCAction
  Wait <- MCWait
  ShareOf <- MCShareOf
  FilesOf <- MCFilesOf
  Inside <- MCInside
  Old <- MCOld
  ListPage = 2
  SearchPage = 1
  StreamTypes = 2
  Polls = 2
  Rounds = 2
  Profiles = 2
  MaxFaults = 1
INVARIANTS TypeOK DuplicateExplained AloneSucceeds ServedIsAsked TokensOfTheSession
PROPERTY ResolveEnds
CHECK_DEADLOCK FALSE
