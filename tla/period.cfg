CONSTANTS
  p1 = p1  p2 = p2  j1 = j1  j2 = j2  j3 = j3  j4 = j4
  t1 = t1  t2 = t2  u1 = u1  u2 = u2  q1 = q1  None = None
  Period <- MCPeriods
  Journal <- MCJournals
  PeriodOf <- MCPeriodOf
  Adjusting <- MCAdjusting
  Posting <- MCPostings
  JournalsOf <- MCJournalsOf
  User <- MCUsers
  Request <- MCRequests
  MaxEvents <- MCEvents
  MaxFaults = 1
  Tried <- MCTried
SPECIFICATION FairSpec
INVARIANTS ManifestHolds LateIsMarked ManifestsChain ReopenedByTwo
PROPERTIES CloseGoesThrough
CHECK_DEADLOCK FALSE
