CONSTANTS
  w1 = w1  w2 = w2
  Worker <- MCWorkers
  Item <- MCItems
  Undecodable <- MCUndecodable
  MaxFaults = 2
SPECIFICATION FairSpec
INVARIANTS CommittedOnce ResultTellsOutcome CompletedHasResults
PROPERTIES JobCompletes
CHECK_DEADLOCK FALSE
