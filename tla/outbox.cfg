CONSTANTS
  r1 = r1  r2 = r2  w1 = w1  a1 = a1  a2 = a2
  Event <- MCEvents
  Aggregate <- MCAggregates
  AggregateOf <- MCAggregateOf
  Webhook <- MCWebhooks
  Relay <- MCRelays
  RelayBatch = 2
  Poison <- MCPoison
  MaxRollbacks = 2
  MaxChanges = 2
SPECIFICATION OutboxFairSpec
INVARIANTS DuplicatesNeedRollback
PROPERTIES FannedOutOnce EventLeaves
CHECK_DEADLOCK FALSE
