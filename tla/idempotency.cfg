CONSTANTS
  k1 = k1  c1 = c1  c2 = c2  c3 = c3  d1 = d1  d2 = d2
  Key <- MCKey
  Call <- MCCall
  Digest <- MCDigest
  KeyOf <- MCKeyOf
  DigestOf <- MCDigestOf
  RetentionOutlivesCalls = TRUE
  NoRecord = NoRecord
  NoAnswer = NoAnswer
  NoLock = NoLock
SPECIFICATION FairSpec
INVARIANTS EffectIffSucceeded
PROPERTIES KeepsPromise EveryCallReturns
CHECK_DEADLOCK FALSE
