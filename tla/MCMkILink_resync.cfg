SPECIFICATION FairSpec
CHECK_DEADLOCK FALSE
CONSTANTS
  Bitrates <- MCBitrates
  FastRate = 2
  CommAttempts = 5
  SyncAttempts = 2
  MaxCalls = 2
  MaxFaults = 2
INVARIANTS ResponseIsOwn RepeatedForFaultsOnly RatesAgree
PROPERTIES Returns
