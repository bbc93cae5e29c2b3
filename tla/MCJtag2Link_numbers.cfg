\* Three sequence numbers for six attempts: the numbers wrap around, and one
\* that is two behind is neither the present one nor the one before.
CONSTANTS
  SeqMod = 3
  RetryTries = 4
  CommAttempts = 2
  MaxIssue = 3
  MaxFlight = 3
  MaxEvents = 1
SPECIFICATION FairSpec
INVARIANTS TypeOK ReplyOfThisNumber OneNumberBehind
PROPERTY CommandReturns
CHECK_DEADLOCK FALSE
