SPECIFICATION FairSpec
CHECK_DEADLOCK FALSE
CONSTANTS
  SeqMod = 3
  SimpleTries = 2
  MaxIssue = 4
  MaxEvents = 2
  MaxEnds = 1
  MaxFlight = 2
INVARIANTS TypeOK ReplyOfThisNumber OneNumberBehind
PROPERTIES EventsKept CommandReturns
