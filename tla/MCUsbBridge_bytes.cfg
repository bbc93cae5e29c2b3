SPECIFICATION FairSpec
CHECK_DEADLOCK FALSE
CONSTANTS
  MaxMessage = 8
  MkIIPacket = 2
  HidPacket = 4
  HidWrap = 1
  HidLeastCommand = 2
  HidLeastFragment = 2
  CommandSizes = {5, 8, 9}
  ReplySizes = {4, 8, 9}
  MaxCommands = 3
  MaxEvents = 1
INVARIANTS CommandsArrive RepliesWhole
PROPERTIES Drains
