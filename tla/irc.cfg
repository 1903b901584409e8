SPECIFICATION FairSpec
CONSTANTS
  b1 = b1
  b2 = b2
  Bots = {b1, b2}
  Events = {e1}
  Hash <- MCHash
  Acquainted <- MCAcquainted
  Timed = TRUE
  Second = 2
  Delay = 1
  Horizon = 6
  MaxCommands = 1
  MaxBlocks = 1
  MaxTroubles = 1
  Mixed = FALSE
INVARIANTS
  WitnessingNamesUser
  OneReplyPerBot
  CancelledOnlyByOthers
  SlotsKeepRepliesApart
PROPERTIES
  DeliveredIsAnswered
CHECK_DEADLOCK FALSE
