\* Two runs of the program, two updates, a notification besides the replies, an outbox of one.
SPECIFICATION FairSpec
CONSTANTS
  Arriving <- MC_Arriving
  BatchSize = 2
  OutboxSize = 1
  MaxSendRetries = 1
  MaxUpdates = 2
  MaxMessages = 1
  MaxBoots = 2
INVARIANTS
  RunOnceInOrder
  NoneSkippedOnceReady
  PostedInOrderOnce
PROPERTIES
  ImplementsFeed
  UpdatesReached
  QueueMoves
  RunReturns
CHECK_DEADLOCK FALSE
