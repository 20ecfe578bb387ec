CONSTANTS
  ReadyEvent = {1}
  OwnerEvent = {2}
  Worker = {w1, w2}
  MaxAttempts = 2
  MaxSlow = 1
  NoWorker = NoWorker
SPECIFICATION FairSpec
INVARIANTS
  EventsAgree
  RepeatNeedsTrouble
PROPERTIES
  QueuedIsClosed
