SPECIFICATION FairSpec
CONSTANTS
  Callers = {"caller1", "caller2"}
  Executor = "executor"
  MaxMessages = 3
INVARIANTS TypeOK PendingIsScheduled SentInOrder PrivateIsHeld
PROPERTY LatestIsPublished
