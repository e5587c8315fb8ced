SPECIFICATION Spec
CONSTANTS
  Readers = {r1}
  SlotCount = 2
  SlotSize = 2
  Sizes = {0, 1, 2}
  WriterLanguages = {"cpp", "python"}
  ReaderLanguages = {"cpp", "python"}
  MaxSequence = 8
  StoreOrdered = TRUE
  LoadOrdered = TRUE
INVARIANTS
  TypeOK
  AcceptedCopyIsIntact
  FramesRetainedUntilLapped
  RejectedOnlyWhenLapped
  IndInv
PROPERTIES
  SequenceNeverReturns
  ImplementsFrameStore
\* The publisher may crash, or reach the bound, with no message to copy for.
CHECK_DEADLOCK FALSE
