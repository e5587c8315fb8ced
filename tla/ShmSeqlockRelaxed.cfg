SPECIFICATION Spec
CONSTANTS
  Readers = {r1}
  SlotCount = 2
  SlotSize = 2
  Sizes = {0, 1, 2}
  WriterLanguages = {"cpp"}
  ReaderLanguages = {"cpp"}
  MaxSequence = 10
  StoreOrdered = FALSE
  LoadOrdered = FALSE
INVARIANTS
  AcceptedCopyIsIntact
\* The publisher may crash, or reach the bound, with no message to copy for.
CHECK_DEADLOCK FALSE
