SPECIFICATION Spec
CONSTANTS
  Word = 64
  HeaderSize = 6
  SlotHeaderSize = 4
  Objects = {1, 2}
  Sizes = {1, 2}
  Jobs <- ImageJobs
INVARIANTS
  EveryEncodingIsRead
\* A behaviour ends when its job is done.
CHECK_DEADLOCK FALSE
