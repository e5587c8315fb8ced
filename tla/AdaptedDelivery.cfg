SPECIFICATION DeliverySpec
CONSTANTS
  p1 = p1
  p2 = p2
  s1 = s1
  s2 = s2
  s3 = s3
  Publishers = {p1, p2}
  Subscribers = {s1, s2, s3}
  Streams = {"Custom", "Other"}
  StreamOf <- TwoAdapters
  BaseTopic <- OneTopic
  SubscribersOverlap = FALSE
  MaxToken = 3
  Scenarios <- ComingAndGoing
INVARIANTS TypeOK MismatchIsPending HeardOnceInOrder LatestArrives
PROPERTIES NoConversionOnceUnmatched Settles
CHECK_DEADLOCK FALSE
