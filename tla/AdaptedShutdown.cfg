SPECIFICATION Spec
CONSTANTS
  p1 = p1
  p2 = p2
  s1 = s1
  s2 = s2
  s3 = s3
  Publishers = {p1, p2}
  Subscribers = {s1}
  Streams = {"camera", "other"}
  StreamOf <- TwoStreams
  SubscribersOverlap = TRUE
  MaxToken = 2
INVARIANT ShutdownIsFinal
CHECK_DEADLOCK FALSE
