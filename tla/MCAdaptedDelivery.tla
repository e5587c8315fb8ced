--------------------------- MODULE MCAdaptedDelivery ---------------------------
(* A small instance of AdaptedDelivery. *)
EXTENDS AdaptedDelivery

CONSTANTS p1, p2, s1, s2, s3

\* s3 listens to the topic of the others with another adapter type.
TwoAdapters == [o \in Owners |-> IF o = s3 THEN "Other" ELSE "Custom"]
OneTopic == [stream \in Streams |-> "camera"]

\* Two subscribers of a stream that switch and are shut down while publishers come and
\* go; and with messages: one that switches between two publishers, one of each adapter
\* type that are shut down too, and both with two publishers and a message.
ComingAndGoing ==
  {[subscribers |-> {s1, s2}, leaving |-> {s1, s2}, tokens |-> 3, calls |-> 0],
   [subscribers |-> {s1}, leaving |-> {}, tokens |-> 2, calls |-> 2],
   [subscribers |-> {s1, s3}, leaving |-> {s1, s3}, tokens |-> 1, calls |-> 2],
   [subscribers |-> {s1, s3}, leaving |-> {}, tokens |-> 2, calls |-> 1]}
================================================================================
