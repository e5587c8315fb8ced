------------------------- MODULE MCAdaptedSubscription -------------------------
(* Small instances of AdaptedSubscription. *)
EXTENDS AdaptedSubscription

CONSTANTS p1, p2, s1, s2, s3

\* s3 listens to another topic, or with another adapter type.
TwoStreams == [o \in Owners |-> IF o = s3 THEN "other" ELSE "camera"]
================================================================================
