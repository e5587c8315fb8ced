------------------------------ MODULE MCShmRelay ------------------------------
(* Instances of ShmRelay for TLC.                                           *)
EXTENDS ShmRelay

\* A limited relay whose ring grows; limits on both sides, fixed slots and a
\* deeper queue; no limit, written as a negative rate, and a limited subscriber.
LimitedOrNot ==
  {[rate |-> 1, subscriberRate |-> 0, depth |-> 0, slotSizeBytes |-> 0,
    allowResize |-> TRUE, sizes |-> {0, 1, 2}],
   [rate |-> 2, subscriberRate |-> 1, depth |-> 2, slotSizeBytes |-> 1,
    allowResize |-> FALSE, sizes |-> {1, 2}],
   [rate |-> -1, subscriberRate |-> 1, depth |-> 1, slotSizeBytes |-> 0,
    allowResize |-> FALSE, sizes |-> {1, 2}]}
===============================================================================
