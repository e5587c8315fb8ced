---------------------------- MODULE MCShmLifecycle ----------------------------
(* Instances of ShmLifecycle for TLC.                                       *)
EXTENDS ShmLifecycle

CONSTANTS p1, p2, n1, n2, r1, r2

\* Every publisher has a name of its own.
OwnNames == [p \in Publishers |-> IF p = p1 THEN n1 ELSE n2]

\* A ring of one-unit slots whose creation may fail.
Steady == {[slotSizeBytes |-> 0, allowResize |-> FALSE, sizes |-> {1},
            python |-> {p2, r2}, faults |-> {"create_error"}, objects |-> 2]}

\* A ring that grows with its payloads; a ring of fixed slots that is created
\* again after crashes, with one payload that does not fit; and a Python
\* publisher that fails, is closed and goes on.
GrowingOrRestarted ==
  {[slotSizeBytes |-> 0, allowResize |-> TRUE, sizes |-> {1, 2}, python |-> {},
    faults |-> {"create_error", "destroy", "readvertise"}, objects |-> 3],
   [slotSizeBytes |-> 2, allowResize |-> FALSE, sizes |-> {1, 2, 3}, python |-> {},
    faults |-> {"create_error", "crash", "destroy", "restart", "loss"}, objects |-> 2],
   [slotSizeBytes |-> 1, allowResize |-> FALSE, sizes |-> {1}, python |-> {p1, r1},
    faults |-> {"create_error", "memory_error", "crash", "destroy", "restart"},
    objects |-> 3]}

Restarted == {[slotSizeBytes |-> 1, allowResize |-> FALSE, sizes |-> {1}, python |-> {},
               faults |-> {"destroy", "restart"}, objects |-> 2]}
===============================================================================
