---------------------------- MODULE ShmFrameStore ----------------------------
(***************************************************************************)
(* What the shared-memory ring promises to its subscribers, without slots, *)
(* sequence numbers or partial copies.                                     *)
(*                                                                         *)
(* The store holds whole frames.  A frame stays in it at least until       *)
(* SlotCount - 1 newer ones are published.  A copy takes a whole frame in  *)
(* one step, and then either returns it or gives it up; it gives it up     *)
(* only if the frame has left the store.                                   *)
(***************************************************************************)
EXTENDS Integers, FiniteSets

CONSTANTS
  Readers,       \* subscribers
  Frames,        \* metadata messages, each with a sequence
  SlotCount,     \* how many frames the store keeps
  Payload(_)     \* the bytes of the frame a message describes

VARIABLES
  known,         \* published metadata
  live,          \* frames in the store
  call,          \* where the copy of each reader is
  frame,         \* the message each copy serves, as a set of at most one
  bytes          \* what a returned copy hands to the callback, likewise

vars == <<known, live, call, frame, bytes>>
reader == <<call, frame, bytes>>

Init ==
  /\ known = {}
  /\ live = {}
  /\ call = [r \in Readers |-> "idle"]
  /\ frame = [r \in Readers |-> {}]
  /\ bytes = [r \in Readers |-> {}]

Publish(m) ==
  /\ \A k \in known : k.sequence < m.sequence
  /\ known' = known \cup {m}
  /\ live' = live \cup {m}
  /\ UNCHANGED reader

Retire(m) ==
  /\ m \in live
  /\ Cardinality({k \in known : k.sequence > m.sequence}) >= SlotCount - 1
  /\ live' = live \ {m}
  /\ UNCHANGED <<known, reader>>

Call(r, m) ==
  /\ call[r] = "idle"
  /\ m \in known
  /\ call' = [call EXCEPT ![r] = "called"]
  /\ frame' = [frame EXCEPT ![r] = {m}]
  /\ UNCHANGED <<known, live, bytes>>

\* The instant at which the copy takes effect.
Fetch(r) ==
  /\ call[r] = "called"
  /\ call' = [call EXCEPT ![r] = IF frame[r] \subseteq live THEN "holding" ELSE "missed"]
  /\ UNCHANGED <<known, live, frame, bytes>>

Return(r) ==
  /\ call[r] = "holding"
  /\ call' = [call EXCEPT ![r] = "returned"]
  /\ bytes' = [bytes EXCEPT ![r] = {Payload(m) : m \in frame[r]}]
  /\ UNCHANGED <<known, live, frame>>

Refuse(r) ==
  /\ call[r] \in {"holding", "missed"}
  /\ frame[r] \cap live = {}
  /\ call' = [call EXCEPT ![r] = "refused"]
  /\ UNCHANGED <<known, live, frame, bytes>>

Done(r) ==
  /\ call[r] \in {"returned", "refused"}
  /\ call' = [call EXCEPT ![r] = "idle"]
  /\ frame' = [frame EXCEPT ![r] = {}]
  /\ bytes' = [bytes EXCEPT ![r] = {}]
  /\ UNCHANGED <<known, live>>

Next ==
  \/ \E m \in Frames : Publish(m) \/ Retire(m)
  \/ \E r \in Readers :
       \/ \E m \in Frames : Call(r, m)
       \/ Fetch(r)
       \/ Return(r)
       \/ Refuse(r)
       \/ Done(r)

Spec == Init /\ [][Next]_vars
===============================================================================
