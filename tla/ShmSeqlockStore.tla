--------------------------- MODULE ShmSeqlockStore ---------------------------
(***************************************************************************)
(* The ring of ShmSeqlock, seen through its published frames, implements   *)
(* the store of whole frames of ShmFrameStore.                             *)
(***************************************************************************)
EXTENDS ShmSeqlock, FiniteSets

\* A copy takes effect when it loads before_sequence: what it does afterwards
\* only confirms that the frame it saw there was not touched meanwhile.
CallState(r) ==
  CASE rpc[r] = "idle"     -> "idle"
    [] rpc[r] = "sequence" -> "called"
    [] rpc[r] = "rejected" -> "refused"
    [] rpc[r] = "accepted" /\ rtodo[r] = {} -> "returned"
    [] OTHER -> IF rseq[r] = rmeta[r].sequence THEN "holding" ELSE "missed"

\* The q-th frame takes the q-th slot round the ring.
Frames == {[slot |-> (q - 1) % SlotCount, sequence |-> 2 * q, size |-> n] :
             q \in 1..(MaxSequence \div 2), n \in Sizes}

FramePayload(m) == [u \in UnitsOf(m.size) |-> m.sequence]

Copied(r) ==
  IF rpc[r] = "accepted" /\ rtodo[r] = {}
  THEN {[u \in UnitsOf(rmeta[r].size) |-> rbuf[r][u]]}
  ELSE {}

\* The state of the store: a frame is in it while its slot shows its number.
LiveFrames == {m \in published : slotSeq[m.slot] = m.sequence}
Calls == [r \in Readers |-> CallState(r)]
FramesServed == [r \in Readers |-> IF rpc[r] = "idle" THEN {} ELSE {rmeta[r]}]
BytesReturned == [r \in Readers |-> Copied(r)]

Store == INSTANCE ShmFrameStore WITH
  Payload <- FramePayload,
  known <- published,
  live <- LiveFrames,
  call <- Calls,
  frame <- FramesServed,
  bytes <- BytesReturned

\* Every behaviour of write() and copy_payload is, for a subscriber, one of the
\* frame store: a copy is atomic, returns the payload of its message or is
\* refused because the frame left the ring, and the ring keeps SlotCount - 1
\* frames.
ImplementsFrameStore == Store!Spec

\* What the store needs to know of the past: every number below the next one was
\* published, once, in the slot that is its turn.
HistoryInv ==
  /\ IsFiniteSet(published)
  /\ published \subseteq Frames
  /\ \A k, m \in published : k.sequence = m.sequence => k = m
  /\ \A q \in 1..(MaxSequence \div 2) :
       2 * q < nextSeq => \E k \in published : k.sequence = 2 * q
  /\ nextSlot = (nextSeq \div 2 - 1) % SlotCount
  /\ wpc \notin {"idle", "crashed"} => wlen \in Sizes /\ nextSeq <= MaxSequence

===============================================================================
