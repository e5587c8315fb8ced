------------------------------ MODULE ShmSeqlock ------------------------------
(***************************************************************************)
(* One shared-memory object of shm_sensor_transport: ShmRingBuffer::write  *)
(* in the publisher's process against ShmHandle::copy_payload in any       *)
(* number of subscriber processes, one memory access per step.  Either end *)
(* may be the Python one: _RingBuffer.write, whose struct.pack_into clears *)
(* the slot header before it stores the fields, and ShmHandle.copy_payload *)
(* of shm_handle.py, which does not look at the size before the copy.      *)
(*                                                                         *)
(* A slot is a sequence number, a payload size and SlotSize units of       *)
(* payload.  The write that is given sequence number q stores the token q  *)
(* in every unit, so a unit tells which write it comes from.               *)
(*                                                                         *)
(* `published' is the metadata topic: a best-effort channel that may       *)
(* deliver a message late, twice, out of order or not at all, so a reader  *)
(* may start a copy for any message ever published.                        *)
(*                                                                         *)
(* StoreOrdered and LoadOrdered say what the machine adds to the           *)
(* __atomic orders in the source.  A RELEASE store does not keep later     *)
(* plain stores behind it and an ACQUIRE load does not keep earlier plain  *)
(* loads before it; a machine with total store order does both.            *)
(***************************************************************************)
EXTENDS Integers

CONSTANTS
  Readers,       \* subscriber handles, each copies one frame at a time
  SlotCount,     \* slots in the ring
  SlotSize,      \* capacity of a slot, in payload units
  Sizes,         \* payload sizes the publisher writes
  WriterLanguages, ReaderLanguages,   \* the languages they may be written in
  MaxSequence,   \* bound: the last sequence number that is written
  StoreOrdered,  \* plain stores stay behind an earlier release store
  LoadOrdered    \* plain loads stay before a later acquire load

ASSUME SlotCountAssumption == SlotCount \in Nat \ {0}
ASSUME SlotSizeAssumption == SlotSize \in Nat \ {0}
ASSUME SizesAssumption == Sizes \subseteq 0..SlotSize
ASSUME MaxSequenceAssumption == MaxSequence \in Nat
ASSUME LanguageAssumption ==
  /\ WriterLanguages \subseteq {"cpp", "python"}
  /\ ReaderLanguages \subseteq {"cpp", "python"}
ASSUME OrderAssumption == StoreOrdered \in BOOLEAN /\ LoadOrdered \in BOOLEAN

VARIABLES
  wlanguage,     \* constant of a behaviour: the publisher's language
  rlanguage,     \* constant of a behaviour: the language of each reader
  slotSeq,       \* SlotHeader.sequence of each slot
  slotLen,       \* SlotHeader.payload_size of each slot
  slotData,      \* payload units of each slot
  nextSlot,      \* ShmRingBuffer::next_slot_
  nextSeq,       \* ShmRingBuffer::next_sequence_
  wpc,           \* where the publisher is
  wlen,          \* size of the frame being written
  wmarked,       \* the slot's last sequence number has been overwritten
  wsized,        \* the final store of payload_size is done
  wtodo,         \* payload units the memcpy has not stored yet
  wpack,         \* stores done of a struct.pack_into into the slot header
  published,     \* metadata messages published so far
  rpc,           \* where each reader is
  rmeta,         \* the metadata message a reader serves
  rseq,          \* before_sequence
  rlen,          \* before_payload_size
  rafter,        \* after_sequence
  rtodo,         \* payload units a reader has not loaded yet
  rbuf           \* the bytes a reader has copied out

shm == <<slotSeq, slotLen, slotData>>
writer == <<nextSlot, nextSeq, wpc, wlen, wmarked, wsized, wtodo, wpack>>
reader == <<rpc, rmeta, rseq, rlen, rafter, rtodo, rbuf>>
languages == <<wlanguage, rlanguage>>
vars == <<languages, shm, writer, published, reader>>

Slots == 0..(SlotCount - 1)
Units == 1..SlotSize
UnitsOf(size) == 1..size
Metadata == [slot : Slots, sequence : Nat, size : 0..SlotSize]

\* `even_sequence | 1': the sequence number of a slot that is being written.
OddSequence(q) == q + 1

\* The cursors of the next write: round the ring, two numbers per frame.
CursorNotWrapped(s) == s + 1
CursorStuck(s) == s
FollowingSlot(s) == (s + 1) % SlotCount

NumberStuck(q) == q
NumberByOne(q) == q + 1
FollowingSequence(q) == q + 2

\* The four comparisons of copy_payload.
NotShown(before, sequence) == before # sequence \/ before % 2 # 0

UnseenRewrite(before, after) == FALSE
Rewritten(before, after) == before # after \/ after % 2 # 0

Resized(before, after, size) == before # after \/ after # size
PyResized(after, size) == after # size

NoMeta == [slot |-> 0, sequence |-> 0, size |-> 0]
NoBytes == [u \in Units |-> 0]

Init ==
  /\ wlanguage \in WriterLanguages
  /\ rlanguage \in [Readers -> ReaderLanguages]
  /\ slotSeq = [s \in Slots |-> 0]
  /\ slotLen = [s \in Slots |-> 0]
  /\ slotData = [s \in Slots |-> NoBytes]
  /\ nextSlot = 0
  /\ nextSeq = 2
  /\ wpc = "idle"
  /\ wlen = 0
  /\ wmarked = FALSE
  /\ wsized = FALSE
  /\ wtodo = {}
  /\ wpack = 0
  /\ published = {}
  /\ rpc = [r \in Readers |-> "idle"]
  /\ rmeta = [r \in Readers |-> NoMeta]
  /\ rseq = [r \in Readers |-> 0]
  /\ rlen = [r \in Readers |-> 0]
  /\ rafter = [r \in Readers |-> 0]
  /\ rtodo = [r \in Readers |-> {}]
  /\ rbuf = [r \in Readers |-> NoBytes]

-----------------------------------------------------------------------------
(* ShmRingBuffer::write, and the publish of its result by ShmPublisher.     *)

\* write() is entered with a payload that fits the slot.
BeginWrite ==
  /\ wpc = "idle"
  /\ nextSeq <= MaxSequence
  /\ \E size \in Sizes :
       /\ wlen' = size
       /\ wtodo' = UnitsOf(size)
  /\ wpc' = (IF wlanguage = "cpp" THEN "writing" ELSE "mark")
  /\ UNCHANGED <<languages, shm, nextSlot, nextSeq, wmarked, wsized, wpack,
                 published, reader>>

\* The RELEASE store of the odd sequence number.
StoreOdd ==
  /\ wpc = "writing"
  /\ ~wmarked
  /\ slotSeq' = [slotSeq EXCEPT ![nextSlot] = OddSequence(nextSeq)]
  /\ wmarked' = TRUE
  /\ UNCHANGED <<languages, slotLen, slotData, nextSlot, nextSeq, wpc, wlen, wsized,
                 wtodo, wpack, published, reader>>

\* One unit of the memcpy; the copy may store its units in any order.
StoreUnit(u) ==
  /\ wpc \in {"writing", "fill"}
  /\ u \in wtodo
  /\ wmarked \/ ~StoreOrdered
  /\ slotData' = [slotData EXCEPT ![nextSlot][u] = nextSeq]
  /\ wtodo' = wtodo \ {u}
  /\ UNCHANGED <<languages, slotSeq, slotLen, nextSlot, nextSeq, wpc, wlen, wmarked,
                 wsized, wpack, published, reader>>

\* The plain store of payload_size; nothing orders it with the memcpy.
StoreLen ==
  /\ wpc = "writing"
  /\ ~wsized
  /\ wmarked \/ ~StoreOrdered
  /\ slotLen' = [slotLen EXCEPT ![nextSlot] = wlen]
  /\ wsized' = TRUE
  /\ UNCHANGED <<languages, slotSeq, slotData, nextSlot, nextSeq, wpc, wlen, wmarked,
                 wtodo, wpack, published, reader>>

\* The RELEASE store of the even sequence number, after every earlier store.
StoreEven ==
  /\ wpc = "writing"
  /\ wmarked
  /\ wsized
  /\ wtodo = {}
  /\ slotSeq' = [slotSeq EXCEPT ![nextSlot] = nextSeq]
  /\ wpc' = "written"
  /\ UNCHANGED <<languages, slotLen, slotData, nextSlot, nextSeq, wlen, wmarked, wsized,
                 wtodo, wpack, published, reader>>

\* struct.pack_into clears the header, then stores the fields in order.  It is
\* called twice: with the odd number before the payload, which marks the slot,
\* and with the even one after it, which confirms the frame.
PackClearsSequence ==
  /\ wpack = 0
  /\ wpc = "mark" \/ (wpc = "fill" /\ wtodo = {})
  /\ wpc' = (IF wpc = "mark" THEN "mark" ELSE "confirm")
  /\ slotSeq' = [slotSeq EXCEPT ![nextSlot] = 0]
  /\ wmarked' = TRUE
  /\ wpack' = 1
  /\ UNCHANGED <<languages, slotLen, slotData, nextSlot, nextSeq, wlen, wsized, wtodo,
                 published, reader>>

PackClearsSize ==
  /\ wpack = 1
  /\ slotLen' = [slotLen EXCEPT ![nextSlot] = 0]
  /\ wpack' = 2
  /\ UNCHANGED <<languages, slotSeq, slotData, nextSlot, nextSeq, wpc, wlen, wmarked,
                 wsized, wtodo, published, reader>>

PackedSequence == IF wpc = "mark" THEN OddSequence(nextSeq) ELSE nextSeq

PackStoresSequence ==
  /\ wpack = 2
  /\ slotSeq' = [slotSeq EXCEPT ![nextSlot] = PackedSequence]
  /\ wpack' = 3
  /\ UNCHANGED <<languages, slotLen, slotData, nextSlot, nextSeq, wpc, wlen, wmarked,
                 wsized, wtodo, published, reader>>

PackStoresSize ==
  /\ wpack = 3
  /\ slotLen' = [slotLen EXCEPT ![nextSlot] = wlen]
  /\ wpc' = (IF wpc = "mark" THEN "fill" ELSE "written")
  /\ wsized' = (wpc = "confirm")
  /\ wpack' = 0
  /\ UNCHANGED <<languages, slotSeq, slotData, nextSlot, nextSeq, wlen, wmarked, wtodo,
                 published, reader>>

\* write() advances the cursors and returns; the publisher sends the metadata.
Publish ==
  /\ wpc = "written"
  /\ published' = published \cup
                    {[slot |-> nextSlot, sequence |-> nextSeq, size |-> wlen]}
  /\ nextSlot' = FollowingSlot(nextSlot)
  /\ nextSeq' = FollowingSequence(nextSeq)
  /\ wlen' = 0
  /\ wmarked' = FALSE
  /\ wsized' = FALSE
  /\ wpc' = "idle"
  /\ UNCHANGED <<languages, shm, wtodo, wpack, reader>>

\* The publisher's process dies between any two of its stores.
Crash ==
  /\ wpc # "crashed"
  /\ wpc' = "crashed"
  /\ wpack' = 0
  /\ UNCHANGED <<languages, shm, nextSlot, nextSeq, wlen, wmarked, wsized, wtodo,
                 published, reader>>

-----------------------------------------------------------------------------
(* ShmHandle::copy_payload on an open handle.                               *)

BeginCopy(r) ==
  /\ rpc[r] = "idle"
  /\ \E m \in published :
       /\ rmeta' = [rmeta EXCEPT ![r] = m]
       /\ rtodo' = [rtodo EXCEPT ![r] = UnitsOf(m.size)]
  /\ rpc' = [rpc EXCEPT ![r] = "sequence"]
  /\ UNCHANGED <<languages, shm, writer, published, rseq, rlen, rafter, rbuf>>

LoadBeforeSequence(r) ==
  /\ rpc[r] = "sequence"
  /\ rseq' = [rseq EXCEPT ![r] = slotSeq[rmeta[r].slot]]
  /\ rpc' = [rpc EXCEPT ![r] = "length"]
  /\ UNCHANGED <<languages, shm, writer, published, rmeta, rlen, rafter, rtodo, rbuf>>

\* The size is loaded, then the sequence number is compared with the metadata.
LoadBeforeLength(r) ==
  /\ rpc[r] = "length"
  /\ rlen' = [rlen EXCEPT ![r] = slotLen[rmeta[r].slot]]
  /\ rpc' = [rpc EXCEPT ![r] =
               IF NotShown(rseq[r], rmeta[r].sequence) THEN "rejected" ELSE "copy"]
  /\ UNCHANGED <<languages, shm, writer, published, rmeta, rseq, rafter, rtodo, rbuf>>

\* One unit of the copy.  Unless LoadOrdered, it may be performed after the
\* loads that the source places behind it.
LoadUnit(r, u) ==
  /\ rpc[r] \in {"copy", "after", "accepted"}
  /\ u \in rtodo[r]
  /\ rbuf' = [rbuf EXCEPT ![r][u] = slotData[rmeta[r].slot][u]]
  /\ rtodo' = [rtodo EXCEPT ![r] = @ \ {u}]
  /\ UNCHANGED <<languages, shm, writer, published, rpc, rmeta, rseq, rlen, rafter>>

LoadAfterSequence(r) ==
  /\ rpc[r] = "copy"
  /\ rtodo[r] = {} \/ ~LoadOrdered
  /\ rafter' = [rafter EXCEPT ![r] = slotSeq[rmeta[r].slot]]
  /\ rpc' = [rpc EXCEPT ![r] = "after"]
  /\ UNCHANGED <<languages, shm, writer, published, rmeta, rseq, rlen, rtodo, rbuf>>

\* after_payload_size is loaded, then the two checks decide.
LoadAfterLength(r) ==
  LET after == slotLen[rmeta[r].slot]
      rewritten == Rewritten(rseq[r], rafter[r])
      resized == IF rlanguage[r] = "cpp" THEN Resized(rlen[r], after, rmeta[r].size)
                 ELSE PyResized(after, rmeta[r].size)
  IN  /\ rpc[r] = "after"
      /\ rpc' = [rpc EXCEPT ![r] =
                   IF rewritten \/ resized THEN "rejected" ELSE "accepted"]
      /\ UNCHANGED <<languages, shm, writer, published, rmeta, rseq, rlen, rafter,
                     rtodo, rbuf>>

\* copy_payload returns the bytes, or throws ShmFrameInvalid, which the
\* subscriber's metadata callback catches; its locals are gone.
EndCopy(r) ==
  /\ \/ rpc[r] = "rejected"
     \/ rpc[r] = "accepted" /\ rtodo[r] = {}
  /\ rpc' = [rpc EXCEPT ![r] = "idle"]
  /\ rmeta' = [rmeta EXCEPT ![r] = NoMeta]
  /\ rseq' = [rseq EXCEPT ![r] = 0]
  /\ rlen' = [rlen EXCEPT ![r] = 0]
  /\ rafter' = [rafter EXCEPT ![r] = 0]
  /\ rtodo' = [rtodo EXCEPT ![r] = {}]
  /\ rbuf' = [rbuf EXCEPT ![r] = NoBytes]
  /\ UNCHANGED <<languages, shm, writer, published>>

-----------------------------------------------------------------------------

WriterStep ==
  \/ BeginWrite
  \/ StoreOdd
  \/ \E u \in Units : StoreUnit(u)
  \/ StoreLen
  \/ StoreEven
  \/ PackClearsSequence
  \/ PackClearsSize
  \/ PackStoresSequence
  \/ PackStoresSize
  \/ Publish
  \/ Crash

ReaderStep(r) ==
  \/ BeginCopy(r)
  \/ LoadBeforeSequence(r)
  \/ LoadBeforeLength(r)
  \/ \E u \in Units : LoadUnit(r, u)
  \/ LoadAfterSequence(r)
  \/ LoadAfterLength(r)
  \/ EndCopy(r)

Next == WriterStep \/ \E r \in Readers : ReaderStep(r)

Spec == Init /\ [][Next]_vars

-----------------------------------------------------------------------------

\* Every variable keeps its range: the cursor stays in the ring, a size in the
\* slot, and a message names a slot of the ring.
TypeOK ==
  /\ wlanguage \in WriterLanguages
  /\ rlanguage \in [Readers -> ReaderLanguages]
  /\ slotSeq \in [Slots -> Nat]
  /\ slotLen \in [Slots -> 0..SlotSize]
  /\ slotData \in [Slots -> [Units -> Nat]]
  /\ nextSlot \in Slots
  /\ nextSeq \in Nat
  /\ wpc \in {"idle", "writing", "mark", "fill", "confirm", "written", "crashed"}
  /\ wlen \in 0..SlotSize
  /\ wmarked \in BOOLEAN
  /\ wsized \in BOOLEAN
  /\ wtodo \in SUBSET Units
  /\ wpack \in 0..3
  /\ published \in SUBSET Metadata
  /\ rpc \in [Readers -> {"idle", "sequence", "length", "copy", "after",
                          "accepted", "rejected"}]
  /\ rmeta \in [Readers -> Metadata]
  /\ rseq \in [Readers -> Nat]
  /\ rlen \in [Readers -> 0..SlotSize]
  /\ rafter \in [Readers -> Nat]
  /\ rtodo \in [Readers -> SUBSET Units]
  /\ rbuf \in [Readers -> [Units -> Nat]]

\* The payload copied for a message is, unit by unit, what the write that
\* published the message stored: not a mix of two writes and not the payload
\* of a later or an earlier one.
Intact(r) == \A u \in UnitsOf(rmeta[r].size) : rbuf[r][u] = rmeta[r].sequence

\* copy_payload returns bytes only if they are the frame its metadata
\* describes, however the copy and the writer's stores interleave, and however
\* late or often the metadata arrives.
AcceptedCopyIsIntact ==
  \A r \in Readers : rpc[r] = "accepted" /\ rtodo[r] = {} => Intact(r)

\* The slot of m still holds the frame of m.
Retained(m) ==
  /\ slotSeq[m.slot] = m.sequence
  /\ slotLen[m.slot] = m.size
  /\ \A u \in UnitsOf(m.size) : slotData[m.slot][u] = m.sequence

\* write() has begun to reuse the slot of m: SlotCount frames later.
Lapped(m) ==
  LET reuse == m.sequence + 2 * SlotCount
  IN  nextSeq > reuse \/ (nextSeq = reuse /\ wmarked)

\* A published frame stays whole in its slot until the writer comes round the
\* ring and marks the slot: the last SlotCount frames (SlotCount - 1 while a
\* write is in progress) can always be copied, also after a crash mid-write.
FramesRetainedUntilLapped == \A m \in published : Retained(m) \/ Lapped(m)

\* copy_payload throws only when the writer lapped the reader: a frame that
\* is still in the ring is never refused because of an unrelated write.
RejectedOnlyWhenLapped ==
  \A r \in Readers : rpc[r] = "rejected" => Lapped(rmeta[r])

\* Once a slot has left a published sequence number it never shows that number
\* again: what the two loads of one copy compare equal was equal throughout.
SequenceNeverReturns ==
  [][\A m \in published :
       slotSeq[m.slot] # m.sequence => slotSeq'[m.slot] # m.sequence]_vars

-----------------------------------------------------------------------------
(* The inductive invariant of the ordered memory model.                     *)

\* The writer's own record of how far it got agrees with the slot it writes; a
\* slot it has marked shows no number of a message until the frame is whole.
WriterInv ==
  /\ nextSeq >= 2 /\ nextSeq % 2 = 0
  /\ wtodo \subseteq UnitsOf(wlen)
  /\ wpc = "idle" => ~wmarked /\ ~wsized
  /\ wpc = "written" => wmarked /\ wsized /\ wtodo = {}
  /\ wpc = "writing" /\ ~wmarked => ~wsized /\ wtodo = UnitsOf(wlen)
  /\ wpc = "mark" => wtodo = UnitsOf(wlen) /\ ~wsized /\ (wmarked \/ wpack = 0)
  /\ wpc = "fill" => wmarked /\ ~wsized
  /\ wpc = "confirm" => wmarked /\ ~wsized /\ wtodo = {} /\ wpack # 0
  /\ wpack # 0 => wpc \in {"mark", "confirm"}
  /\ wpc \in {"writing", "mark", "fill", "confirm"} /\ wmarked =>
       slotSeq[nextSlot] \in {0, OddSequence(nextSeq), nextSeq}
  /\ wpc = "written" \/ (wpc = "confirm" /\ wpack = 3) => slotSeq[nextSlot] = nextSeq
  /\ wpc # "crashed" /\ wpc # "idle" =>
       /\ wsized => slotLen[nextSlot] = wlen
       /\ \A u \in UnitsOf(wlen) \ wtodo : slotData[nextSlot][u] = nextSeq

\* A published number is even and older than the write in progress, and its
\* slot shows it, whole, or has moved on because the writer lapped it.
FrameInv(m) ==
  /\ m.sequence >= 2 /\ m.sequence % 2 = 0
  /\ m.sequence < nextSeq
  /\ slotSeq[m.slot] = m.sequence => Retained(m)
  /\ slotSeq[m.slot] # m.sequence => Lapped(m)

\* How many writes ago m was written is how far nextSlot is from its slot.
RingInv(m) ==
  LET writes == nextSeq - m.sequence
      ahead == nextSlot - m.slot
  IN  writes <= 2 * SlotCount =>
        2 * ahead = writes \/ 2 * (ahead + SlotCount) = writes

\* What a reader holds is what its message says, or its slot has moved on.
ReaderInv(r) ==
  LET m == rmeta[r]
      moved == slotSeq[m.slot] # m.sequence
      loaded(u) == rbuf[r][u] = m.sequence
  IN  /\ rpc[r] # "idle" => m \in published
      /\ rpc[r] \in {"sequence", "length"} => rtodo[r] = UnitsOf(m.size)
      /\ rpc[r] = "length" => rseq[r] = m.sequence \/ moved
      /\ rpc[r] \in {"copy", "after"} => rseq[r] = m.sequence
      /\ rpc[r] = "copy" =>
           \/ moved
           \/ rlen[r] = m.size /\ \A u \in UnitsOf(m.size) \ rtodo[r] : loaded(u)
      /\ rpc[r] = "after" =>
           IF rafter[r] = m.sequence
           THEN rlen[r] = m.size /\ \A u \in UnitsOf(m.size) : loaded(u)
           ELSE moved
      /\ rpc[r] \in {"after", "accepted"} => rtodo[r] = {}
      /\ rpc[r] = "accepted" => Intact(r)
      /\ rpc[r] = "rejected" => moved

IndInv ==
  /\ WriterInv
  /\ \A m \in published : FrameInv(m) /\ RingInv(m)
  /\ \A r \in Readers : ReaderInv(r)
===============================================================================
