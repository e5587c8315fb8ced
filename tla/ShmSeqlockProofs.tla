--------------------------- MODULE ShmSeqlockProofs ---------------------------
(***************************************************************************)
(* Theorems about ShmSeqlock for any number of readers, slots, units and   *)
(* frames.  Those below Ordered suppose the ordered memory model.  The     *)
(* last part shows that the ring implements the store of ShmFrameStore:    *)
(* the initial state maps to the empty store, and every memory access to   *)
(* a step of the store or to none.                                         *)
(***************************************************************************)
EXTENDS ShmSeqlockStore, Remainders, FiniteSetTheorems, TLAPS

LEMMA UnitsInSlot ==
  ASSUME NEW size \in 0..SlotSize
  PROVE  UnitsOf(size) \subseteq Units
  BY SlotSizeAssumption DEF UnitsOf, Units

LEMMA NextSlotInRing ==
  ASSUME nextSlot \in Slots
  PROVE  FollowingSlot(nextSlot) =
           (IF nextSlot + 1 = SlotCount THEN 0 ELSE nextSlot + 1)
  <1>1. CASE nextSlot + 1 = SlotCount
    BY <1>1, SlotCountAssumption DEF Slots, FollowingSlot
  <1>2. CASE nextSlot + 1 < SlotCount
    BY <1>2, SlotCountAssumption DEF Slots, FollowingSlot
  <1> QED
    BY <1>1, <1>2, SlotCountAssumption DEF Slots

-----------------------------------------------------------------------------
(* Typing                                                                   *)

LEMMA Defaults ==
  /\ 0 \in Slots
  /\ 0 \in 0..SlotSize
  /\ NoMeta \in Metadata
  /\ NoBytes \in [Units -> Nat]
  BY SlotCountAssumption, SlotSizeAssumption
  DEF Slots, NoMeta, NoBytes, Metadata

LEMMA TypingInit == Init => TypeOK
  <1> SUFFICES ASSUME Init PROVE TypeOK
    OBVIOUS
  <1>2. /\ slotSeq \in [Slots -> Nat]
        /\ slotLen \in [Slots -> 0..SlotSize]
        /\ slotData \in [Slots -> [Units -> Nat]]
    BY Defaults DEF Init
  <1>3. /\ nextSlot \in Slots
        /\ nextSeq \in Nat
        /\ wlen \in 0..SlotSize
        /\ wpack \in 0..3
    BY Defaults DEF Init
  <1>4. /\ rmeta \in [Readers -> Metadata]
        /\ rseq \in [Readers -> Nat]
        /\ rlen \in [Readers -> 0..SlotSize]
        /\ rafter \in [Readers -> Nat]
        /\ rtodo \in [Readers -> SUBSET Units]
        /\ rbuf \in [Readers -> [Units -> Nat]]
    BY Defaults DEF Init
  <1> QED
    BY <1>2, <1>3, <1>4 DEF Init, TypeOK

LEMMA TypingWriter == TypeOK /\ WriterStep => TypeOK'
  <1> SUFFICES ASSUME TypeOK, WriterStep PROVE TypeOK'
    OBVIOUS
  <1> USE DEF TypeOK, languages, shm, reader, FollowingSequence
  <1>1. CASE BeginWrite
    BY <1>1, SizesAssumption, UnitsInSlot DEF BeginWrite
  <1>2. CASE StoreOdd
    BY <1>2 DEF StoreOdd, OddSequence
  <1>3. ASSUME NEW u \in Units, StoreUnit(u) PROVE TypeOK'
    BY <1>3 DEF StoreUnit
  <1>4. CASE StoreLen
    BY <1>4 DEF StoreLen
  <1>5. CASE StoreEven
    BY <1>5 DEF StoreEven
  <1>6. CASE Publish
    <2>1. FollowingSlot(nextSlot) \in Slots
      BY NextSlotInRing, SlotCountAssumption DEF Slots
    <2>2. [slot |-> nextSlot, sequence |-> nextSeq, size |-> wlen] \in Metadata
      BY DEF Metadata
    <2>3. nextSlot' \in Slots /\ published' \in SUBSET Metadata
      BY <1>6, <2>1, <2>2 DEF Publish
    <2>4. nextSeq' \in Nat /\ wlen' \in 0..SlotSize
      BY <1>6, Defaults DEF Publish
    <2> QED
      BY <1>6, <2>3, <2>4 DEF Publish
  <1>7. CASE Crash
    BY <1>7 DEF Crash
  <1>8. CASE PackClearsSequence
    BY <1>8 DEF PackClearsSequence
  <1>9. CASE PackClearsSize
    BY <1>9, Defaults DEF PackClearsSize
  <1>10. CASE PackStoresSequence
    BY <1>10 DEF PackStoresSequence, PackedSequence, OddSequence
  <1>11. CASE PackStoresSize
    BY <1>11 DEF PackStoresSize
  <1> QED
    BY <1>1, <1>2, <1>3, <1>4, <1>5, <1>6, <1>7, <1>8, <1>9, <1>10, <1>11
    DEF WriterStep

LEMMA TypingReader ==
  ASSUME NEW r \in Readers
  PROVE  TypeOK /\ ReaderStep(r) => TypeOK'
  <1> SUFFICES ASSUME TypeOK, ReaderStep(r) PROVE TypeOK'
    OBVIOUS
  <1> USE DEF TypeOK, languages, shm, writer
  <1>0. rmeta[r].slot \in Slots
    BY DEF Metadata
  <1>1. CASE BeginCopy(r)
    <2>1. PICK m \in published :
            /\ rmeta' = [rmeta EXCEPT ![r] = m]
            /\ rtodo' = [rtodo EXCEPT ![r] = UnitsOf(m.size)]
      BY <1>1 DEF BeginCopy
    <2>2. m \in Metadata /\ UnitsOf(m.size) \subseteq Units
      BY UnitsInSlot DEF Metadata
    <2> QED
      BY <1>1, <2>1, <2>2 DEF BeginCopy
  <1>2. CASE LoadBeforeSequence(r)
    BY <1>0, <1>2 DEF LoadBeforeSequence
  <1>3. CASE LoadBeforeLength(r)
    BY <1>0, <1>3 DEF LoadBeforeLength
  <1>4. ASSUME NEW u \in Units, LoadUnit(r, u) PROVE TypeOK'
    BY <1>0, <1>4 DEF LoadUnit
  <1>5. CASE LoadAfterSequence(r)
    BY <1>0, <1>5 DEF LoadAfterSequence
  <1>6. CASE LoadAfterLength(r)
    BY <1>0, <1>6 DEF LoadAfterLength
  <1>7. CASE EndCopy(r)
    BY <1>7, Defaults DEF EndCopy
  <1> QED
    BY <1>1, <1>2, <1>3, <1>4, <1>5, <1>6, <1>7 DEF ReaderStep

\* Every variable keeps the range its C++ counterpart has; in particular the
\* slot cursor never leaves the ring and no loaded size exceeds a slot.
THEOREM TypeCorrect == Spec => []TypeOK
  <1>1. TypeOK /\ [Next]_vars => TypeOK'
    <2> SUFFICES ASSUME TypeOK, [Next]_vars PROVE TypeOK'
      OBVIOUS
    <2>1. CASE WriterStep
      BY <2>1, TypingWriter
    <2>2. ASSUME NEW r \in Readers, ReaderStep(r) PROVE TypeOK'
      BY <2>2, TypingReader
    <2>3. CASE UNCHANGED vars
      BY <2>3 DEF vars, languages, shm, writer, reader, TypeOK
    <2> QED
      BY <2>1, <2>2, <2>3 DEF Next
  <1> QED
    BY <1>1, TypingInit, PTL DEF Spec

-----------------------------------------------------------------------------
(* The inductive invariant                                                  *)

Ordered == StoreOrdered /\ LoadOrdered

LEMMA IndInvInit == Init => IndInv
  <1> SUFFICES ASSUME Init PROVE IndInv
    OBVIOUS
  <1>1. WriterInv
    BY SlotSizeAssumption DEF Init, WriterInv, UnitsOf
  <1>2. \A r \in Readers : ReaderInv(r)
    BY DEF Init, ReaderInv
  <1> QED
    BY <1>1, <1>2 DEF Init, IndInv

\* Once the slot of a published frame has moved on, no step shows the number
\* of that frame in it again.
LEMMA NoReturn ==
  ASSUME TypeOK, IndInv, [Next]_vars,
         NEW m \in published, slotSeq[m.slot] # m.sequence
  PROVE  slotSeq'[m.slot] # m.sequence
  <1> USE DEF TypeOK
  <1>1. /\ m \in Metadata /\ m.slot \in Slots /\ m.sequence \in Nat
        /\ m.sequence < nextSeq /\ m.sequence >= 2
    BY DEF IndInv, FrameInv, Metadata
  <1>2. CASE StoreOdd
    BY <1>1, <1>2 DEF StoreOdd, OddSequence
  <1>3. CASE StoreEven
    BY <1>1, <1>3 DEF StoreEven
  <1>6. CASE PackClearsSequence
    BY <1>1, <1>6 DEF PackClearsSequence
  <1>7. CASE PackStoresSequence
    BY <1>1, <1>7 DEF PackStoresSequence, PackedSequence, OddSequence
  <1>4. CASE UNCHANGED slotSeq
    BY <1>4
  <1>5. \/ StoreOdd \/ StoreEven \/ PackClearsSequence \/ PackStoresSequence
        \/ UNCHANGED slotSeq
    <2>1. CASE WriterStep
      BY <2>1 DEF WriterStep, BeginWrite, StoreUnit, StoreLen, PackClearsSize,
                  PackStoresSize, Publish, Crash, shm
    <2>2. ASSUME NEW r \in Readers, ReaderStep(r) PROVE UNCHANGED slotSeq
      BY <2>2 DEF ReaderStep, BeginCopy, LoadBeforeSequence, LoadBeforeLength,
                  LoadUnit, LoadAfterSequence, LoadAfterLength, EndCopy, shm
    <2> QED
      BY <2>1, <2>2 DEF Next, vars, shm
  <1> QED
    BY <1>2, <1>3, <1>4, <1>5, <1>6, <1>7

\* A reader's part of the invariant survives a step of anybody else.
LEMMA ReaderInvStable ==
  ASSUME TypeOK, IndInv, [Next]_vars, NEW r \in Readers,
         rpc'[r] = rpc[r], rmeta'[r] = rmeta[r], rseq'[r] = rseq[r],
         rlen'[r] = rlen[r], rafter'[r] = rafter[r], rtodo'[r] = rtodo[r],
         rbuf'[r] = rbuf[r], published \subseteq published'
  PROVE  ReaderInv(r)'
  <1> DEFINE m == rmeta[r]
  <1>1. ReaderInv(r)
    BY DEF IndInv
  <1>2. CASE rpc[r] = "idle"
    BY <1>2 DEF ReaderInv
  <1>3. CASE rpc[r] # "idle"
    <2>1. m \in published
      BY <1>1, <1>3 DEF ReaderInv
    <2>2. slotSeq[m.slot] # m.sequence => slotSeq'[m.slot] # m.sequence
      BY <2>1, NoReturn
    <2> QED
      BY <1>1, <2>1, <2>2 DEF ReaderInv, Intact
  <1> QED
    BY <1>2, <1>3

LEMMA WriterKeepsWriterInv ==
  ASSUME TypeOK, IndInv, Ordered, WriterStep
  PROVE  WriterInv'
  <1> USE DEF TypeOK, languages, shm, reader, FollowingSequence
  <1>0. WriterInv
    BY DEF IndInv
  <1>1. CASE BeginWrite
    BY <1>0, <1>1 DEF BeginWrite, WriterInv
  <1>2. CASE StoreOdd
    BY <1>0, <1>2 DEF StoreOdd, WriterInv, OddSequence
  <1>3. ASSUME NEW u \in Units, StoreUnit(u) PROVE WriterInv'
    <2>1. wpc \in {"writing", "fill"} /\ wmarked
      BY <1>0, <1>3 DEF StoreUnit, WriterInv, Ordered
    <2>2. \A v \in UnitsOf(wlen) \ wtodo' : slotData'[nextSlot][v] = nextSeq
      BY <1>0, <1>3, <2>1, UnitsInSlot DEF StoreUnit, WriterInv
    <2> QED
      BY <1>0, <1>3, <2>1, <2>2 DEF StoreUnit, WriterInv
  <1>4. CASE StoreLen
    BY <1>0, <1>4 DEF StoreLen, WriterInv, Ordered
  <1>5. CASE StoreEven
    BY <1>0, <1>5 DEF StoreEven, WriterInv
  <1>6. CASE Publish
    BY <1>0, <1>6 DEF Publish, WriterInv
  <1>7. CASE Crash
    BY <1>0, <1>7 DEF Crash, WriterInv
  <1>8. CASE PackClearsSequence
    BY <1>0, <1>8 DEF PackClearsSequence, WriterInv
  <1>9. CASE PackClearsSize
    BY <1>0, <1>9 DEF PackClearsSize, WriterInv
  <1>10. CASE PackStoresSequence
    BY <1>0, <1>10 DEF PackStoresSequence, PackedSequence, WriterInv
  <1>11. CASE PackStoresSize
    BY <1>0, <1>11 DEF PackStoresSize, WriterInv
  <1> QED
    BY <1>1, <1>2, <1>3, <1>4, <1>5, <1>6, <1>7, <1>8, <1>9, <1>10, <1>11
    DEF WriterStep

\* The slot about to be marked holds a frame only if that frame was written
\* exactly SlotCount writes ago.
LEMMA SlotBelongsToLappedFrame ==
  ASSUME TypeOK, NEW m \in published, FrameInv(m), RingInv(m), m.slot = nextSlot,
         nextSeq % 2 = 0
  PROVE  nextSeq >= m.sequence + 2 * SlotCount
  <1>1. /\ m.slot \in Nat /\ m.sequence \in Nat /\ nextSeq \in Nat /\ nextSlot \in Nat
        /\ SlotCount \in Nat
    BY SlotCountAssumption DEF TypeOK, Metadata, Slots
  <1>2. m.sequence < nextSeq
    BY DEF FrameInv
  <1> QED
    BY <1>1, <1>2 DEF RingInv

\* A store of a number that is not m's into the slot under the cursor: m was
\* there no more, or is lapped.
LEMMA MarkingKeepsFrame ==
  ASSUME TypeOK, NEW m \in published, FrameInv(m), RingInv(m), nextSeq % 2 = 0,
         NEW q \in Nat, q # m.sequence,
         slotSeq' = [slotSeq EXCEPT ![nextSlot] = q], wmarked',
         UNCHANGED <<slotLen, slotData, nextSlot, nextSeq>>
  PROVE  FrameInv(m)' /\ RingInv(m)'
  <1>m. m.slot \in Slots /\ m.sequence \in Nat /\ m.size \in 0..SlotSize
    BY DEF TypeOK, Metadata
  <1>1. CASE m.slot = nextSlot
    <2>1. nextSeq >= m.sequence + 2 * SlotCount
      BY <1>1, SlotBelongsToLappedFrame
    <2>2. \/ nextSeq' > m.sequence + 2 * SlotCount
          \/ nextSeq' = m.sequence + 2 * SlotCount
      <3>1. nextSeq \in Nat /\ SlotCount \in Nat
        BY SlotCountAssumption DEF TypeOK
      <3> QED
        BY <1>m, <2>1, <3>1
    <2>3. Lapped(m)'
      BY <2>2, Zenon DEF Lapped
    <2>4. slotSeq'[m.slot] # m.sequence
      BY <1>1, <1>m DEF TypeOK
    <2> QED
      BY <2>3, <2>4 DEF FrameInv, RingInv
  <1>2. CASE m.slot # nextSlot
    <2>1. slotSeq'[m.slot] = slotSeq[m.slot]
      BY <1>2, <1>m DEF TypeOK
    <2>2. Lapped(m) => Lapped(m)'
      BY <1>m, SlotCountAssumption DEF Lapped, TypeOK
    <2> QED
      BY <2>1, <2>2 DEF FrameInv, RingInv, Retained
  <1> QED
    BY <1>1, <1>2

LEMMA WriterKeepsFrames ==
  ASSUME TypeOK, IndInv, Ordered, WriterStep,
         NEW m \in published
  PROVE  FrameInv(m)' /\ RingInv(m)'
  <1> USE DEF TypeOK, languages, shm, reader, FollowingSequence
  <1>0. WriterInv /\ FrameInv(m) /\ RingInv(m)
    BY DEF IndInv
  <1>m. /\ m.slot \in Slots /\ m.sequence \in Nat /\ m.size \in 0..SlotSize
        /\ UnitsOf(m.size) \subseteq Units
        /\ m.sequence >= 2 /\ m.sequence < nextSeq
    BY <1>0, UnitsInSlot DEF Metadata, FrameInv
  <1>u. ASSUME wpc \in {"writing", "mark", "fill", "confirm"}, wmarked
        PROVE  slotSeq[m.slot] = m.sequence => m.slot # nextSlot
    BY <1>0, <1>m, <1>u DEF WriterInv, OddSequence
  <1>1. CASE BeginWrite
    BY <1>0, <1>1 DEF BeginWrite, FrameInv, RingInv, Retained, Lapped
  <1>2. CASE StoreOdd
    <2>1. /\ nextSeq + 1 \in Nat /\ nextSeq + 1 # m.sequence /\ nextSeq % 2 = 0
          /\ slotSeq' = [slotSeq EXCEPT ![nextSlot] = nextSeq + 1] /\ wmarked'
          /\ UNCHANGED <<slotLen, slotData, nextSlot, nextSeq>>
      BY <1>0, <1>2, <1>m DEF StoreOdd, OddSequence, WriterInv
    <2> QED
      BY <1>0, <2>1, MarkingKeepsFrame
  <1>3. ASSUME NEW u \in Units, StoreUnit(u) PROVE FrameInv(m)' /\ RingInv(m)'
    <2>1. wpc \in {"writing", "fill"} /\ wmarked
      BY <1>0, <1>3 DEF StoreUnit, WriterInv, Ordered
    <2>2. slotSeq[m.slot] = m.sequence => m.slot # nextSlot
      BY <1>u, <2>1
    <2> QED
      BY <1>0, <1>3, <1>m, <2>2 DEF StoreUnit, FrameInv, RingInv, Retained, Lapped
  <1>4. CASE StoreLen
    <2>1. slotSeq[m.slot] = m.sequence => m.slot # nextSlot
      BY <1>4, <1>u DEF StoreLen, Ordered
    <2> QED
      BY <1>0, <1>4, <1>m, <2>1 DEF StoreLen, FrameInv, RingInv, Retained, Lapped
  <1>5. CASE StoreEven
    <2>1. /\ nextSeq # m.sequence /\ nextSeq % 2 = 0
          /\ slotSeq' = [slotSeq EXCEPT ![nextSlot] = nextSeq] /\ wmarked'
          /\ UNCHANGED <<slotLen, slotData, nextSlot, nextSeq>>
      BY <1>0, <1>5, <1>m DEF StoreEven, WriterInv
    <2> QED
      BY <1>0, <2>1, MarkingKeepsFrame
  <1>8. CASE PackClearsSequence
    <2>1. /\ 0 # m.sequence /\ nextSeq % 2 = 0
          /\ slotSeq' = [slotSeq EXCEPT ![nextSlot] = 0] /\ wmarked'
          /\ UNCHANGED <<slotLen, slotData, nextSlot, nextSeq>>
      BY <1>0, <1>8, <1>m DEF PackClearsSequence, WriterInv
    <2> QED
      BY <1>0, <2>1, MarkingKeepsFrame
  <1>9. CASE PackClearsSize
    <2>1. slotSeq[m.slot] = m.sequence => m.slot # nextSlot
      BY <1>0, <1>9, <1>u DEF PackClearsSize, WriterInv
    <2> QED
      BY <1>0, <1>9, <1>m, <2>1 DEF PackClearsSize, FrameInv, RingInv, Retained, Lapped
  <1>10. CASE PackStoresSequence
    <2>1. wmarked /\ wmarked'
      BY <1>0, <1>10 DEF PackStoresSequence, WriterInv
    <2>2. PackedSequence \in Nat /\ PackedSequence # m.sequence
      BY <1>m DEF PackedSequence, OddSequence
    <2> QED
      BY <1>0, <1>10, <2>1, <2>2, MarkingKeepsFrame DEF PackStoresSequence, WriterInv
  <1>11. CASE PackStoresSize
    <2>1. slotSeq[m.slot] = m.sequence => m.slot # nextSlot
      BY <1>0, <1>11, <1>u DEF PackStoresSize, WriterInv
    <2> QED
      BY <1>0, <1>11, <1>m, <2>1 DEF PackStoresSize, FrameInv, RingInv, Retained, Lapped
  <1>6. CASE Publish
    <2>1. FrameInv(m)'
      <3>1. Lapped(m) => Lapped(m)'
        BY <1>6, <1>m, SlotCountAssumption DEF Publish, Lapped
      <3> QED
        BY <1>0, <1>6, <1>m, <3>1 DEF Publish, FrameInv, Retained
    <2>2. RingInv(m)'
      <3>1. nextSlot' = (IF nextSlot + 1 = SlotCount THEN 0 ELSE nextSlot + 1)
        BY <1>6, NextSlotInRing DEF Publish
      <3>2. nextSeq' = nextSeq + 2
        BY <1>6 DEF Publish
      <3>3. /\ SlotCount \in Nat /\ nextSlot \in Nat /\ m.slot \in Nat
            /\ nextSlot < SlotCount /\ m.slot < SlotCount /\ nextSeq \in Nat
        BY <1>m, SlotCountAssumption DEF Slots
      <3>4. nextSeq' - m.sequence <= 2 * SlotCount =>
              \/ 2 * (nextSlot - m.slot) = nextSeq - m.sequence
              \/ 2 * (nextSlot - m.slot + SlotCount) = nextSeq - m.sequence
        BY <1>0, <1>m, <3>2, <3>3 DEF RingInv
      <3> HIDE DEF TypeOK
      <3>5. nextSeq' - m.sequence <= 2 * SlotCount =>
              \/ 2 * (nextSlot' - m.slot) = nextSeq' - m.sequence
              \/ 2 * (nextSlot' - m.slot + SlotCount) = nextSeq' - m.sequence
        BY <1>m, <3>1, <3>2, <3>3, <3>4
      <3> QED
        BY <3>5 DEF RingInv
    <2> QED
      BY <2>1, <2>2
  <1>7. CASE Crash
    BY <1>0, <1>7 DEF Crash, FrameInv, RingInv, Retained, Lapped
  <1> QED
    BY <1>1, <1>2, <1>3, <1>4, <1>5, <1>6, <1>7, <1>8, <1>9, <1>10, <1>11
    DEF WriterStep

LEMMA PublishAddsFrame ==
  ASSUME TypeOK, IndInv, Publish, NEW m \in published' \ published
  PROVE  FrameInv(m)' /\ RingInv(m)'
  <1> USE DEF TypeOK, languages, shm, reader, FollowingSequence
  <1>1. m = [slot |-> nextSlot, sequence |-> nextSeq, size |-> wlen]
    BY DEF Publish
  <1>2. WriterInv /\ wpc = "written"
    BY DEF IndInv, Publish
  <1>3. Retained(m) /\ UNCHANGED shm
    BY <1>1, <1>2 DEF Retained, WriterInv, Publish
  <1>4. FrameInv(m)'
    BY <1>1, <1>2, <1>3 DEF FrameInv, Retained, WriterInv, Publish
  <1>5. RingInv(m)'
    <2>1. nextSlot' = (IF nextSlot + 1 = SlotCount THEN 0 ELSE nextSlot + 1)
      BY NextSlotInRing DEF Publish
    <2>2. nextSeq' - m.sequence = 2
      BY <1>1 DEF Publish
    <2> QED
      BY <1>1, <2>1, <2>2, SlotCountAssumption DEF RingInv, Slots
  <1> QED
    BY <1>4, <1>5

\* If the slot of a published frame shows its number, it holds that frame.
LEMMA ShownFrameIsWhole ==
  ASSUME TypeOK, IndInv, NEW m \in published, slotSeq[m.slot] = m.sequence
  PROVE  /\ slotLen[m.slot] = m.size
         /\ \A u \in UnitsOf(m.size) : slotData[m.slot][u] = m.sequence
  BY DEF IndInv, FrameInv, Retained

LEMMA ReaderKeepsReaderInv ==
  ASSUME TypeOK, IndInv, Ordered, NEW r \in Readers, ReaderStep(r)
  PROVE  ReaderInv(r)'
  <1> DEFINE m == rmeta[r]
  <1> USE DEF TypeOK, languages, shm, NotShown, Rewritten, Resized, PyResized
  <1>0. ReaderInv(r) /\ LoadOrdered
    BY DEF IndInv, Ordered
  <1>1. CASE BeginCopy(r)
    BY <1>1 DEF BeginCopy, ReaderInv
  <1>m. ASSUME rpc[r] # "idle"
        PROVE  /\ m \in published /\ m.slot \in Slots
               /\ m.sequence \in Nat /\ m.sequence % 2 = 0
               /\ UnitsOf(m.size) \subseteq Units
    <2>1. m \in published
      BY <1>0, <1>m DEF ReaderInv
    <2>2. FrameInv(m)
      BY <2>1 DEF IndInv
    <2> QED
      BY <2>1, <2>2, UnitsInSlot DEF FrameInv, Metadata
  <1>2. CASE LoadBeforeSequence(r)
    BY <1>0, <1>2, <1>m DEF LoadBeforeSequence, ReaderInv
  <1>3. CASE LoadBeforeLength(r)
    <2>1. m \in published /\ m.sequence % 2 = 0
      BY <1>3, <1>m DEF LoadBeforeLength
    <2>2. slotSeq[m.slot] = m.sequence => slotLen[m.slot] = m.size
      BY <2>1, ShownFrameIsWhole
    <2>3. CASE rseq[r] = m.sequence
      BY <1>0, <1>3, <2>1, <2>2, <2>3 DEF LoadBeforeLength, ReaderInv
    <2>4. CASE rseq[r] # m.sequence
      BY <1>0, <1>3, <2>1, <2>4 DEF LoadBeforeLength, ReaderInv
    <2> QED
      BY <2>3, <2>4
  <1>4. ASSUME NEW u \in Units, LoadUnit(r, u) PROVE ReaderInv(r)'
    <2>1. m \in published
      BY <1>4, <1>m DEF LoadUnit
    <2>2. slotSeq[m.slot] = m.sequence =>
            \A v \in UnitsOf(m.size) : slotData[m.slot][v] = m.sequence
      BY <2>1, ShownFrameIsWhole
    <2>3. rpc[r] = "copy"
      BY <1>0, <1>4 DEF LoadUnit, ReaderInv
    <2>4. rbuf'[r] = [rbuf[r] EXCEPT ![u] = slotData[m.slot][u]]
      BY <1>4 DEF LoadUnit
    <2>5. rtodo'[r] = rtodo[r] \ {u}
      BY <1>4 DEF LoadUnit
    <2>6. \/ slotSeq[m.slot] # m.sequence
          \/ /\ rlen[r] = m.size
             /\ \A v \in UnitsOf(m.size) \ rtodo[r] : rbuf[r][v] = m.sequence
      BY <1>0, <2>3 DEF ReaderInv
    <2>7. \/ slotSeq[m.slot] # m.sequence
          \/ /\ rlen[r] = m.size
             /\ \A v \in UnitsOf(m.size) \ rtodo'[r] : rbuf'[r][v] = m.sequence
      BY <2>2, <2>4, <2>5, <2>6
    <2>8. UNCHANGED <<slotSeq, published, rpc, rmeta, rlen>>
      BY <1>4 DEF LoadUnit
    <2>9. /\ rpc'[r] = "copy" /\ rmeta'[r] = m /\ m \in published'
          /\ rseq'[r] = m.sequence
      BY <1>0, <1>4, <2>1, <2>3 DEF LoadUnit, ReaderInv
    <2> QED
      BY <2>7, <2>8, <2>9 DEF ReaderInv
  <1>5. CASE LoadAfterSequence(r)
    BY <1>0, <1>5 DEF LoadAfterSequence, ReaderInv
  <1>6. CASE LoadAfterLength(r)
    <2>1. m \in published /\ m.sequence % 2 = 0
      BY <1>6, <1>m DEF LoadAfterLength
    <2>2. slotSeq[m.slot] = m.sequence => slotLen[m.slot] = m.size
      BY <2>1, ShownFrameIsWhole
    <2>3. CASE rafter[r] = m.sequence
      BY <1>0, <1>6, <2>1, <2>2, <2>3 DEF LoadAfterLength, ReaderInv, Intact
    <2>4. CASE rafter[r] # m.sequence
      BY <1>0, <1>6, <2>1, <2>4 DEF LoadAfterLength, ReaderInv
    <2> QED
      BY <2>3, <2>4
  <1>7. CASE EndCopy(r)
    BY <1>7 DEF EndCopy, ReaderInv
  <1> QED
    BY <1>1, <1>2, <1>3, <1>4, <1>5, <1>6, <1>7 DEF ReaderStep

LEMMA IndInvStep ==
  ASSUME TypeOK, IndInv, Ordered, [Next]_vars
  PROVE  IndInv'
  <1>1. CASE WriterStep
    <2>1. WriterInv'
      BY <1>1, WriterKeepsWriterInv
    <2>2. ASSUME NEW m \in published' PROVE FrameInv(m)' /\ RingInv(m)'
      <3>1. CASE m \in published
        BY <1>1, <3>1, WriterKeepsFrames
      <3>2. CASE m \notin published
        <4>1. Publish
          BY <1>1, <3>2 DEF WriterStep, BeginWrite, StoreOdd, StoreUnit, StoreLen,
                            StoreEven, PackClearsSequence, PackClearsSize,
                            PackStoresSequence, PackStoresSize, Crash
        <4> QED
          BY <3>2, <4>1, PublishAddsFrame
      <3> QED
        BY <3>1, <3>2
    <2>3. ASSUME NEW r \in Readers PROVE ReaderInv(r)'
      <3>1. UNCHANGED reader /\ published \subseteq published'
        BY <1>1 DEF WriterStep, BeginWrite, StoreOdd, StoreUnit, StoreLen,
                    StoreEven, PackClearsSequence, PackClearsSize,
                    PackStoresSequence, PackStoresSize, Publish, Crash, reader
      <3> QED
        BY <3>1, ReaderInvStable DEF reader
    <2> QED
      BY <2>1, <2>2, <2>3 DEF IndInv
  <1>2. ASSUME NEW r \in Readers, ReaderStep(r) PROVE IndInv'
    <2>1. UNCHANGED <<shm, writer, published>>
      BY <1>2 DEF ReaderStep, BeginCopy, LoadBeforeSequence, LoadBeforeLength,
                  LoadUnit, LoadAfterSequence, LoadAfterLength, EndCopy
    <2>2. WriterInv'
      BY <2>1 DEF IndInv, WriterInv, shm, writer
    <2>3. \A m \in published' : FrameInv(m)' /\ RingInv(m)'
      BY <2>1 DEF IndInv, FrameInv, RingInv, Retained, Lapped, shm, writer
    <2>4. ASSUME NEW q \in Readers PROVE ReaderInv(q)'
      <3>1. CASE q = r
        BY <1>2, <3>1, ReaderKeepsReaderInv
      <3>2. CASE q # r
        <4>1. /\ rpc'[q] = rpc[q] /\ rmeta'[q] = rmeta[q] /\ rseq'[q] = rseq[q]
              /\ rlen'[q] = rlen[q] /\ rafter'[q] = rafter[q]
              /\ rtodo'[q] = rtodo[q] /\ rbuf'[q] = rbuf[q]
          BY <1>2, <3>2 DEF TypeOK, ReaderStep, BeginCopy, LoadBeforeSequence,
               LoadBeforeLength, LoadUnit, LoadAfterSequence, LoadAfterLength, EndCopy
        <4> QED
          BY <2>1, <4>1, ReaderInvStable
      <3> QED
        BY <3>1, <3>2
    <2> QED
      BY <2>2, <2>3, <2>4 DEF IndInv
  <1>3. CASE UNCHANGED vars
    <2>1. WriterInv'
      BY <1>3 DEF IndInv, WriterInv, vars, shm, writer
    <2>2. \A m \in published' : FrameInv(m)' /\ RingInv(m)'
      BY <1>3 DEF IndInv, FrameInv, RingInv, Retained, Lapped, vars, shm, writer
    <2>3. \A r \in Readers : ReaderInv(r)'
      BY <1>3, ReaderInvStable DEF vars, reader
    <2> QED
      BY <2>1, <2>2, <2>3 DEF IndInv
  <1> QED
    BY <1>1, <1>2, <1>3 DEF Next

-----------------------------------------------------------------------------
(* Theorems of the ordered memory model                                     *)

\* The strengthening the safety theorems rest on: what the writer, the slots,
\* the published messages and each reader know of one another agrees.
THEOREM Inductive == ASSUME Ordered PROVE Spec => []IndInv
  <1>1. TypeOK /\ IndInv /\ [Next]_vars => IndInv'
    BY IndInvStep
  <1> QED
    BY <1>1, IndInvInit, TypeCorrect, PTL DEF Spec

\* copy_payload never returns a torn or a foreign payload.
THEOREM CopiesAreIntact == ASSUME Ordered PROVE Spec => []AcceptedCopyIsIntact
  <1>1. IndInv => AcceptedCopyIsIntact
    BY DEF IndInv, ReaderInv, AcceptedCopyIsIntact
  <1> QED
    BY <1>1, Inductive, PTL

\* write() leaves the other frames of the ring alone: a published frame is
\* whole until the write SlotCount later marks its slot.
THEOREM FramesAreRetained == ASSUME Ordered PROVE Spec => []FramesRetainedUntilLapped
  <1>1. IndInv => FramesRetainedUntilLapped
    BY DEF IndInv, FrameInv, FramesRetainedUntilLapped
  <1> QED
    BY <1>1, Inductive, PTL

\* copy_payload refuses only frames the writer has begun to overwrite.
THEOREM RejectionMeansLapped == ASSUME Ordered PROVE Spec => []RejectedOnlyWhenLapped
  <1>1. IndInv => RejectedOnlyWhenLapped
    <2> SUFFICES ASSUME IndInv, NEW r \in Readers, rpc[r] = "rejected"
                 PROVE  Lapped(rmeta[r])
      BY DEF RejectedOnlyWhenLapped
    <2>1. rmeta[r] \in published /\ slotSeq[rmeta[r].slot] # rmeta[r].sequence
      BY DEF IndInv, ReaderInv
    <2> QED
      BY <2>1 DEF IndInv, FrameInv
  <1> QED
    BY <1>1, Inductive, PTL

\* No slot shows the number of a published frame twice.
THEOREM NumbersAreNotReused == ASSUME Ordered PROVE Spec => SequenceNeverReturns
  <1>1. TypeOK /\ IndInv /\ [Next]_vars =>
          [\A m \in published :
             slotSeq[m.slot] # m.sequence => slotSeq'[m.slot] # m.sequence]_vars
    BY NoReturn
  <1> QED
    BY <1>1, Inductive, TypeCorrect, PTL DEF Spec, SequenceNeverReturns

-----------------------------------------------------------------------------
(* The history of the ring                                                  *)

LEMMA HistoryInit == Init => HistoryInv
  <1> SUFFICES ASSUME Init PROVE HistoryInv
    OBVIOUS
  <1>1. IsFiniteSet(published)
    BY FS_EmptySet DEF Init
  <1>2. nextSlot = (nextSeq \div 2 - 1) % SlotCount
    BY SlotCountAssumption DEF Init
  <1>3. \A q \in 1..(MaxSequence \div 2) : ~(2 * q < nextSeq)
    BY MaxSequenceAssumption DEF Init
  <1> QED
    BY <1>1, <1>2, <1>3 DEF Init, HistoryInv

\* The message of a write joins the history in its turn.
LEMMA PublishKeepsHistory ==
  ASSUME TypeOK, IndInv, HistoryInv, Publish
  PROVE  HistoryInv'
  <1> DEFINE m == [slot |-> nextSlot, sequence |-> nextSeq, size |-> wlen]
             n == nextSeq \div 2
  <1>1. /\ published' = published \cup {m}
        /\ nextSlot' = FollowingSlot(nextSlot) /\ nextSeq' = nextSeq + 2
        /\ wpc = "written" /\ wpc' = "idle"
    BY DEF Publish, FollowingSequence
  <1>2. n \in Nat \ {0} /\ nextSeq = 2 * n /\ nextSeq \in Nat
    BY DEF TypeOK, IndInv, WriterInv
  <1>3. /\ wlen \in Sizes /\ n \in 1..(MaxSequence \div 2)
        /\ nextSlot = (n - 1) % SlotCount
    BY <1>1, <1>2, MaxSequenceAssumption DEF HistoryInv
  <1>4. m \in Frames
    BY <1>2, <1>3 DEF Frames
  <1>5. \A k \in published : k.sequence # nextSeq
    BY <1>2 DEF IndInv, FrameInv, TypeOK, Metadata
  <1>6. IsFiniteSet(published')
    BY <1>1, FS_AddElement DEF HistoryInv
  <1>7. published' \subseteq Frames
    BY <1>1, <1>4 DEF HistoryInv
  <1>8. \A k, l \in published' : k.sequence = l.sequence => k = l
    BY <1>1, <1>5 DEF HistoryInv
  <1>9. ASSUME NEW q \in 1..(MaxSequence \div 2), 2 * q < nextSeq'
        PROVE  \E k \in published' : k.sequence = 2 * q
    <2>1. CASE 2 * q < nextSeq
      BY <1>1, <1>9, <2>1 DEF HistoryInv
    <2>2. CASE q = n
      <3>1. m \in published' /\ m.sequence = 2 * q
        BY <1>1, <1>2, <2>2
      <3> QED
        BY <3>1
    <2>3. 2 * q < nextSeq \/ q = n
      BY <1>1, <1>2, <1>9, MaxSequenceAssumption
    <2> QED
      BY <2>1, <2>2, <2>3
  <1>10. nextSlot' = (nextSeq' \div 2 - 1) % SlotCount
    <2>1. nextSeq' \div 2 - 1 = (n - 1) + 1 /\ n - 1 \in Nat
      BY <1>1, <1>2
    <2>2. nextSlot' = (((n - 1) % SlotCount) + 1) % SlotCount
      BY <1>1, <1>3 DEF FollowingSlot
    <2> HIDE DEF n
    <2> QED
      BY <2>1, <2>2, NextRemainder, SlotCountAssumption
  <1> QED
    BY <1>1, <1>6, <1>7, <1>8, <1>9, <1>10 DEF HistoryInv

LEMMA HistoryStep ==
  ASSUME TypeOK, IndInv, HistoryInv, [Next]_vars
  PROVE  HistoryInv'
  <1>1. CASE Publish
    BY <1>1, PublishKeepsHistory
  <1>2. CASE BeginWrite
    BY <1>2 DEF BeginWrite, HistoryInv
  <1>3. ASSUME UNCHANGED <<published, nextSlot, nextSeq, wlen>>,
               wpc' \notin {"idle", "crashed"} => wpc \notin {"idle", "crashed"}
        PROVE  HistoryInv'
    BY <1>3 DEF HistoryInv
  <1>4. ASSUME WriterStep, ~Publish, ~BeginWrite PROVE HistoryInv'
    <2>1. UNCHANGED <<published, nextSlot, nextSeq, wlen>>
      BY <1>4 DEF WriterStep, StoreOdd, StoreUnit, StoreLen, StoreEven,
                  PackClearsSequence, PackClearsSize, PackStoresSequence,
                  PackStoresSize, Crash, reader
    <2>2. wpc' \notin {"idle", "crashed"} => wpc \notin {"idle", "crashed"}
      BY <1>4 DEF WriterStep, StoreOdd, StoreUnit, StoreLen, StoreEven,
                  PackClearsSequence, PackClearsSize, PackStoresSequence,
                  PackStoresSize, Crash, IndInv, WriterInv
    <2> QED
      BY <1>3, <2>1, <2>2
  <1>5. ASSUME NEW r \in Readers, ReaderStep(r) PROVE HistoryInv'
    <2>1. UNCHANGED <<writer, published>>
      BY <1>5 DEF ReaderStep, BeginCopy, LoadBeforeSequence, LoadBeforeLength,
                  LoadUnit, LoadAfterSequence, LoadAfterLength, EndCopy
    <2> QED
      BY <1>3, <2>1 DEF writer
  <1>6. CASE UNCHANGED vars
    BY <1>3, <1>6 DEF vars, writer
  <1> QED
    BY <1>1, <1>2, <1>4, <1>5, <1>6 DEF Next

\* Every number below the next one was published once, in the slot of its turn,
\* with a size the publisher writes.
THEOREM HistoryIsComplete == ASSUME Ordered PROVE Spec => []HistoryInv
  <1>1. TypeOK /\ IndInv /\ HistoryInv /\ [Next]_vars => HistoryInv'
    BY HistoryStep
  <1> QED
    BY <1>1, HistoryInit, Inductive, TypeCorrect, PTL DEF Spec

-----------------------------------------------------------------------------
(* Steps of the publisher                                                   *)

\* A subscriber's call of the store changes only with its copy.
LEMMA CallsUnchanged ==
  ASSUME UNCHANGED reader
  PROVE  UNCHANGED <<Calls, FramesServed, BytesReturned>>
  BY DEF reader, Calls, FramesServed, BytesReturned, CallState, Copied

\* The frame whose slot is reused is SlotCount - 1 frames behind.
LEMMA EnoughNewerFrames ==
  ASSUME TypeOK, IndInv, HistoryInv, wpc \notin {"idle", "crashed"},
         NEW m \in published, m.slot = nextSlot
  PROVE  Cardinality({k \in published : k.sequence > m.sequence}) >= SlotCount - 1
  <1> DEFINE newer == {k \in published : k.sequence > m.sequence}
             turns == 1..(SlotCount - 1)
             f == [i \in turns |-> CHOOSE k \in published : k.sequence = m.sequence + 2 * i]
  <1>1. /\ FrameInv(m) /\ RingInv(m) /\ nextSeq % 2 = 0
        /\ nextSeq \in Nat /\ m.sequence \in Nat /\ SlotCount \in Nat \ {0}
    BY SlotCountAssumption DEF IndInv, WriterInv, TypeOK, Metadata
  <1>2. nextSeq >= m.sequence + 2 * SlotCount
    BY <1>1, SlotBelongsToLappedFrame
  <1>3. ASSUME NEW i \in turns
        PROVE  f[i] \in published /\ f[i].sequence = m.sequence + 2 * i
    <2>1. \E q \in 1..(MaxSequence \div 2) : 2 * q = m.sequence + 2 * i
      <3>1. m.sequence >= 2 /\ m.sequence % 2 = 0 /\ nextSeq <= MaxSequence
        BY <1>1 DEF FrameInv, HistoryInv
      <3>2. m.sequence + 2 * i < nextSeq /\ i \in Nat
        BY <1>1, <1>2, <1>3
      <3>3. /\ m.sequence \div 2 + i \in 1..(MaxSequence \div 2)
            /\ 2 * (m.sequence \div 2 + i) = m.sequence + 2 * i
        BY <1>1, <3>1, <3>2, MaxSequenceAssumption
      <3> QED
        BY <3>3
    <2>2. m.sequence + 2 * i < nextSeq
      BY <1>1, <1>2, <1>3
    <2>3. \E k \in published : k.sequence = m.sequence + 2 * i
      BY <2>1, <2>2 DEF HistoryInv
    <2> QED
      BY <1>3, <2>3
  <1>4. f \in Injection(turns, newer)
    <2>1. \A i \in turns : f[i] \in newer
      BY <1>1, <1>3
    <2>2. \A i, j \in turns : f[i] = f[j] => i = j
      BY <1>1, <1>3
    <2>3. f \in [turns -> newer]
      BY <2>1
    <2> HIDE DEF f
    <2> QED
      BY <2>2, <2>3 DEF Injection, IsInjective
  <1>5. IsFiniteSet(newer)
    BY FS_Subset DEF HistoryInv
  <1>6. Cardinality(turns) <= Cardinality(newer)
    BY <1>4, <1>5, FS_Injection
  <1>7. Cardinality(turns) = SlotCount - 1
    BY <1>1, FS_Interval
  <1>8. Cardinality(newer) \in Nat
    BY <1>5, FS_CardinalityType
  <1> QED
    BY <1>1, <1>6, <1>7, <1>8

\* The store counts as the standard module does.
LEMMA SameCardinality == \A S : Store!Cardinality(S) = Cardinality(S)
  BY DEF Store!Cardinality, Cardinality

\* Overwriting the number of the slot under the cursor takes the frame that is
\* there, if any, from the store.
LEMMA MarkingRetires ==
  ASSUME TypeOK, IndInv, HistoryInv, wpc \notin {"idle", "crashed"},
         NEW q \in Nat, \A m \in published : m.sequence # q,
         slotSeq' = [slotSeq EXCEPT ![nextSlot] = q], UNCHANGED <<published, reader>>
  PROVE  [Store!Next]_(Store!vars)
  <1> DEFINE gone == {m \in LiveFrames : m.slot = nextSlot}
  <1>1. UNCHANGED <<Calls, FramesServed, BytesReturned>>
    BY CallsUnchanged
  <1>2. LiveFrames' = LiveFrames \ gone
    BY DEF LiveFrames, TypeOK, Metadata
  <1>3. CASE gone = {}
    BY <1>1, <1>2, <1>3 DEF Store!vars
  <1>4. ASSUME NEW m \in gone PROVE Store!Next
    <2>1. m \in published /\ m \in LiveFrames /\ m.slot = nextSlot
      BY <1>4 DEF LiveFrames
    <2>2. gone = {m}
      BY <1>4 DEF LiveFrames, HistoryInv
    <2>3. Store!Retire(m)
      BY <1>1, <1>2, <2>1, <2>2, EnoughNewerFrames, SameCardinality DEF Store!Retire, Store!reader
    <2> QED
      BY <2>1, <2>3 DEF Store!Next, HistoryInv
  <1> QED
    BY <1>3, <1>4

LEMMA PublishMapsToPublish ==
  ASSUME TypeOK, IndInv, HistoryInv, Publish
  PROVE  Store!Next
  <1> DEFINE m == [slot |-> nextSlot, sequence |-> nextSeq, size |-> wlen]
  <1>1. published' = published \cup {m} /\ UNCHANGED <<slotSeq, reader>>
    BY DEF Publish, shm
  <1>2. HistoryInv'
    BY PublishKeepsHistory
  <1>3. m \in Frames
    BY <1>1, <1>2 DEF HistoryInv
  <1>4. \A k \in published : k.sequence < m.sequence
    BY DEF IndInv, FrameInv
  <1>5. slotSeq[nextSlot] = nextSeq
    BY DEF IndInv, WriterInv, Publish
  <1>6. LiveFrames' = LiveFrames \cup {m}
    BY <1>1, <1>5 DEF LiveFrames
  <1>7. Store!Publish(m)
    BY <1>1, <1>4, <1>6, CallsUnchanged DEF Store!Publish, Store!reader
  <1> QED
    BY <1>3, <1>7 DEF Store!Next

LEMMA WriterStepMaps ==
  ASSUME TypeOK, IndInv, HistoryInv, Ordered, WriterStep
  PROVE  [Store!Next]_(Store!vars)
  <1>1. ASSUME UNCHANGED <<slotSeq, published, reader>>
        PROVE  UNCHANGED Store!vars
    BY <1>1, CallsUnchanged DEF Store!vars, LiveFrames
  <1>2. \A m \in published : /\ m.sequence \in Nat /\ m.sequence < nextSeq
                             /\ m.sequence >= 2 /\ m.sequence % 2 = 0
    BY DEF IndInv, FrameInv, TypeOK, Metadata
  <1>3. nextSeq \in Nat /\ nextSeq + 1 \in Nat
    BY DEF TypeOK
  <1>4. CASE StoreOdd
    <2>1. \A m \in published : m.sequence # nextSeq + 1
      BY <1>2, <1>3
    <2> QED
      BY <1>3, <1>4, <2>1, MarkingRetires DEF StoreOdd, OddSequence
  <1>5. CASE StoreEven
    <2>1. \A m \in published : m.sequence # nextSeq
      BY <1>2, <1>3
    <2> QED
      BY <1>3, <1>5, <2>1, MarkingRetires DEF StoreEven
  <1>6. CASE PackClearsSequence
    <2>1. \A m \in published : m.sequence # 0
      BY <1>2
    <2> QED
      BY <1>6, <2>1, MarkingRetires DEF PackClearsSequence
  <1>7. CASE PackStoresSequence
    <2>1. /\ PackedSequence \in Nat
          /\ \A m \in published : m.sequence # PackedSequence
      BY <1>2, <1>3 DEF PackedSequence, OddSequence
    <2>2. wpc \notin {"idle", "crashed"}
      BY <1>7 DEF PackStoresSequence, IndInv, WriterInv
    <2> QED
      BY <1>7, <2>1, <2>2, MarkingRetires DEF PackStoresSequence
  <1>8. CASE Publish
    BY <1>8, PublishMapsToPublish
  <1> QED
    BY <1>1, <1>4, <1>5, <1>6, <1>7, <1>8
    DEF WriterStep, BeginWrite, StoreUnit, StoreLen, PackClearsSize, PackStoresSize,
        Crash, shm

-----------------------------------------------------------------------------
(* Steps of a reader                                                        *)

\* A step of one reader is a step of the store if it is one for that reader.
LEMMA OneReader ==
  ASSUME TypeOK, NEW r \in Readers, ReaderStep(r)
  PROVE  /\ UNCHANGED <<published, LiveFrames>>
         /\ \A q \in Readers \ {r} : /\ CallState(q)' = CallState(q)
                                     /\ FramesServed'[q] = FramesServed[q]
                                     /\ Copied(q)' = Copied(q)
         /\ Calls' = [Calls EXCEPT ![r] = CallState(r)']
         /\ FramesServed' = [FramesServed EXCEPT ![r] = FramesServed'[r]]
         /\ BytesReturned' = [BytesReturned EXCEPT ![r] = Copied(r)']
  <1>1. UNCHANGED <<shm, published>>
    BY DEF ReaderStep, BeginCopy, LoadBeforeSequence, LoadBeforeLength, LoadUnit,
           LoadAfterSequence, LoadAfterLength, EndCopy
  <1>2. ASSUME NEW q \in Readers \ {r}
        PROVE  /\ rpc'[q] = rpc[q] /\ rmeta'[q] = rmeta[q] /\ rseq'[q] = rseq[q]
               /\ rtodo'[q] = rtodo[q] /\ rbuf'[q] = rbuf[q]
    BY DEF TypeOK, ReaderStep, BeginCopy, LoadBeforeSequence, LoadBeforeLength,
           LoadUnit, LoadAfterSequence, LoadAfterLength, EndCopy
  <1>3. UNCHANGED <<published, LiveFrames>>
    BY <1>1 DEF shm, LiveFrames
  <1>4. ASSUME NEW q \in Readers \ {r}
        PROVE  /\ CallState(q)' = CallState(q)
               /\ FramesServed'[q] = FramesServed[q]
               /\ Copied(q)' = Copied(q)
    BY <1>2 DEF CallState, FramesServed, Copied
  <1>5. Calls' = [Calls EXCEPT ![r] = CallState(r)']
    BY <1>4 DEF Calls
  <1>6. FramesServed' = [FramesServed EXCEPT ![r] = FramesServed'[r]]
    BY <1>4 DEF FramesServed
  <1>7. BytesReturned' = [BytesReturned EXCEPT ![r] = Copied(r)']
    BY <1>4 DEF BytesReturned
  <1> QED
    BY <1>3, <1>4, <1>5, <1>6, <1>7

LEMMA SameView ==
  ASSUME TypeOK, NEW r \in Readers, ReaderStep(r),
         CallState(r)' = CallState(r), Copied(r)' = Copied(r),
         rpc[r] # "idle", rpc'[r] # "idle", rmeta'[r] = rmeta[r]
  PROVE  UNCHANGED Store!vars
  <1>1. UNCHANGED Calls
    BY OneReader DEF Calls
  <1>2. UNCHANGED FramesServed
    BY OneReader DEF FramesServed
  <1>3. UNCHANGED BytesReturned
    BY OneReader DEF BytesReturned
  <1> QED
    BY <1>1, <1>2, <1>3, OneReader DEF Store!vars

\* A copy that stores nothing for its callback and ends refused.
LEMMA RefusalMaps ==
  ASSUME TypeOK, IndInv', NEW r \in Readers, ReaderStep(r),
         rpc[r] \in {"length", "copy", "after"},
         rpc'[r] = "rejected", rmeta'[r] = rmeta[r]
  PROVE  Store!Refuse(r)
  <1>1. CallState(r) \in {"holding", "missed"} /\ CallState(r)' = "refused"
    BY DEF CallState
  <1>2. Copied(r) = {} /\ Copied(r)' = {}
    BY DEF Copied
  <1>3. slotSeq'[rmeta[r].slot] # rmeta[r].sequence
    BY DEF IndInv, ReaderInv
  <1>4. rmeta[r] \notin LiveFrames
    BY <1>3, OneReader DEF LiveFrames
  <1>5. FramesServed[r] \cap LiveFrames = {}
    BY <1>4 DEF FramesServed
  <1>6. UNCHANGED FramesServed
    BY OneReader DEF FramesServed
  <1>7. UNCHANGED BytesReturned
    BY <1>2, OneReader DEF BytesReturned
  <1>8. Calls[r] \in {"holding", "missed"} /\ Calls' = [Calls EXCEPT ![r] = "refused"]
    BY <1>1, OneReader DEF Calls
  <1> QED
    BY <1>5, <1>6, <1>7, <1>8, OneReader DEF Store!Refuse

\* A copy takes effect when it loads the number of its slot.
LEMMA LoadMapsToFetch ==
  ASSUME TypeOK, IndInv, NEW r \in Readers, LoadBeforeSequence(r)
  PROVE  Store!Fetch(r)
  <1>1. /\ ReaderStep(r) /\ rpc[r] = "sequence" /\ rpc'[r] = "length"
        /\ rmeta'[r] = rmeta[r] /\ rseq'[r] = slotSeq[rmeta[r].slot]
    BY DEF ReaderStep, LoadBeforeSequence, TypeOK
  <1>2. rmeta[r] \in published
    BY <1>1 DEF IndInv, ReaderInv
  <1>3. FramesServed[r] \subseteq LiveFrames <=> rseq'[r] = rmeta[r].sequence
    BY <1>1, <1>2 DEF FramesServed, LiveFrames
  <1>4. /\ CallState(r) = "called"
        /\ CallState(r)' = (IF rseq'[r] = rmeta[r].sequence THEN "holding" ELSE "missed")
    BY <1>1 DEF CallState
  <1>5. /\ Calls[r] = "called"
        /\ Calls' = [Calls EXCEPT ![r] = IF FramesServed[r] \subseteq LiveFrames
                                         THEN "holding" ELSE "missed"]
    BY <1>1, <1>3, <1>4, OneReader DEF Calls
  <1>6. UNCHANGED FramesServed
    BY <1>1, OneReader DEF FramesServed
  <1>7. UNCHANGED BytesReturned
    BY <1>1, OneReader DEF BytesReturned, Copied
  <1> QED
    BY <1>1, <1>5, <1>6, <1>7, OneReader DEF Store!Fetch

\* The two checks after the copy return it or give it up.
LEMMA ChecksMapToReturn ==
  ASSUME TypeOK, IndInv, IndInv', NEW r \in Readers, LoadAfterLength(r)
  PROVE  Store!Return(r) \/ Store!Refuse(r)
  <1>1. /\ ReaderStep(r) /\ rpc[r] = "after" /\ rpc'[r] \in {"rejected", "accepted"}
        /\ UNCHANGED <<rmeta, rtodo, rseq, rbuf>>
    BY DEF ReaderStep, LoadAfterLength, TypeOK
  <1>2. CASE rpc'[r] = "rejected"
    BY <1>1, <1>2, RefusalMaps
  <1>3. CASE rpc'[r] = "accepted"
    <2>1. rtodo[r] = {} /\ rseq[r] = rmeta[r].sequence /\ Intact(r)'
      BY <1>1, <1>3 DEF IndInv, ReaderInv
    <2>2. CallState(r) = "holding" /\ CallState(r)' = "returned"
      BY <1>1, <1>3, <2>1 DEF CallState
    <2>3. Copied(r)' = {FramePayload(rmeta[r])}
      BY <1>1, <1>3, <2>1 DEF Copied, FramePayload, Intact
    <2>4. FramesServed[r] = {rmeta[r]} /\ UNCHANGED FramesServed
      BY <1>1, <1>3, OneReader DEF FramesServed
    <2>5. Calls[r] = "holding" /\ Calls' = [Calls EXCEPT ![r] = "returned"]
      BY <1>1, <2>2, OneReader DEF Calls
    <2>6. Copied(r)' = {FramePayload(m) : m \in FramesServed[r]}
      BY <2>3, <2>4
    <2>7. BytesReturned' =
            [BytesReturned EXCEPT ![r] = {FramePayload(m) : m \in FramesServed[r]}]
      BY <1>1, <2>6, OneReader
    <2> QED
      BY <1>1, <2>4, <2>5, <2>7, OneReader DEF Store!Return
  <1> QED
    BY <1>1, <1>2, <1>3

LEMMA BeginCopyMapsToCall ==
  ASSUME TypeOK, HistoryInv, NEW r \in Readers, BeginCopy(r)
  PROVE  Store!Next
  <1>1. PICK m \in published : rmeta' = [rmeta EXCEPT ![r] = m]
    BY DEF BeginCopy
  <1>2. /\ ReaderStep(r) /\ rpc[r] = "idle" /\ rpc'[r] = "sequence" /\ rmeta'[r] = m
    BY <1>1 DEF ReaderStep, BeginCopy, TypeOK
  <1>3. CallState(r) = "idle" /\ CallState(r)' = "called" /\ Copied(r) = {} /\ Copied(r)' = {}
    BY <1>2 DEF CallState, Copied
  <1>4. Calls[r] = "idle" /\ Calls' = [Calls EXCEPT ![r] = "called"]
    BY <1>2, <1>3, OneReader DEF Calls
  <1>5. FramesServed' = [FramesServed EXCEPT ![r] = {m}]
    BY <1>2, OneReader DEF FramesServed
  <1>6. UNCHANGED BytesReturned
    BY <1>2, <1>3, OneReader DEF BytesReturned
  <1>7. Store!Call(r, m)
    BY <1>2, <1>4, <1>5, <1>6, OneReader DEF Store!Call
  <1> QED
    BY <1>7 DEF Store!Next, HistoryInv

LEMMA EndCopyMapsToDone ==
  ASSUME TypeOK, NEW r \in Readers, EndCopy(r)
  PROVE  Store!Done(r)
  <1>1. /\ ReaderStep(r) /\ rpc'[r] = "idle"
        /\ rpc[r] = "rejected" \/ (rpc[r] = "accepted" /\ rtodo[r] = {})
    BY DEF ReaderStep, EndCopy, TypeOK
  <1>2. CallState(r) \in {"returned", "refused"} /\ CallState(r)' = "idle" /\ Copied(r)' = {}
    BY <1>1 DEF CallState, Copied
  <1>3. Calls[r] \in {"returned", "refused"} /\ Calls' = [Calls EXCEPT ![r] = "idle"]
    BY <1>1, <1>2, OneReader DEF Calls
  <1>4. FramesServed' = [FramesServed EXCEPT ![r] = {}]
    BY <1>1, OneReader DEF FramesServed
  <1>5. BytesReturned' = [BytesReturned EXCEPT ![r] = {}]
    BY <1>1, <1>2, OneReader
  <1> QED
    BY <1>1, <1>3, <1>4, <1>5, OneReader DEF Store!Done

LEMMA ReaderStepMaps ==
  ASSUME TypeOK, IndInv, IndInv', HistoryInv, NEW r \in Readers, ReaderStep(r)
  PROVE  [Store!Next]_(Store!vars)
  <1>0. ASSUME UNCHANGED <<rmeta, rseq>>,
               rpc[r] \in {"length", "copy"}, rpc'[r] \in {"copy", "after"}
        PROVE  UNCHANGED Store!vars
    <2>1. CallState(r)' = CallState(r)
      BY <1>0 DEF CallState
    <2>2. Copied(r)' = Copied(r)
      BY <1>0 DEF Copied
    <2> QED
      BY <1>0, <2>1, <2>2, SameView
  <1>1. CASE BeginCopy(r)
    BY <1>1, BeginCopyMapsToCall
  <1>2. CASE LoadBeforeSequence(r)
    BY <1>2, LoadMapsToFetch DEF Store!Next
  <1>3. CASE LoadBeforeLength(r)
    <2>1. rpc[r] = "length" /\ rpc'[r] \in {"rejected", "copy"} /\ UNCHANGED <<rmeta, rseq>>
      BY <1>3 DEF LoadBeforeLength, TypeOK
    <2>2. CASE rpc'[r] = "rejected"
      BY <2>1, <2>2, RefusalMaps DEF Store!Next
    <2> QED
      BY <1>0, <2>1, <2>2
  <1>4. ASSUME NEW u \in Units, LoadUnit(r, u) PROVE UNCHANGED Store!vars
    <2>1. rpc[r] = "copy" /\ rpc'[r] = "copy" /\ UNCHANGED <<rmeta, rseq>>
      BY <1>4 DEF LoadUnit, IndInv, ReaderInv
    <2> QED
      BY <1>0, <2>1
  <1>5. CASE LoadAfterSequence(r)
    <2>1. rpc[r] = "copy" /\ rpc'[r] = "after" /\ UNCHANGED <<rmeta, rseq>>
      BY <1>5 DEF LoadAfterSequence, TypeOK
    <2> QED
      BY <1>0, <2>1
  <1>6. CASE LoadAfterLength(r)
    BY <1>6, ChecksMapToReturn DEF Store!Next
  <1>7. CASE EndCopy(r)
    BY <1>7, EndCopyMapsToDone DEF Store!Next
  <1> QED
    BY <1>1, <1>2, <1>3, <1>4, <1>5, <1>6, <1>7 DEF ReaderStep

-----------------------------------------------------------------------------

\* With the ordered memory model, write() and copy_payload are, for every
\* subscriber, a store of whole frames: a copy takes effect in one step, returns
\* the payload its metadata describes or is refused because that frame left the
\* ring, and the ring keeps SlotCount - 1 frames.
THEOREM FrameStoreIsImplemented == ASSUME Ordered PROVE Spec => ImplementsFrameStore
  <1>1. Init => Store!Init
    <2> SUFFICES ASSUME Init PROVE Store!Init
      OBVIOUS
    <2>1. published = {} /\ LiveFrames = {}
      BY DEF Init, LiveFrames
    <2>2. Calls = [r \in Readers |-> "idle"]
      BY DEF Init, Calls, CallState
    <2>3. FramesServed = [r \in Readers |-> {}]
      BY DEF Init, FramesServed
    <2>4. BytesReturned = [r \in Readers |-> {}]
      BY DEF Init, BytesReturned, Copied
    <2> QED
      BY <2>1, <2>2, <2>3, <2>4 DEF Store!Init
  <1>2. TypeOK /\ IndInv /\ IndInv' /\ HistoryInv /\ [Next]_vars =>
          [Store!Next]_(Store!vars)
    <2> SUFFICES ASSUME TypeOK, IndInv, IndInv', HistoryInv, [Next]_vars
                 PROVE  [Store!Next]_(Store!vars)
      OBVIOUS
    <2>1. CASE WriterStep
      BY <2>1, WriterStepMaps
    <2>2. ASSUME NEW r \in Readers, ReaderStep(r) PROVE [Store!Next]_(Store!vars)
      BY <2>2, ReaderStepMaps
    <2>3. CASE UNCHANGED vars
      BY <2>3, CallsUnchanged DEF vars, shm, reader, Store!vars, LiveFrames
    <2> QED
      BY <2>1, <2>2, <2>3 DEF Next
  <1> QED
    BY <1>1, <1>2, HistoryIsComplete, Inductive, TypeCorrect, PTL
    DEF Spec, ImplementsFrameStore, Store!Spec
===============================================================================
