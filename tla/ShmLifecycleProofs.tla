--------------------------- MODULE ShmLifecycleProofs ---------------------------
(***************************************************************************)
(* Theorems about the life of shared-memory objects, for any number of     *)
(* publishers, readers, names, slots and objects, any payload sizes and    *)
(* any of the faults.                                                      *)
(***************************************************************************)
EXTENDS ShmLifecycle, TLAPS

--------------------------------------------------------------------------------
(* The inductive invariant                                                  *)

\* The steps of ShmRingBuffer::create, and those that hold its descriptor.
Creating == {"unlink", "open", "truncate", "map", "describe"}
Holding == {"truncate", "map", "describe"}

\* How far the object of a descriptor has come at each of them.
PhaseAt == [truncate |-> "empty", map |-> "zeroed", describe |-> "identified"]

Labels == {"idle", "unlink", "open", "truncate", "map", "describe", "write", "send", "gone"}
Errors == {"None", "Oversized", "CreateFailed", "WriteFailed"}

SlotRecords == [sequence : 0..(MaxSequence + 1), size : Nat]
ObjectRecords == [phase : Phases, slotSize : Nat, slot : [Slots -> SlotRecords], data : Seq(Nat)]
RingRecords ==
  [pc : Labels, named : BOOLEAN, ring : Nat, fd : Nat, slotSize : Nat, nextSlot : Slots,
   nextSeq : Nat, size : Nat, error : Errors]
MessageRecords ==
  [name : Names, object : Nat, slot : Slots, sequence : Nat, offset : Nat, size : Nat]
HandleRecords == [name : Names \cup {""}, object : Nat, slotCount : Nat, slotSize : Nat]
DeliveryRecords == [of : MessageRecords, bytes : SUBSET (Nat \X Nat)]

Shapes ==
  /\ config \in Configurations
  /\ object \in Seq(ObjectRecords) /\ Len(object) <= MaxObjects
  /\ link \in [Names -> 0..Len(object)]
  /\ pub \in [Publishers -> RingRecords]
  /\ subscribed \subseteq Readers
  /\ inbox \in [Readers -> SUBSET MessageRecords]
  /\ serving \in [Readers -> SUBSET MessageRecords]
  /\ handle \in [Readers -> HandleRecords]
  /\ got \in [Readers -> SUBSET DeliveryRecords]
  /\ latest \in SUBSET MessageRecords

\* The numbers that write() gives to frames; a torn slot has another.
IsFrame(n) == n >= 2 /\ n % 2 = 0

\* The units of a slot.
UnitsOf(s, slotSize, size) == (s * slotSize + 1)..(s * slotSize + size)

\* A slot that carries the number of a frame holds that frame.
SlotHolds(x, s) ==
  IsFrame(x.slot[s].sequence) =>
    /\ x.slot[s].size <= x.slotSize
    /\ \A u \in UnitsOf(s, x.slotSize, x.slot[s].size) : x.data[u] = x.slot[s].sequence

ObjectOK(x) ==
  /\ Len(x.data) = SlotCount * x.slotSize
  /\ x.phase = "empty" => \A s \in Slots : x.slot[s].sequence = 0
  /\ SlotSizeBytes # 0 /\ x.phase # "empty" => x.slotSize = SlotSizeBytes
  /\ \A s \in Slots : SlotHolds(x, s)

\* An object that has its size; its header is complete unless memory may run out in
\* a Python publisher, which opens the slots one by one.
Usable(o) ==
  /\ o \in 1..Len(object)
  /\ object[o].phase # "empty"
  /\ "memory_error" \notin Faults => object[o].phase = "ready"

RingOK(x) ==
  /\ x.ring <= Len(object) /\ x.fd <= Len(object)
  /\ x.error # "WriteFailed"
  /\ IsFrame(x.nextSeq)
  /\ x.pc \in Creating =>
       /\ x.ring = 0 /\ x.size <= x.slotSize /\ x.size \in Sizes /\ x.nextSeq <= MaxSequence
       /\ SlotSizeBytes # 0 => x.slotSize = SlotSizeBytes
  /\ x.pc \in Holding => x.fd # 0 /\ object[x.fd].phase = PhaseAt[x.pc]
  /\ x.pc \in {"map", "describe"} => object[x.fd].slotSize = x.slotSize
  /\ x.pc \in {"write", "send"} =>
       x.ring # 0 /\ x.size <= x.slotSize /\ x.size \in Sizes /\ x.nextSeq <= MaxSequence
  /\ x.ring # 0 => Usable(x.ring) /\ object[x.ring].slotSize = x.slotSize
PublisherOK(p) == RingOK(pub[p])

\* No two publishers create the same object.
ObjectsApart ==
  \A p, q \in Publishers :
    p # q /\ pub[p].pc \in Holding /\ pub[q].pc \in Holding => pub[p].fd # pub[q].fd

MessageOK(m) ==
  /\ Usable(m.object)
  /\ m.offset = m.slot * object[m.object].slotSize
  /\ IsFrame(m.sequence) /\ m.size \in Sizes

\* A delivery is of one frame: the selected one, if it was read in the object the
\* message means, and one with its number in any case if all slots are alike.
DeliveryOK(g) ==
  /\ \A b \in g.bytes : b[1] = g.of.object => b[2] = g.of.sequence
  /\ SlotSizeBytes # 0 =>
       \E o \in 1..Len(object) : g.bytes \subseteq {<<o, g.of.sequence>>}

LifecycleInv ==
  /\ Shapes
  /\ \A o \in 1..Len(object) : ObjectOK(object[o])
  /\ \A p \in Publishers : PublisherOK(p)
  /\ ObjectsApart
  /\ \A r \in Readers : /\ \A m \in inbox[r] \cup serving[r] : MessageOK(m)
                        /\ handle[r].object <= Len(object)
                        /\ \A g \in got[r] : MessageOK(g.of) /\ DeliveryOK(g)
  /\ \A m \in latest : MessageOK(m)

\* Every publisher has a name of its own.  The name is the shm_name option or comes
\* from the topic, so this is so of publishers on different topics that were given
\* no common name.  Publishers that share a name unlink each other's object.
NamesAreOwn == \A p, q \in Publishers : NameOf[p] = NameOf[q] => p = q

\* What the name of a publisher is linked to while its ring is made, open or gone.
LinkRight(x, linked) ==
  /\ x.ring # 0 => linked = x.ring
  /\ x.pc \in Holding => linked = x.fd
  /\ x.pc \in Creating => x.named
  /\ x.pc = "gone" => ~x.named
  /\ "crash" \notin Faults /\ ~x.named => linked = 0
LinkOK(p) == LinkRight(pub[p], link[NameOf[p]])
LinkInv == \A p \in Publishers : LinkOK(p)

--------------------------------------------------------------------------------
(* What the steps have in common                                            *)

LEMMA ConfigTypes ==
  ASSUME Shapes
  PROVE  /\ SlotSizeBytes \in Nat /\ MaxObjects \in Nat
         /\ \A size \in Sizes : size \in Nat
         /\ SlotCount \in Nat \ {0} /\ 0 \in Slots
         /\ MaxSequence \in Nat /\ MaxSequence >= 2
  <1>1. config \in ConfigurationKinds
    BY LifecycleAssumption DEF Shapes
  <1>2. config.slotSizeBytes \in Nat /\ config.sizes \in SUBSET Nat /\ config.objects \in Nat
    BY <1>1 DEF ConfigurationKinds
  <1>3. SlotCount \in Nat \ {0} /\ MaxSequence \in Nat /\ MaxSequence >= 2
    BY LifecycleAssumption
  <1>4. 0 \in Slots
    BY <1>3 DEF Slots
  <1> QED
    BY <1>2, <1>3, <1>4 DEF SlotSizeBytes, MaxObjects, Sizes

\* Slots follow each other, and the last one ends where the data end.
LEMMA SlotsFollow ==
  ASSUME NEW s \in Nat, NEW t \in Nat, s < t, NEW S \in Nat
  PROVE  s * S \in Nat /\ t * S \in Nat /\ s * S + S <= t * S
  <1>1. PICK d \in Nat : t = s + 1 + d
    <2>1. t - s - 1 \in Nat /\ t = s + 1 + (t - s - 1)
      OBVIOUS
    <2> QED
      BY <2>1
  <1>2. (s + 1 + d) * S = s * S + S + d * S
    OBVIOUS
  <1>3. s * S \in Nat /\ d * S \in Nat
    OBVIOUS
  <1> QED
    BY <1>1, <1>2, <1>3

LEMMA SlotsAreApart ==
  ASSUME NEW s \in Slots, NEW t \in Slots, s # t, NEW S \in Nat,
         NEW n \in 0..S, NEW k \in 0..S
  PROVE  \A u \in UnitsOf(s, S, n) : u \notin UnitsOf(t, S, k)
  <1>1. s \in Nat /\ t \in Nat /\ SlotCount \in Nat
    BY LifecycleAssumption DEF Slots
  <1>2. s * S \in Nat /\ t * S \in Nat /\ (s * S + S <= t * S \/ t * S + S <= s * S)
    BY <1>1, SlotsFollow
  <1> HIDE DEF Slots
  <1> DEFINE a == s * S
             b == t * S
  <1>3. a \in Nat /\ b \in Nat /\ (a + S <= b \/ b + S <= a)
    BY <1>2
  <1> HIDE DEF a, b
  <1>4. \A u \in (a + 1)..(a + n) : u \notin (b + 1)..(b + k)
    BY <1>3
  <1> QED
    BY <1>4 DEF UnitsOf, a, b

LEMMA SlotIsInData ==
  ASSUME NEW s \in Slots, NEW S \in Nat, NEW n \in 0..S
  PROVE  \A u \in UnitsOf(s, S, n) : u \in 1..(SlotCount * S)
  <1>1. s \in Nat /\ SlotCount \in Nat /\ s < SlotCount
    BY LifecycleAssumption DEF Slots
  <1> DEFINE a == s * S
             c == SlotCount * S
  <1>2. a \in Nat /\ c \in Nat /\ a + S <= c
    BY <1>1, SlotsFollow
  <1> HIDE DEF a, c
  <1>3. \A u \in (a + 1)..(a + n) : u \in 1..c
    BY <1>2
  <1> QED
    BY <1>3 DEF UnitsOf, a, c

\* One object is replaced by what a publisher makes of it.
LEMMA ObjectReplaced ==
  ASSUME Shapes, NEW o \in 1..Len(object), NEW x \in ObjectRecords,
         object' = [object EXCEPT ![o] = x]
  PROVE  /\ object' \in Seq(ObjectRecords) /\ Len(object') = Len(object)
         /\ object'[o] = x
         /\ \A i \in 1..Len(object) : i # o => object'[i] = object[i]
  BY DEF Shapes

\* What every step leaves of an object: its size, once it has one, and a header
\* that is complete.
ObjectsKept ==
  /\ Len(object) <= Len(object')
  /\ \A o \in 1..Len(object) :
       /\ object[o].phase # "empty" =>
            object'[o].phase # "empty" /\ object'[o].slotSize = object[o].slotSize
       /\ object[o].phase = "ready" => object'[o].phase = "ready"

PhaseKept(o) ==
  object'[o].phase = object[o].phase /\ object'[o].slotSize = object[o].slotSize

LEMMA UsableStays ==
  ASSUME Shapes, object' \in Seq(ObjectRecords), ObjectsKept, config' = config,
         NEW o, Usable(o)
  PROVE  Usable(o)' /\ object'[o].slotSize = object[o].slotSize
  <1>1. Len(object) \in Nat /\ Len(object') \in Nat
    BY DEF Shapes
  <1>2. o \in 1..Len(object) /\ o \in 1..Len(object')
    BY <1>1 DEF Usable, ObjectsKept
  <1>3. /\ object'[o].phase # "empty" /\ object'[o].slotSize = object[o].slotSize
        /\ "memory_error" \notin Faults => object'[o].phase = "ready"
    BY <1>2 DEF Usable, ObjectsKept
  <1> QED
    BY <1>2, <1>3 DEF Usable, Faults

LEMMA MessageStaysOK ==
  ASSUME Shapes, object' \in Seq(ObjectRecords), ObjectsKept, config' = config,
         NEW m, MessageOK(m)
  PROVE  MessageOK(m)'
  <1>1. Usable(m.object)' /\ object'[m.object].slotSize = object[m.object].slotSize
    BY UsableStays DEF MessageOK
  <1>2. m.offset = m.slot * object'[m.object].slotSize
    BY <1>1 DEF MessageOK
  <1> QED
    BY <1>1, <1>2 DEF MessageOK, Sizes

LEMMA PublisherStaysOK ==
  ASSUME Shapes, object' \in Seq(ObjectRecords), ObjectsKept, config' = config,
         NEW q \in Publishers, PublisherOK(q), pub'[q] = pub[q],
         pub[q].pc \in Holding => PhaseKept(pub[q].fd)
  PROVE  PublisherOK(q)'
  <1>0. PICK x : x = pub[q]
    OBVIOUS
  <1>1. /\ Len(object) \in Nat /\ Len(object') \in Nat /\ Len(object) <= Len(object')
        /\ x.ring \in Nat /\ x.fd \in Nat
    BY <1>0 DEF Shapes, RingRecords, ObjectsKept
  <1>2. x.ring <= Len(object') /\ x.fd <= Len(object')
    BY <1>0, <1>1 DEF PublisherOK, RingOK
  <1>3. x.ring # 0 => Usable(x.ring)' /\ object'[x.ring].slotSize = x.slotSize
    BY <1>0, UsableStays DEF PublisherOK, RingOK
  <1>4. /\ x.pc \in Holding => x.fd # 0 /\ object'[x.fd].phase = PhaseAt[x.pc]
        /\ x.pc \in {"map", "describe"} => object'[x.fd].slotSize = x.slotSize
    BY <1>0 DEF PublisherOK, RingOK, Holding, PhaseKept
  <1>5. /\ x.error # "WriteFailed" /\ IsFrame(x.nextSeq)
        /\ x.pc \in Creating =>
             /\ x.ring = 0 /\ x.size <= x.slotSize /\ x.size \in Sizes
             /\ x.nextSeq <= MaxSequence
             /\ SlotSizeBytes # 0 => x.slotSize = SlotSizeBytes
        /\ x.pc \in {"write", "send"} =>
             x.ring # 0 /\ x.size <= x.slotSize /\ x.size \in Sizes /\ x.nextSeq <= MaxSequence
    BY <1>0 DEF PublisherOK, RingOK
  <1>6. Sizes' = Sizes /\ SlotSizeBytes' = SlotSizeBytes
    BY DEF Sizes, SlotSizeBytes
  <1>7. pub'[q] = x
    BY <1>0
  <1> QED
    BY <1>2, <1>3, <1>4, <1>5, <1>6, <1>7 DEF PublisherOK, RingOK

LEMMA DeliveryStaysOK ==
  ASSUME Shapes, object' \in Seq(ObjectRecords), ObjectsKept, config' = config,
         NEW g, DeliveryOK(g)
  PROVE  DeliveryOK(g)'
  <1>1. Len(object) \in Nat /\ Len(object') \in Nat /\ Len(object) <= Len(object')
    BY DEF Shapes, ObjectsKept
  <1>2. \A o \in 1..Len(object) : o \in 1..Len(object')
    BY <1>1
  <1> QED
    BY <1>2 DEF DeliveryOK, SlotSizeBytes

\* A step of one publisher keeps the invariant, if that publisher and the objects
\* come out right and it leaves the object alone that another one is creating.
LEMMA PublisherStepKeeps ==
  ASSUME LifecycleInv, NEW p \in Publishers,
         UNCHANGED <<config, subscribed, serving, handle, got>>,
         pub' \in [Publishers -> RingRecords],
         \A q \in Publishers \ {p} : pub'[q] = pub[q],
         object' \in Seq(ObjectRecords), Len(object') <= MaxObjects, ObjectsKept,
         link' \in [Names -> 0..Len(object')],
         \A o \in 1..Len(object') : ObjectOK(object'[o]),
         \A q \in Publishers \ {p} : pub[q].pc \in Holding =>
            /\ PhaseKept(pub[q].fd)
            /\ pub'[p].pc \in Holding => pub'[p].fd # pub[q].fd,
         PublisherOK(p)',
         inbox' \in [Readers -> SUBSET MessageRecords],
         \A r \in Readers : \A m \in inbox'[r] : m \in inbox[r] \/ MessageOK(m)',
         latest' \in SUBSET MessageRecords,
         \A m \in latest' : m \in latest \/ MessageOK(m)'
  PROVE  LifecycleInv'
  <1>0. Shapes
    BY DEF LifecycleInv
  <1>1. Shapes'
    BY <1>0 DEF Shapes, MaxObjects
  <1>2. ASSUME NEW o \in 1..Len(object') PROVE ObjectOK(object[o])'
    BY DEF ObjectOK, SlotHolds, SlotSizeBytes
  <1>3. ASSUME NEW q \in Publishers PROVE PublisherOK(q)'
    <2>1. CASE q = p
      BY <2>1
    <2>2. CASE q # p
      BY <1>0, <2>2, PublisherStaysOK DEF LifecycleInv
    <2> QED
      BY <2>1, <2>2
  <1>4. ObjectsApart'
    <2> SUFFICES ASSUME NEW q \in Publishers, NEW s \in Publishers, q # s,
                        pub'[q].pc \in Holding, pub'[s].pc \in Holding
                 PROVE  pub'[q].fd # pub'[s].fd
      BY DEF ObjectsApart
    <2>1. CASE q = p \/ s = p
      BY <2>1
    <2>2. CASE q # p /\ s # p
      <3>1. pub[q].fd # pub[s].fd
        BY <2>2 DEF LifecycleInv, ObjectsApart
      <3> QED
        BY <2>2, <3>1
    <2> QED
      BY <2>1, <2>2
  <1>5. \A m : MessageOK(m) => MessageOK(m)'
    BY <1>0, MessageStaysOK
  <1>6. \A g : DeliveryOK(g) => DeliveryOK(g)'
    BY <1>0, DeliveryStaysOK
  <1>7. ASSUME NEW r \in Readers
        PROVE  /\ \A m \in inbox'[r] \cup serving'[r] : MessageOK(m)'
               /\ handle'[r].object <= Len(object')
               /\ \A g \in got'[r] : MessageOK(g.of)' /\ DeliveryOK(g)'
    <2>0. handle \in [Readers -> HandleRecords] /\ object \in Seq(ObjectRecords)
      BY <1>0 DEF Shapes
    <2>1. Len(object) \in Nat /\ Len(object') \in Nat /\ handle[r].object \in Nat
      <3>1. handle[r] \in HandleRecords
        BY <2>0
      <3>2. handle[r].object \in Nat
        BY <3>1 DEF HandleRecords
      <3>3. Len(object) \in Nat /\ Len(object') \in Nat
        BY <2>0
      <3> QED
        BY <3>2, <3>3
    <2>2. Len(object) <= Len(object') /\ handle[r].object <= Len(object)
      BY DEF ObjectsKept, LifecycleInv
    <2>3. handle'[r].object <= Len(object')
      BY <2>1, <2>2
    <2>4. \A m \in inbox'[r] \cup serving'[r] : MessageOK(m)'
      BY <1>5 DEF LifecycleInv
    <2>5. \A g \in got'[r] : MessageOK(g.of)' /\ DeliveryOK(g)'
      BY <1>5, <1>6 DEF LifecycleInv
    <2> QED
      BY <2>3, <2>4, <2>5
  <1>8. \A m \in latest' : MessageOK(m)'
    BY <1>5 DEF LifecycleInv
  <1> QED
    BY <1>1, <1>2, <1>3, <1>4, <1>7, <1>8 DEF LifecycleInv

\* The record of one publisher is replaced.
LEMMA RingReplaced ==
  ASSUME Shapes, NEW p \in Publishers, NEW x \in RingRecords,
         pub' = [pub EXCEPT ![p] = x]
  PROVE  /\ pub' \in [Publishers -> RingRecords] /\ pub'[p] = x
         /\ \A q \in Publishers \ {p} : pub'[q] = pub[q]
  BY Zenon DEF Shapes

LEMMA RingOfPublisher ==
  ASSUME LifecycleInv, NEW p \in Publishers
  PROVE  /\ pub[p] \in RingRecords /\ RingOK(pub[p]) /\ Shapes
         /\ pub[p].ring \in Nat /\ pub[p].fd \in Nat /\ pub[p].slotSize \in Nat
         /\ pub[p].size \in Nat /\ pub[p].nextSeq \in Nat /\ pub[p].nextSlot \in Slots
         /\ Len(object) \in Nat
  <1>1. pub[p] \in RingRecords /\ object \in Seq(ObjectRecords)
    BY DEF LifecycleInv, Shapes
  <1>2. RingOK(pub[p]) /\ Shapes
    BY DEF LifecycleInv, PublisherOK
  <1> QED
    BY <1>1, <1>2 DEF RingRecords

\* The step touches no object and sends nothing.
LEMMA QuietStepKeeps ==
  ASSUME LifecycleInv, NEW p \in Publishers,
         UNCHANGED <<config, object, readers>>,
         link' \in [Names -> 0..Len(object)],
         NEW x \in RingRecords, pub' = [pub EXCEPT ![p] = x], RingOK(x),
         x.pc \in Holding => pub[p].pc \in Holding /\ x.fd = pub[p].fd
  PROVE  LifecycleInv'
  <1>1. Shapes
    BY DEF LifecycleInv
  <1>2. /\ object' \in Seq(ObjectRecords) /\ Len(object') <= MaxObjects
        /\ inbox' \in [Readers -> SUBSET MessageRecords]
        /\ latest' \in SUBSET MessageRecords
        /\ UNCHANGED <<config, subscribed, serving, handle, got, inbox, latest>>
    BY <1>1 DEF Shapes, readers
  <1>3. ObjectsKept
    BY <1>1 DEF ObjectsKept, Shapes
  <1>4. \A o \in 1..Len(object') : ObjectOK(object'[o])
    BY DEF LifecycleInv
  <1>5. /\ pub' \in [Publishers -> RingRecords] /\ pub'[p] = x
        /\ \A q \in Publishers \ {p} : pub'[q] = pub[q]
    BY <1>1, RingReplaced
  <1>6. ASSUME NEW q \in Publishers \ {p}, pub[q].pc \in Holding, pub'[p].pc \in Holding
        PROVE  pub'[p].fd # pub[q].fd
    BY <1>5, <1>6 DEF LifecycleInv, ObjectsApart
  <1>7. RingOK(x)'
    BY DEF RingOK, Usable, Faults, Sizes, SlotSizeBytes
  <1>8. PublisherOK(p)'
    BY <1>5, <1>7 DEF PublisherOK
  <1> QED
    BY <1>2, <1>3, <1>4, <1>5, <1>6, <1>8, PublisherStepKeeps DEF PhaseKept

\* The step replaces the object the publisher has mapped or is creating.
LEMMA ObjectStepKeeps ==
  ASSUME LifecycleInv, NEW p \in Publishers,
         UNCHANGED <<config, link, readers>>,
         NEW o \in 1..Len(object), NEW x \in ObjectRecords,
         object' = [object EXCEPT ![o] = x], ObjectOK(x),
         object[o].phase # "empty" => x.phase # "empty" /\ x.slotSize = object[o].slotSize,
         object[o].phase = "ready" => x.phase = "ready",
         \A q \in Publishers \ {p} : pub[q].pc \in Holding => pub[q].fd # o,
         NEW y \in RingRecords, pub' = [pub EXCEPT ![p] = y], RingOK(y)',
         y.pc \in Holding => pub[p].pc \in Holding /\ y.fd = pub[p].fd
  PROVE  LifecycleInv'
  <1>1. Shapes
    BY DEF LifecycleInv
  <1>2. /\ object' \in Seq(ObjectRecords) /\ Len(object') = Len(object) /\ object'[o] = x
        /\ \A i \in 1..Len(object) : i # o => object'[i] = object[i]
        /\ Len(object) \in Nat /\ Len(object) <= MaxObjects
    BY <1>1, ObjectReplaced DEF Shapes
  <1>3. ObjectsKept
    BY <1>2 DEF ObjectsKept
  <1>4. \A i \in 1..Len(object') : ObjectOK(object'[i])
    BY <1>2 DEF LifecycleInv
  <1>5. /\ pub' \in [Publishers -> RingRecords] /\ pub'[p] = y
        /\ \A q \in Publishers \ {p} : pub'[q] = pub[q]
    BY <1>1, RingReplaced
  <1>6. ASSUME NEW q \in Publishers \ {p}, pub[q].pc \in Holding
        PROVE  /\ PhaseKept(pub[q].fd)
               /\ pub'[p].pc \in Holding => pub'[p].fd # pub[q].fd
    <2>1. pub[q].fd \in 1..Len(object)
      BY <1>6, RingOfPublisher DEF RingOK
    <2>2. pub'[p].pc \in Holding => pub'[p].fd # pub[q].fd
      BY <1>5, <1>6 DEF LifecycleInv, ObjectsApart
    <2> QED
      BY <1>2, <1>6, <2>1, <2>2 DEF PhaseKept
  <1>7. /\ inbox' \in [Readers -> SUBSET MessageRecords]
        /\ latest' \in SUBSET MessageRecords
        /\ link' \in [Names -> 0..Len(object')]
        /\ UNCHANGED <<config, subscribed, serving, handle, got, inbox, latest>>
    BY <1>1, <1>2 DEF Shapes, readers
  <1>8. PublisherOK(p)'
    BY <1>5 DEF PublisherOK
  <1> QED
    BY <1>2, <1>3, <1>4, <1>5, <1>6, <1>7, <1>8, PublisherStepKeeps

\* The ring of a publisher that has not published.
LEMMA NoRingIs ==
  /\ NoRing \in RingRecords
  /\ NoRing.pc = "idle" /\ NoRing.ring = 0 /\ NoRing.fd = 0 /\ NoRing.slotSize = 0
  /\ NoRing.nextSlot = 0 /\ NoRing.nextSeq = 2 /\ NoRing.size = 0 /\ NoRing.error = "None"
  /\ ~NoRing.named
  <1>1. 0 \in Slots
    BY LifecycleAssumption DEF Slots
  <1> QED
    BY <1>1 DEF NoRing, RingRecords, Labels, Errors

LEMMA Initially == Init => LifecycleInv
  <1> SUFFICES ASSUME Init PROVE LifecycleInv
    OBVIOUS
  <1>1. SlotCount \in Nat \ {0} /\ 0 \in Slots
    BY LifecycleAssumption DEF Slots
  <1>2. NoRing \in RingRecords
    BY NoRingIs
  <1>3. ClosedHandle \in HandleRecords
    BY DEF ClosedHandle, HandleRecords
  <1>4. /\ object = <<>> /\ Len(object) = 0 /\ object \in Seq(ObjectRecords)
    BY DEF Init
  <1>5. MaxObjects \in Nat
    <2>1. config \in ConfigurationKinds
      BY LifecycleAssumption DEF Init
    <2> QED
      BY <2>1 DEF ConfigurationKinds, MaxObjects
  <1>6. Shapes
    BY <1>2, <1>3, <1>4, <1>5 DEF Init, Shapes
  <1>7. \A p \in Publishers : pub[p] = NoRing
    BY DEF Init
  <1>8. \A p \in Publishers : PublisherOK(p)
    <2>1. RingOK(NoRing)
      <3>1. IsFrame(NoRing.nextSeq)
        BY NoRingIs DEF IsFrame
      <3> QED
        BY <1>4, <3>1, NoRingIs DEF RingOK, Creating, Holding
    <2> QED
      BY <1>7, <2>1 DEF PublisherOK
  <1>9. ObjectsApart
    BY <1>7, NoRingIs DEF ObjectsApart, Holding
  <1>10. \A r \in Readers : /\ inbox[r] = {} /\ serving[r] = {} /\ got[r] = {}
                            /\ handle[r].object = 0
    BY DEF Init, ClosedHandle
  <1>11. latest = {}
    BY DEF Init
  <1>12. \A o \in 1..Len(object) : ObjectOK(object[o])
    BY <1>4
  <1>13. \A r \in Readers : /\ \A m \in inbox[r] \cup serving[r] : MessageOK(m)
                            /\ handle[r].object <= Len(object)
                            /\ \A g \in got[r] : MessageOK(g.of) /\ DeliveryOK(g)
    BY <1>4, <1>10
  <1> QED
    BY <1>6, <1>8, <1>9, <1>11, <1>12, <1>13 DEF LifecycleInv

--------------------------------------------------------------------------------
(* The steps of a publisher                                                 *)

LEMMA PublishIntoRingKeeps ==
  ASSUME LifecycleInv, NEW p \in Publishers, NEW size \in Sizes, PublishIntoRing(p, size)
  PROVE  LifecycleInv'
  <1>1. PICK x : x = [pub[p] EXCEPT !.pc = "write", !.size = size, !.error = "None"]
    OBVIOUS
  <1>2. size \in Nat
    BY ConfigTypes, RingOfPublisher
  <1>3. x \in RingRecords /\ x.pc \notin Holding
    BY <1>1, <1>2, RingOfPublisher DEF RingRecords, Labels, Errors, Holding
  <1>4. RingOK(x)
    BY <1>1, RingOfPublisher
    DEF PublishIntoRing, Fits, RingOK, Creating, Holding, RingRecords
  <1>5. /\ pub' = [pub EXCEPT ![p] = x] /\ link' \in [Names -> 0..Len(object)]
        /\ UNCHANGED <<config, object, readers>>
    BY <1>1, RingOfPublisher DEF PublishIntoRing, Shapes
  <1> QED
    BY <1>3, <1>4, <1>5, QuietStepKeeps

LEMMA PublishOversizedKeeps ==
  ASSUME LifecycleInv, NEW p \in Publishers, NEW size \in Sizes, PublishOversized(p, size)
  PROVE  LifecycleInv'
  <1>1. PICK x : x = [pub[p] EXCEPT !.error = "Oversized"]
    OBVIOUS
  <1>2. x \in RingRecords /\ x.pc \notin Holding
    BY <1>1, RingOfPublisher DEF PublishOversized, RingRecords, Errors, Holding
  <1>3. RingOK(x)
    BY <1>1, RingOfPublisher DEF PublishOversized, RingOK, RingRecords
  <1>4. /\ pub' = [pub EXCEPT ![p] = x] /\ link' \in [Names -> 0..Len(object)]
        /\ UNCHANGED <<config, object, readers>>
    BY <1>1, RingOfPublisher DEF PublishOversized, Shapes
  <1> QED
    BY <1>2, <1>3, <1>4, QuietStepKeeps

LEMMA PublishCreatingKeeps ==
  ASSUME LifecycleInv, NEW p \in Publishers, NEW size \in Sizes, PublishCreating(p, size)
  PROVE  LifecycleInv'
  <1> DEFINE wanted == WantedSlotSize(size)
  <1>1. PICK x : x = [NoRing EXCEPT !.pc = "unlink", !.named = TRUE,
                                    !.slotSize = wanted, !.size = size]
    OBVIOUS
  <1>2. /\ size \in Nat /\ wanted \in Nat /\ size <= wanted
        /\ SlotSizeBytes # 0 => wanted = SlotSizeBytes
    BY ConfigTypes, RingOfPublisher DEF PublishCreating, Refused, WantedSlotSize
  <1>3. pub' = [pub EXCEPT ![p] = x]
    BY <1>1 DEF PublishCreating
  <1> HIDE DEF wanted
  <1>4. x \in RingRecords /\ x.pc = "unlink" /\ x.ring = 0 /\ x.fd = 0 /\ x.size = size
        /\ x.slotSize = wanted /\ x.nextSeq = 2 /\ x.error = "None"
    BY <1>1, <1>2, NoRingIs DEF RingRecords, Labels
  <1>5. RingOK(x)
    <2>1. IsFrame(x.nextSeq) /\ x.nextSeq <= MaxSequence
      BY <1>4, ConfigTypes, RingOfPublisher DEF IsFrame
    <2> QED
      BY <1>2, <1>4, <2>1, RingOfPublisher DEF RingOK, Holding
  <1>6. link' \in [Names -> 0..Len(object)] /\ UNCHANGED <<config, object, readers>>
    BY RingOfPublisher DEF PublishCreating, Shapes
  <1> QED
    BY <1>3, <1>4, <1>5, <1>6, QuietStepKeeps DEF Holding

\* Names stay linked to objects that were created.
LEMMA Unlinked ==
  ASSUME LifecycleInv, NEW p \in Publishers
  PROVE  /\ link \in [Names -> 0..Len(object)]
         /\ [link EXCEPT ![NameOf[p]] = 0] \in [Names -> 0..Len(object)]
  <1>1. link \in [Names -> 0..Len(object)] /\ 0 \in 0..Len(object)
    BY RingOfPublisher DEF Shapes
  <1>2. NameOf[p] \in Names
    BY LifecycleAssumption
  <1> QED
    BY <1>1, <1>2

LEMMA UnlinkKeeps ==
  ASSUME LifecycleInv, NEW p \in Publishers, Unlink(p)
  PROVE  LifecycleInv'
  <1>1. PICK x : x = [pub[p] EXCEPT !.pc = "open"]
    OBVIOUS
  <1>2. x \in RingRecords /\ x.pc \notin Holding
    BY <1>1, RingOfPublisher DEF RingRecords, Labels, Holding
  <1>3. RingOK(x)
    BY <1>1, RingOfPublisher DEF Unlink, RingOK, RingRecords, Creating, Holding
  <1>4. pub' = [pub EXCEPT ![p] = x] /\ UNCHANGED <<config, object, readers>>
    BY <1>1 DEF Unlink
  <1>5. link' \in [Names -> 0..Len(object)]
    BY Unlinked DEF Unlink
  <1> QED
    BY <1>2, <1>3, <1>4, <1>5, QuietStepKeeps

\* Whatever step of create() fails, the ring is closed.
LEMMA CreateFailsKeeps ==
  ASSUME LifecycleInv, NEW p \in Publishers, pub[p].pc \in Creating, CreateFails(p),
         UNCHANGED <<config, link, object, readers>>
  PROVE  LifecycleInv'
  <1>1. PICK x : x = [pub[p] EXCEPT !.pc = "idle", !.error = "CreateFailed",
                                    !.fd = KeptOpen(p)]
    OBVIOUS
  <1>2. KeptOpen(p) \in Nat /\ KeptOpen(p) <= Len(object)
    <2>1. pub[p].fd <= Len(object) /\ 0 <= Len(object)
      BY RingOfPublisher DEF RingOK
    <2> QED
      BY <2>1, RingOfPublisher DEF KeptOpen
  <1>3. x \in RingRecords /\ x.pc \notin Holding
    BY <1>1, <1>2, RingOfPublisher DEF RingRecords, Labels, Errors, Holding
  <1>4. x.pc = "idle" /\ x.fd = KeptOpen(p) /\ x.error = "CreateFailed"
        /\ x.ring = pub[p].ring /\ x.nextSeq = pub[p].nextSeq
    BY <1>1, RingOfPublisher DEF RingRecords
  <1>5. pub[p].ring = 0 /\ IsFrame(pub[p].nextSeq)
    BY RingOfPublisher DEF RingOK
  <1>6. RingOK(x)
    BY <1>2, <1>4, <1>5, RingOfPublisher DEF RingOK, Creating, Holding
  <1>7. pub' = [pub EXCEPT ![p] = x] /\ link' \in [Names -> 0..Len(object)]
    BY <1>1, RingOfPublisher DEF CreateFails, Shapes
  <1> QED
    BY <1>3, <1>6, <1>7, QuietStepKeeps

\* A Python publisher that runs out of memory keeps the ring it has mapped.
LEMMA PyZeroingFailsKeeps ==
  ASSUME LifecycleInv, NEW p \in Publishers, pub[p].pc = "map", "memory_error" \in Faults,
         PyZeroingFails(p), UNCHANGED <<config, link, object, readers>>
  PROVE  LifecycleInv'
  <1>1. PICK x : x = [pub[p] EXCEPT !.pc = "idle", !.error = "CreateFailed",
                                    !.ring = pub[p].fd]
    OBVIOUS
  <1>2. x \in RingRecords /\ x.pc \notin Holding
    BY <1>1, RingOfPublisher DEF RingRecords, Labels, Errors, Holding
  <1>3. x.pc = "idle" /\ x.fd = pub[p].fd /\ x.error = "CreateFailed"
        /\ x.ring = pub[p].fd /\ x.nextSeq = pub[p].nextSeq /\ x.slotSize = pub[p].slotSize
    BY <1>1, RingOfPublisher DEF RingRecords
  <1>4. /\ pub[p].fd \in 1..Len(object) /\ IsFrame(pub[p].nextSeq)
        /\ object[pub[p].fd].phase = "zeroed" /\ object[pub[p].fd].slotSize = pub[p].slotSize
    BY RingOfPublisher DEF RingOK, Holding, PhaseAt
  <1>5. Usable(pub[p].fd)
    BY <1>4 DEF Usable
  <1>6. RingOK(x)
    BY <1>3, <1>4, <1>5, RingOfPublisher DEF RingOK, Creating, Holding
  <1>7. pub' = [pub EXCEPT ![p] = x] /\ link' \in [Names -> 0..Len(object)]
    BY <1>1, Unlinked DEF PyZeroingFails
  <1> QED
    BY <1>2, <1>6, <1>7, QuietStepKeeps

LEMMA OpenExclusiveKeeps ==
  ASSUME LifecycleInv, NEW p \in Publishers, OpenExclusive(p)
  PROVE  LifecycleInv'
  <1> DEFINE name == NameOf[p]
  <1>1. CASE CreateFails(p) /\ UNCHANGED <<link, object>>
    BY <1>1, CreateFailsKeeps DEF OpenExclusive, Creating
  <1>2. CASE /\ Len(object) < MaxObjects /\ object' = Append(object, NewObject)
             /\ link' = [link EXCEPT ![name] = Len(object')]
             /\ pub' = [pub EXCEPT ![p].pc = "truncate", ![p].fd = Len(object')]
    <2> DEFINE n == Len(object) + 1
    <2>1. NewObject \in ObjectRecords
      <3>1. 0 \in 0..(MaxSequence + 1)
        BY LifecycleAssumption
      <3> QED
        BY <3>1 DEF NewObject, ObjectRecords, SlotRecords, Phases
    <2>2. /\ object \in Seq(ObjectRecords) /\ Len(object) \in Nat /\ MaxObjects \in Nat
          /\ link \in [Names -> 0..Len(object)] /\ name \in Names
      BY RingOfPublisher, ConfigTypes, LifecycleAssumption DEF Shapes
    <2>3. /\ object' \in Seq(ObjectRecords) /\ Len(object') = n /\ object'[n] = NewObject
          /\ \A o \in 1..Len(object) : object'[o] = object[o]
      BY <1>2, <2>1, <2>2
    <2>4. n \in Nat /\ n <= MaxObjects /\ \A o \in 1..n : o = n \/ o \in 1..Len(object)
      BY <1>2, <2>2
    <2>5. ObjectOK(NewObject)
      <3>1. Len(NewObject.data) = 0 /\ NewObject.slotSize = 0 /\ NewObject.phase = "empty"
        BY DEF NewObject
      <3>2. SlotCount * 0 = 0
        BY LifecycleAssumption
      <3>3. \A s \in Slots : NewObject.slot[s].sequence = 0
        BY DEF NewObject
      <3>4. ~IsFrame(0)
        BY DEF IsFrame
      <3> QED
        BY <3>1, <3>2, <3>3, <3>4 DEF ObjectOK, SlotHolds
    <2>6. \A o \in 1..Len(object') : ObjectOK(object'[o])
      BY <2>3, <2>4, <2>5 DEF LifecycleInv
    <2>7. ObjectsKept
      BY <2>2, <2>3 DEF ObjectsKept
    <2>8. PICK x : x = [pub[p] EXCEPT !.pc = "truncate", !.fd = n]
      OBVIOUS
    <2>9. x \in RingRecords /\ pub' = [pub EXCEPT ![p] = x]
      BY <1>2, <2>3, <2>4, <2>8, RingOfPublisher DEF RingRecords, Labels
    <2>10. /\ pub' \in [Publishers -> RingRecords] /\ pub'[p] = x
           /\ \A q \in Publishers \ {p} : pub'[q] = pub[q]
      BY <2>9, RingReplaced, RingOfPublisher
    <2>11. /\ x.pc = "truncate" /\ x.fd = n /\ x.ring = pub[p].ring /\ x.error = pub[p].error
           /\ x.size = pub[p].size /\ x.slotSize = pub[p].slotSize
           /\ x.nextSeq = pub[p].nextSeq
      BY <2>8, RingOfPublisher DEF RingRecords
    <2>12. /\ pub[p].ring = 0 /\ pub[p].error # "WriteFailed" /\ IsFrame(pub[p].nextSeq)
           /\ pub[p].size <= pub[p].slotSize /\ pub[p].size \in Sizes
           /\ pub[p].nextSeq <= MaxSequence
           /\ SlotSizeBytes # 0 => pub[p].slotSize = SlotSizeBytes
      BY RingOfPublisher DEF RingOK, Creating, OpenExclusive
    <2>13. object'[n].phase = PhaseAt["truncate"] /\ n # 0 /\ 0 <= n
      BY <2>2, <2>3 DEF NewObject, PhaseAt
    <2>14. Sizes' = Sizes /\ SlotSizeBytes' = SlotSizeBytes
      BY DEF OpenExclusive, Sizes, SlotSizeBytes
    <2>15. RingOK(x)'
      BY <2>3, <2>11, <2>12, <2>13, <2>14 DEF RingOK, Holding
    <2>16. PublisherOK(p)'
      BY <2>10, <2>15 DEF PublisherOK
    <2>17. ASSUME NEW q \in Publishers \ {p}, pub[q].pc \in Holding
           PROVE  PhaseKept(pub[q].fd) /\ pub'[p].fd # pub[q].fd
      <3>1. pub[q].fd \in 1..Len(object)
        BY <2>17, RingOfPublisher DEF RingOK
      <3> QED
        BY <2>2, <2>3, <2>10, <2>11, <3>1 DEF PhaseKept
    <2>18. link' \in [Names -> 0..Len(object')]
      BY <1>2, <2>2, <2>3
    <2>19. /\ UNCHANGED <<config, subscribed, serving, handle, got, inbox, latest>>
           /\ inbox \in [Readers -> SUBSET MessageRecords]
           /\ latest \in SUBSET MessageRecords
      BY RingOfPublisher DEF OpenExclusive, Shapes, readers
    <2>20. Len(object') <= MaxObjects
      BY <2>3, <2>4
    <2> QED
      BY <2>3, <2>6, <2>7, <2>10, <2>16, <2>17, <2>18, <2>19, <2>20, PublisherStepKeeps
  <1> QED
    BY <1>1, <1>2 DEF OpenExclusive

\* The object a publisher is creating is its own.
LEMMA HeldAlone ==
  ASSUME LifecycleInv, NEW p \in Publishers, pub[p].pc \in Holding
  PROVE  /\ pub[p].fd \in 1..Len(object)
         /\ object[pub[p].fd] \in ObjectRecords /\ ObjectOK(object[pub[p].fd])
         /\ object[pub[p].fd].phase = PhaseAt[pub[p].pc]
         /\ \A q \in Publishers \ {p} : pub[q].pc \in Holding => pub[q].fd # pub[p].fd
  <1>1. pub[p].fd \in 1..Len(object) /\ object[pub[p].fd].phase = PhaseAt[pub[p].pc]
    BY RingOfPublisher DEF RingOK
  <1>2. object \in Seq(ObjectRecords)
    BY DEF LifecycleInv, Shapes
  <1> QED
    BY <1>1, <1>2 DEF LifecycleInv, ObjectsApart

LEMMA TruncateKeeps ==
  ASSUME LifecycleInv, NEW p \in Publishers, Truncate(p)
  PROVE  LifecycleInv'
  <1>0. pub[p].pc = "truncate" /\ UNCHANGED <<config, link, readers>>
    BY DEF Truncate
  <1>1. CASE CreateFails(p) /\ UNCHANGED object
    BY <1>0, <1>1, CreateFailsKeeps DEF Creating
  <1> DEFINE o == pub[p].fd
             S == pub[p].slotSize
             zeros == [u \in 1..(SlotCount * S) |-> 0]
  <1>2. CASE /\ object' = [object EXCEPT ![o] = [@ EXCEPT !.phase = "zeroed",
                                                  !.slotSize = S, !.data = zeros]]
             /\ pub' = [pub EXCEPT ![p].pc = "map"]
    <2>1. /\ o \in 1..Len(object) /\ object[o] \in ObjectRecords /\ ObjectOK(object[o])
          /\ object[o].phase = "empty"
          /\ \A q \in Publishers \ {p} : pub[q].pc \in Holding => pub[q].fd # o
      BY <1>0, HeldAlone DEF Holding, PhaseAt
    <2>2. S \in Nat /\ SlotCount * S \in Nat
      BY RingOfPublisher, LifecycleAssumption
    <2>3. zeros \in Seq(Nat) /\ Len(zeros) = SlotCount * S
      BY <2>2
    <2> HIDE DEF zeros
    <2>4. PICK x : x = [object[o] EXCEPT !.phase = "zeroed", !.slotSize = S, !.data = zeros]
      OBVIOUS
    <2>5. /\ x \in ObjectRecords /\ x.phase = "zeroed" /\ x.slotSize = S /\ x.data = zeros
          /\ x.slot = object[o].slot
      BY <2>1, <2>2, <2>3, <2>4 DEF ObjectRecords, Phases
    <2>6. object' = [object EXCEPT ![o] = x]
      BY <1>2, <2>4
    <2>7. SlotSizeBytes # 0 => S = SlotSizeBytes
      BY <1>0, RingOfPublisher DEF RingOK, Creating
    <2>8. ObjectOK(x)
      <3>1. \A s \in Slots : x.slot[s].sequence = 0
        BY <2>1, <2>5 DEF ObjectOK
      <3>2. ~IsFrame(0)
        BY DEF IsFrame
      <3> QED
        BY <2>3, <2>5, <2>7, <3>1, <3>2 DEF ObjectOK, SlotHolds
    <2>9. PICK y : y = [pub[p] EXCEPT !.pc = "map"]
      OBVIOUS
    <2>10. /\ y \in RingRecords /\ y.pc = "map" /\ y.fd = o /\ y.ring = pub[p].ring
           /\ y.error = pub[p].error /\ y.size = pub[p].size /\ y.slotSize = S
           /\ y.nextSeq = pub[p].nextSeq
      BY <2>9, RingOfPublisher DEF RingRecords, Labels
    <2>11. pub' = [pub EXCEPT ![p] = y]
      BY <1>2, <2>9
    <2>12. object' \in Seq(ObjectRecords) /\ Len(object') = Len(object) /\ object'[o] = x
      BY <2>1, <2>5, <2>6, ObjectReplaced, RingOfPublisher
    <2>13. RingOK(y)'
      <3>1. /\ y.ring = 0 /\ y.error # "WriteFailed" /\ IsFrame(y.nextSeq)
            /\ y.size <= y.slotSize /\ y.size \in Sizes /\ y.nextSeq <= MaxSequence
            /\ y.fd \in 1..Len(object)
        BY <1>0, <2>1, <2>10, RingOfPublisher DEF RingOK, Creating
      <3>2. Sizes' = Sizes /\ SlotSizeBytes' = SlotSizeBytes
        BY <1>0 DEF Sizes, SlotSizeBytes
      <3> QED
        BY <2>1, <2>5, <2>7, <2>10, <2>12, <3>1, <3>2, RingOfPublisher
        DEF RingOK, PhaseAt
    <2> QED
      BY <1>0, <2>1, <2>5, <2>6, <2>8, <2>10, <2>11, <2>13, ObjectStepKeeps DEF Holding
  <1> QED
    BY <1>1, <1>2 DEF Truncate

\* Only the phase of the object changes.
LEMMA PhaseStepKeeps ==
  ASSUME LifecycleInv, NEW p \in Publishers, pub[p].pc \in {"map", "describe"},
         UNCHANGED <<config, link, readers>>,
         NEW phase \in {"identified", "ready"},
         object' = [object EXCEPT ![pub[p].fd].phase = phase],
         NEW y \in RingRecords, pub' = [pub EXCEPT ![p] = y], RingOK(y)',
         y.pc \in Holding => y.fd = pub[p].fd
  PROVE  LifecycleInv'
  <1> DEFINE o == pub[p].fd
  <1>1. /\ o \in 1..Len(object) /\ object[o] \in ObjectRecords /\ ObjectOK(object[o])
        /\ object[o].phase \in {"zeroed", "identified"}
        /\ \A q \in Publishers \ {p} : pub[q].pc \in Holding => pub[q].fd # o
        /\ pub[p].pc \in Holding
    BY HeldAlone DEF Holding, PhaseAt
  <1>2. PICK x : x = [object[o] EXCEPT !.phase = phase]
    OBVIOUS
  <1>3. /\ x \in ObjectRecords /\ x.phase = phase /\ x.slotSize = object[o].slotSize
        /\ x.slot = object[o].slot /\ x.data = object[o].data
    BY <1>1, <1>2 DEF ObjectRecords, Phases
  <1>4. ObjectOK(x)
    BY <1>1, <1>3 DEF ObjectOK, SlotHolds
  <1>5. object' = [object EXCEPT ![o] = x]
    BY <1>2
  <1> QED
    BY <1>1, <1>3, <1>4, <1>5, ObjectStepKeeps

LEMMA MapAndIdentifyKeeps ==
  ASSUME LifecycleInv, NEW p \in Publishers, MapAndIdentify(p)
  PROVE  LifecycleInv'
  <1>0. pub[p].pc = "map" /\ UNCHANGED <<config, link, readers>>
    BY DEF MapAndIdentify
  <1>1. CASE CreateFails(p) /\ UNCHANGED object
    BY <1>0, <1>1, CreateFailsKeeps DEF Creating
  <1>2. CASE "memory_error" \in Faults /\ PyZeroingFails(p) /\ UNCHANGED object
    BY <1>0, <1>2, PyZeroingFailsKeeps
  <1>3. CASE /\ object' = [object EXCEPT ![pub[p].fd].phase = "identified"]
             /\ pub' = [pub EXCEPT ![p].pc = "describe"]
    <2>1. PICK y : y = [pub[p] EXCEPT !.pc = "describe"]
      OBVIOUS
    <2>2. /\ y \in RingRecords /\ y.pc = "describe" /\ y.fd = pub[p].fd
          /\ y.ring = pub[p].ring /\ y.error = pub[p].error /\ y.size = pub[p].size
          /\ y.slotSize = pub[p].slotSize /\ y.nextSeq = pub[p].nextSeq
      BY <2>1, RingOfPublisher DEF RingRecords, Labels
    <2>3. pub' = [pub EXCEPT ![p] = y]
      BY <1>3, <2>1
    <2>4. /\ pub[p].fd \in 1..Len(object) /\ object[pub[p].fd] \in ObjectRecords
          /\ object \in Seq(ObjectRecords)
      BY <1>0, HeldAlone, RingOfPublisher DEF Holding, Shapes
    <2>5. /\ Len(object') = Len(object) /\ object'[y.fd].phase = "identified"
          /\ object'[y.fd].slotSize = object[y.fd].slotSize
      BY <1>3, <2>2, <2>4 DEF ObjectRecords
    <2>6. /\ y.ring = 0 /\ y.error # "WriteFailed" /\ IsFrame(y.nextSeq)
          /\ y.size <= y.slotSize /\ y.size \in Sizes /\ y.nextSeq <= MaxSequence
          /\ object[y.fd].slotSize = y.slotSize
          /\ SlotSizeBytes # 0 => y.slotSize = SlotSizeBytes
      BY <1>0, <2>2, RingOfPublisher DEF RingOK, Creating
    <2>7. Sizes' = Sizes /\ SlotSizeBytes' = SlotSizeBytes
      BY <1>0 DEF Sizes, SlotSizeBytes
    <2>8. RingOK(y)'
      BY <2>2, <2>4, <2>5, <2>6, <2>7, RingOfPublisher DEF RingOK, PhaseAt
    <2> QED
      BY <1>0, <1>3, <2>2, <2>3, <2>8, PhaseStepKeeps
  <1> QED
    BY <1>1, <1>2, <1>3 DEF MapAndIdentify

LEMMA DescribeKeeps ==
  ASSUME LifecycleInv, NEW p \in Publishers, Describe(p)
  PROVE  LifecycleInv'
  <1>0. pub[p].pc = "describe" /\ UNCHANGED <<config, link, readers>>
        /\ object' = [object EXCEPT ![pub[p].fd].phase = "ready"]
    BY DEF Describe
  <1>1. PICK y : y = [pub[p] EXCEPT !.pc = "write", !.ring = pub[p].fd, !.fd = 0]
    OBVIOUS
  <1>2. /\ y \in RingRecords /\ y.pc = "write" /\ y.fd = 0
        /\ y.ring = pub[p].fd /\ y.error = pub[p].error /\ y.size = pub[p].size
        /\ y.slotSize = pub[p].slotSize /\ y.nextSeq = pub[p].nextSeq
    BY <1>1, RingOfPublisher DEF RingRecords, Labels
  <1>3. pub' = [pub EXCEPT ![p] = y]
    BY <1>1 DEF Describe
  <1>4. /\ pub[p].fd \in 1..Len(object) /\ object[pub[p].fd] \in ObjectRecords
        /\ object \in Seq(ObjectRecords)
    BY <1>0, HeldAlone, RingOfPublisher DEF Holding, Shapes
  <1>5. /\ Len(object') = Len(object) /\ object'[y.ring].phase = "ready"
        /\ object'[y.ring].slotSize = object[y.ring].slotSize
    BY <1>0, <1>2, <1>4 DEF ObjectRecords
  <1>6. /\ y.error # "WriteFailed" /\ IsFrame(y.nextSeq)
        /\ y.size <= y.slotSize /\ y.size \in Sizes /\ y.nextSeq <= MaxSequence
        /\ object[y.ring].slotSize = y.slotSize
    BY <1>0, <1>2, RingOfPublisher DEF RingOK, Creating
  <1>7. Sizes' = Sizes
    BY <1>0 DEF Sizes
  <1>8. Usable(y.ring)'
    BY <1>2, <1>4, <1>5 DEF Usable
  <1>9. RingOK(y)'
    BY <1>2, <1>4, <1>5, <1>6, <1>7, <1>8, RingOfPublisher DEF RingOK, Creating, Holding
  <1> QED
    BY <1>0, <1>2, <1>3, <1>9, PhaseStepKeeps DEF Holding

\* The ring a publisher has open.
LEMMA OpenRing ==
  ASSUME LifecycleInv, NEW p \in Publishers, pub[p].ring # 0
  PROVE  /\ pub[p].ring \in 1..Len(object) /\ Usable(pub[p].ring)
         /\ object[pub[p].ring] \in ObjectRecords /\ ObjectOK(object[pub[p].ring])
         /\ object[pub[p].ring].slotSize = pub[p].slotSize
  <1>1. Usable(pub[p].ring) /\ object[pub[p].ring].slotSize = pub[p].slotSize
    BY RingOfPublisher DEF RingOK
  <1>2. pub[p].ring \in 1..Len(object)
    BY <1>1 DEF Usable
  <1>3. object \in Seq(ObjectRecords)
    BY DEF LifecycleInv, Shapes
  <1> QED
    BY <1>1, <1>2, <1>3 DEF LifecycleInv

\* The slots and data of the open ring change, nothing else of it.
LEMMA RingStepKeeps ==
  ASSUME LifecycleInv, NEW p \in Publishers, pub[p].ring # 0, pub[p].pc \notin Holding,
         UNCHANGED <<config, link, readers>>,
         NEW x \in ObjectRecords, ObjectOK(x),
         x.phase = object[pub[p].ring].phase, x.slotSize = object[pub[p].ring].slotSize,
         object' = [object EXCEPT ![pub[p].ring] = x],
         NEW y \in RingRecords, pub' = [pub EXCEPT ![p] = y], RingOK(y),
         y.pc \notin Holding, y.ring \in {0, pub[p].ring}
  PROVE  LifecycleInv'
  <1> DEFINE o == pub[p].ring
  <1>1. /\ o \in 1..Len(object) /\ Usable(o) /\ object[o] \in ObjectRecords
        /\ object[o].phase # "empty" /\ object \in Seq(ObjectRecords)
    BY OpenRing, RingOfPublisher DEF Usable, Shapes
  <1>2. /\ object' \in Seq(ObjectRecords) /\ Len(object') = Len(object) /\ object'[o] = x
        /\ \A i \in 1..Len(object) : i # o => object'[i] = object[i]
    BY <1>1, ObjectReplaced, RingOfPublisher
  <1>3. ObjectsKept
    BY <1>1, <1>2 DEF ObjectsKept
  <1>4. \A i \in 1..Len(object') : ObjectOK(object'[i])
    BY <1>2 DEF LifecycleInv
  <1>5. /\ pub' \in [Publishers -> RingRecords] /\ pub'[p] = y
        /\ \A q \in Publishers \ {p} : pub'[q] = pub[q]
    BY RingReplaced, RingOfPublisher
  <1>6. RingOK(y)'
    <2>1. Sizes' = Sizes /\ SlotSizeBytes' = SlotSizeBytes
      BY DEF Sizes, SlotSizeBytes
    <2>2. y.ring # 0 => Usable(y.ring)' /\ object'[y.ring].slotSize = y.slotSize
      BY <1>2, <1>3, UsableStays, RingOfPublisher DEF RingOK
    <2>3. y.pc \notin {"map", "describe"}
      BY DEF Holding
    <2> QED
      BY <1>2, <2>1, <2>2, <2>3 DEF RingOK
  <1>7. PublisherOK(p)'
    BY <1>5, <1>6 DEF PublisherOK
  <1>8. /\ inbox' \in [Readers -> SUBSET MessageRecords]
        /\ latest' \in SUBSET MessageRecords
        /\ link' \in [Names -> 0..Len(object')]
        /\ Len(object') <= MaxObjects
        /\ UNCHANGED <<config, subscribed, serving, handle, got, inbox, latest>>
    BY <1>2, RingOfPublisher DEF Shapes, readers
  <1>9. ASSUME NEW q \in Publishers \ {p}, pub[q].pc \in Holding
        PROVE  PhaseKept(pub[q].fd)
    BY <1>2, <1>9, HeldAlone DEF PhaseKept
  <1> QED
    BY <1>2, <1>3, <1>4, <1>5, <1>7, <1>8, <1>9, PublisherStepKeeps

LEMMA WriteKeeps ==
  ASSUME LifecycleInv, NEW p \in Publishers, Write(p)
  PROVE  LifecycleInv'
  <1> DEFINE o == pub[p].ring
             s == pub[p].nextSlot
             S == pub[p].slotSize
             size == pub[p].size
             seq == pub[p].nextSeq
             shown == [sequence |-> seq, size |-> size]
             old == object[o].data
             data == [u \in DOMAIN old |-> IF u \in UnitsOf(s, S, size) THEN seq ELSE old[u]]
  <1>1. /\ pub[p].pc = "write" /\ UNCHANGED <<config, link, readers>>
        /\ o # 0 /\ size <= S /\ seq <= MaxSequence /\ IsFrame(seq)
    BY RingOfPublisher DEF Write, RingOK
  <1>2. /\ o \in 1..Len(object) /\ object[o] \in ObjectRecords /\ ObjectOK(object[o])
        /\ object[o].slotSize = S /\ object[o].phase # "empty"
    BY <1>1, OpenRing DEF Usable
  <1>3. /\ s \in Slots /\ S \in Nat /\ size \in 0..S /\ seq \in 0..(MaxSequence + 1) /\ seq \in Nat
    BY <1>1, RingOfPublisher, ConfigTypes
  <1>4. /\ old \in Seq(Nat) /\ Len(old) = SlotCount * S /\ SlotCount * S \in Nat
        /\ object[o].slot \in [Slots -> SlotRecords]
    <2>1. old \in Seq(Nat) /\ object[o].slot \in [Slots -> SlotRecords]
      BY <1>2 DEF ObjectRecords
    <2>2. Len(old) = SlotCount * S
      BY <1>2 DEF ObjectOK
    <2>3. Len(old) \in Nat
      BY <2>1
    <2> QED
      BY <2>1, <2>2, <2>3
  <1>5. /\ data \in Seq(Nat) /\ Len(data) = SlotCount * S
        /\ \A u \in 1..(SlotCount * S) :
             data[u] = IF u \in UnitsOf(s, S, size) THEN seq ELSE old[u]
    <2>1. PICK n \in Nat : n = SlotCount * S
      BY <1>4
    <2>2. DOMAIN old = 1..n /\ \A u \in 1..n : old[u] \in Nat
      BY <1>4, <2>1
    <2>3. data \in [1..n -> Nat]
      BY <1>3, <2>2
    <2>4. data \in Seq(Nat) /\ Len(data) = n
      BY <2>1, <2>3
    <2> QED
      BY <2>1, <2>2, <2>4
  <1>6. shown \in SlotRecords
    BY <1>3 DEF SlotRecords
  <1>7. /\ object' = [object EXCEPT ![o] = [@ EXCEPT !.slot[s] = shown, !.data = data]]
        /\ pub' = [pub EXCEPT ![p].pc = "send"]
    BY <1>1 DEF Write, Fits, FirstUnit, UnitsOf
  <1> HIDE DEF data, shown
  <1>8. PICK x : x = [object[o] EXCEPT !.slot[s] = shown, !.data = data]
    OBVIOUS
  <1>9. object' = [object EXCEPT ![o] = x]
    BY <1>7, <1>8
  <1>10. /\ x \in ObjectRecords /\ x.data = data
         /\ x.slot = [object[o].slot EXCEPT ![s] = shown]
         /\ x.phase = object[o].phase /\ x.slotSize = S
    BY <1>2, <1>3, <1>4, <1>5, <1>6, <1>8 DEF ObjectRecords
  <1>11. /\ x.slot[s] = shown /\ shown.sequence = seq /\ shown.size = size
         /\ \A t \in Slots : t # s => x.slot[t] = object[o].slot[t]
    BY <1>3, <1>4, <1>10 DEF shown
  <1>12. \A t \in Slots : SlotHolds(x, t)
    <2> SUFFICES ASSUME NEW t \in Slots, IsFrame(x.slot[t].sequence)
                 PROVE  /\ x.slot[t].size <= S
                        /\ \A u \in UnitsOf(t, S, x.slot[t].size) :
                             data[u] = x.slot[t].sequence
      BY <1>10 DEF SlotHolds
    <2>1. CASE t = s
      <3>1. \A u \in UnitsOf(s, S, size) : data[u] = seq
        BY <1>3, <1>5, SlotIsInData
      <3> QED
        BY <1>1, <1>11, <2>1, <3>1
    <2>2. CASE t # s
      <3> DEFINE n == object[o].slot[t].size
                 c == object[o].slot[t].sequence
      <3>1. x.slot[t].size = n /\ x.slot[t].sequence = c
        BY <1>11, <2>2
      <3>2. n <= S /\ \A u \in UnitsOf(t, S, n) : old[u] = c
        <4>1. SlotHolds(object[o], t)
          BY <1>2 DEF ObjectOK
        <4> QED
          BY ZenonT(60), <1>2, <1>3, <3>1, <4>1 DEF SlotHolds
      <3>3. n \in 0..S
        BY <1>3, <1>4, <3>2 DEF SlotRecords
      <3>4. \A u \in UnitsOf(t, S, n) :
              u \in 1..(SlotCount * S) /\ u \notin UnitsOf(s, S, size)
        BY <1>3, <2>2, <3>3, SlotIsInData, SlotsAreApart
      <3>5. \A u \in UnitsOf(t, S, n) : data[u] = c
        BY <1>5, <3>2, <3>4
      <3> QED
        BY <3>1, <3>2, <3>5
    <2> QED
      BY <2>1, <2>2
  <1>13. ObjectOK(x)
    <2>1. SlotSizeBytes # 0 => S = SlotSizeBytes
      BY <1>2 DEF ObjectOK
    <2> QED
      BY <1>2, <1>5, <1>10, <1>12, <2>1 DEF ObjectOK
  <1>14. PICK y : y = [pub[p] EXCEPT !.pc = "send"]
    OBVIOUS
  <1>15. y \in RingRecords /\ y.pc = "send" /\ y.ring = o
    BY <1>14, RingOfPublisher DEF RingRecords, Labels
  <1>16. RingOK(y)
    BY <1>1, <1>14, RingOfPublisher DEF RingOK, RingRecords, Creating, Holding
  <1>17. pub' = [pub EXCEPT ![p] = y]
    BY <1>7, <1>14
  <1> QED
    BY <1>1, <1>2, <1>9, <1>10, <1>13, <1>15, <1>16, <1>17, RingStepKeeps DEF Holding

LEMMA SendKeeps ==
  ASSUME LifecycleInv, NEW p \in Publishers, Send(p)
  PROVE  LifecycleInv'
  <1>0. PICK m : m = Message(p)
    OBVIOUS
  <1>1. /\ pub[p].pc = "send" /\ UNCHANGED <<config, link, object, subscribed, serving, handle, got>>
        /\ inbox' = [r \in Readers |-> IF r \in subscribed THEN {m} ELSE {}]
        /\ latest' = {m}
    BY <1>0 DEF Send
  <1>2. /\ pub[p].ring # 0 /\ pub[p].size \in Sizes /\ IsFrame(pub[p].nextSeq)
        /\ pub[p].size <= pub[p].slotSize /\ pub[p].error # "WriteFailed"
    BY <1>1, RingOfPublisher DEF RingOK
  <1>3. Usable(pub[p].ring) /\ object[pub[p].ring].slotSize = pub[p].slotSize
    BY <1>2, OpenRing
  <1>4. /\ pub[p].nextSlot \in Slots /\ pub[p].nextSlot \in Nat /\ SlotCount \in Nat \ {0}
        /\ FirstUnit(p) \in Nat /\ NameOf[p] \in Names
    <2>1. /\ pub[p].nextSlot \in Slots /\ pub[p].nextSlot \in Nat /\ SlotCount \in Nat \ {0}
          /\ NameOf[p] \in Names /\ pub[p].slotSize \in Nat
      BY RingOfPublisher, LifecycleAssumption DEF Slots
    <2>2. FirstUnit(p) \in Nat
      BY <2>1 DEF FirstUnit
    <2> QED
      BY <2>1, <2>2
  <1>5. m \in MessageRecords
    BY <1>0, <1>4, RingOfPublisher DEF Message, MessageRecords
  <1>6. MessageOK(m)
    BY <1>0, <1>2, <1>3 DEF Message, MessageOK, FirstUnit
  <1>7. PICK y : y = [pub[p] EXCEPT !.pc = "idle", !.nextSlot = FollowingSlot(@),
                                    !.nextSeq = @ + 2]
    OBVIOUS
  <1>8. pub' = [pub EXCEPT ![p] = y]
    BY <1>7 DEF Send
  <1>9. FollowingSlot(pub[p].nextSlot) \in Slots /\ pub[p].nextSeq + 2 \in Nat
        /\ IsFrame(pub[p].nextSeq + 2)
    <2>1. FollowingSlot(pub[p].nextSlot) \in Slots
      BY <1>4 DEF FollowingSlot, Slots
    <2>2. pub[p].nextSeq + 2 \in Nat /\ IsFrame(pub[p].nextSeq + 2)
      BY <1>2, RingOfPublisher DEF IsFrame
    <2> QED
      BY <2>1, <2>2
  <1>10. y \in RingRecords
    BY <1>7, <1>9, RingOfPublisher DEF RingRecords, Labels
  <1>11. /\ y.pc = "idle" /\ y.ring = pub[p].ring /\ y.fd = pub[p].fd
         /\ y.slotSize = pub[p].slotSize /\ y.error = pub[p].error
         /\ y.nextSeq = pub[p].nextSeq + 2
    BY <1>7, RingOfPublisher DEF RingRecords
  <1>12. RingOK(y)
    BY <1>2, <1>3, <1>9, <1>11, RingOfPublisher DEF RingOK, Creating, Holding
  <1>13. RingOK(y)' /\ MessageOK(m)'
    <2>1. RingOK(y)'
      BY <1>1, <1>12 DEF RingOK, Usable, Faults, Sizes, SlotSizeBytes
    <2>2. MessageOK(m)'
      BY <1>1, <1>6 DEF MessageOK, Usable, Faults, Sizes
    <2> QED
      BY <2>1, <2>2
  <1>14. /\ pub' \in [Publishers -> RingRecords] /\ pub'[p] = y
         /\ \A q \in Publishers \ {p} : pub'[q] = pub[q]
    BY <1>8, <1>10, RingReplaced, RingOfPublisher
  <1>15. PublisherOK(p)'
    BY <1>13, <1>14 DEF PublisherOK
  <1>16. ObjectsKept
    BY <1>1, RingOfPublisher DEF ObjectsKept
  <1>17. /\ object' \in Seq(ObjectRecords) /\ Len(object') <= MaxObjects
         /\ link' \in [Names -> 0..Len(object')]
    BY <1>1, RingOfPublisher DEF Shapes
  <1>18. \A o \in 1..Len(object') : ObjectOK(object'[o])
    BY <1>1 DEF LifecycleInv
  <1>19. inbox' \in [Readers -> SUBSET MessageRecords] /\ latest' \in SUBSET MessageRecords
    BY <1>1, <1>5
  <1>20. /\ \A r \in Readers : \A k \in inbox'[r] : MessageOK(k)'
         /\ \A k \in latest' : MessageOK(k)'
    BY <1>1, <1>13
  <1>21. \A q \in Publishers \ {p} : pub[q].pc \in Holding =>
            PhaseKept(pub[q].fd) /\ pub'[p].pc \notin Holding
    BY <1>1, <1>11, <1>14 DEF PhaseKept, Holding
  <1> QED
    BY <1>1, <1>14, <1>15, <1>16, <1>17, <1>18, <1>19, <1>20, <1>21, PublisherStepKeeps

--------------------------------------------------------------------------------
(* The publisher's process                                                  *)

LEMMA GoneRingIs ==
  ASSUME NEW y, y = [NoRing EXCEPT !.pc = "gone"]
  PROVE  /\ y \in RingRecords
         /\ y.pc = "gone" /\ y.ring = 0 /\ y.fd = 0 /\ y.nextSeq = 2 /\ y.error = "None"
  BY NoRingIs DEF RingRecords, Labels

\* A publisher without a ring is right about it.
LEMMA NoRingOK ==
  ASSUME LifecycleInv, NEW y \in RingRecords, y.pc \in {"idle", "gone"}, y.ring = 0,
         y.fd <= Len(object), y.error # "WriteFailed", IsFrame(y.nextSeq)
  PROVE  RingOK(y) /\ y.pc \notin Holding
  BY RingOfPublisher DEF RingOK, Creating, Holding, LifecycleInv, Shapes

LEMMA DestroyKeeps ==
  ASSUME LifecycleInv, NEW p \in Publishers, Destroy(p)
  PROVE  LifecycleInv'
  <1>1. PICK y : y = [NoRing EXCEPT !.pc = "gone"]
    OBVIOUS
  <1>2. RingOK(y) /\ y.pc \notin Holding /\ y \in RingRecords
    BY <1>1, GoneRingIs, NoRingOK, RingOfPublisher DEF IsFrame
  <1>3. pub' = [pub EXCEPT ![p] = y] /\ UNCHANGED <<config, object, readers>>
    BY <1>1 DEF Destroy
  <1>4. link' \in [Names -> 0..Len(object)]
    BY Unlinked DEF Destroy
  <1> QED
    BY <1>2, <1>3, <1>4, QuietStepKeeps

LEMMA PyCloseKeeps ==
  ASSUME LifecycleInv, NEW p \in Publishers, PyClose(p)
  PROVE  LifecycleInv'
  <1>1. PICK y : y = [pub[p] EXCEPT !.ring = 0, !.fd = 0]
    OBVIOUS
  <1>2. /\ y \in RingRecords /\ y.pc = "idle" /\ y.ring = 0 /\ y.fd = 0
        /\ y.nextSeq = pub[p].nextSeq /\ y.error = pub[p].error
    BY <1>1, RingOfPublisher DEF RingRecords, PyClose
  <1>3. y.error # "WriteFailed" /\ IsFrame(y.nextSeq)
    BY <1>2, RingOfPublisher DEF RingOK
  <1>4. RingOK(y) /\ y.pc \notin Holding
    BY <1>2, <1>3, NoRingOK, RingOfPublisher
  <1>5. pub' = [pub EXCEPT ![p] = y] /\ UNCHANGED <<config, object, readers>>
    BY <1>1 DEF PyClose
  <1>6. link' \in [Names -> 0..Len(object)]
    BY Unlinked DEF PyClose
  <1> QED
    BY <1>2, <1>4, <1>5, <1>6, QuietStepKeeps

LEMMA ReplacedKeeps ==
  ASSUME LifecycleInv, NEW p \in Publishers, Readvertise(p) \/ Restart(p)
  PROVE  LifecycleInv'
  <1>1. RingOK(NoRing) /\ NoRing.pc \notin Holding /\ NoRing \in RingRecords
    BY NoRingIs, NoRingOK, RingOfPublisher DEF IsFrame
  <1>2. pub' = [pub EXCEPT ![p] = NoRing] /\ UNCHANGED <<config, object, readers>>
    BY DEF Readvertise, Restart
  <1>3. link' \in [Names -> 0..Len(object)]
    BY Unlinked DEF Readvertise, Restart
  <1> QED
    BY <1>1, <1>2, <1>3, QuietStepKeeps

LEMMA CrashKeeps ==
  ASSUME LifecycleInv, NEW p \in Publishers, Crash(p)
  PROVE  LifecycleInv'
  <1> DEFINE o == pub[p].ring
             s == pub[p].nextSlot
             torn == [sequence |-> pub[p].nextSeq + 1, size |-> pub[p].size]
  <1>1. PICK y : y = [NoRing EXCEPT !.pc = "gone"]
    OBVIOUS
  <1>2. RingOK(y) /\ y.pc \notin Holding /\ y \in RingRecords /\ y.ring = 0
    <2>1. y \in RingRecords /\ y.pc = "gone" /\ y.ring = 0 /\ y.fd = 0 /\ y.nextSeq = 2
          /\ y.error = "None"
      BY <1>1, GoneRingIs
    <2>2. IsFrame(y.nextSeq) /\ y.fd <= Len(object)
      BY <2>1, RingOfPublisher DEF IsFrame
    <2> QED
      BY <2>1, <2>2, NoRingOK
  <1>3. pub' = [pub EXCEPT ![p] = y] /\ UNCHANGED <<config, link, readers>>
    BY <1>1 DEF Crash
  <1>4. CASE UNCHANGED object
    <2>1. link' \in [Names -> 0..Len(object)]
      BY <1>3, Unlinked
    <2> QED
      BY <1>2, <1>3, <1>4, <2>1, QuietStepKeeps
  <1>5. CASE /\ pub[p].pc = "write" /\ o # 0
             /\ object' = [object EXCEPT ![o].slot[s] = torn]
    <2>1. /\ o \in 1..Len(object) /\ object[o] \in ObjectRecords /\ ObjectOK(object[o])
          /\ object[o].phase # "empty"
      BY <1>5, OpenRing DEF Usable
    <2>2. pub[p].nextSeq <= MaxSequence /\ IsFrame(pub[p].nextSeq)
      BY <1>5, RingOfPublisher DEF RingOK
    <2>3. torn \in SlotRecords /\ ~IsFrame(torn.sequence)
      <3>1. pub[p].nextSeq + 1 \in 0..(MaxSequence + 1)
        BY <2>2, RingOfPublisher, ConfigTypes
      <3>2. ~IsFrame(pub[p].nextSeq + 1)
        BY <2>2, RingOfPublisher DEF IsFrame
      <3> QED
        BY <3>1, <3>2, RingOfPublisher DEF SlotRecords
    <2> HIDE DEF torn
    <2>4. PICK x : x = [object[o] EXCEPT !.slot[s] = torn]
      OBVIOUS
    <2>5. object' = [object EXCEPT ![o] = x]
      BY <1>5, <2>4
    <2>6. s \in Slots /\ object[o].slot \in [Slots -> SlotRecords]
      BY <2>1, RingOfPublisher DEF ObjectRecords
    <2>7. /\ x \in ObjectRecords /\ x.data = object[o].data
          /\ x.slot = [object[o].slot EXCEPT ![s] = torn]
          /\ x.phase = object[o].phase /\ x.slotSize = object[o].slotSize
      BY <2>1, <2>3, <2>4, <2>6 DEF ObjectRecords
    <2>8. \A t \in Slots : x.slot[t] = torn \/ x.slot[t] = object[o].slot[t]
      BY <2>6, <2>7
    <2>9. ASSUME NEW t \in Slots PROVE SlotHolds(x, t)
      <3>1. SlotHolds(object[o], t)
        BY <2>1 DEF ObjectOK
      <3>2. CASE x.slot[t] = torn
        BY <2>3, <3>2 DEF SlotHolds
      <3>3. CASE x.slot[t] = object[o].slot[t]
        BY <2>7, <3>1, <3>3 DEF SlotHolds
      <3> QED
        BY <2>8, <3>2, <3>3
    <2>10. ObjectOK(x)
      BY <2>1, <2>7, <2>9 DEF ObjectOK
    <2> QED
      BY <1>2, <1>3, <1>5, <2>5, <2>7, <2>10, RingStepKeeps DEF Holding
  <1> QED
    BY <1>4, <1>5 DEF Crash

LEMMA PublisherKeeps ==
  ASSUME LifecycleInv, NEW p \in Publishers, PublisherStep(p) \/ PublisherGoes(p)
  PROVE  LifecycleInv'
  BY PublishIntoRingKeeps, PublishOversizedKeeps, PublishCreatingKeeps, UnlinkKeeps,
     OpenExclusiveKeeps, TruncateKeeps, MapAndIdentifyKeeps, DescribeKeeps, WriteKeeps,
     SendKeeps, DestroyKeeps, PyCloseKeeps, ReplacedKeeps, CrashKeeps
  DEF PublisherStep, PublisherGoes

--------------------------------------------------------------------------------
(* The readers                                                              *)

LEMMA ReaderStepKeeps ==
  ASSUME LifecycleInv, UNCHANGED <<config, link, object, pub, latest>>,
         subscribed' \subseteq Readers,
         inbox' \in [Readers -> SUBSET MessageRecords],
         serving' \in [Readers -> SUBSET MessageRecords],
         \A r \in Readers : inbox'[r] \cup serving'[r] \subseteq inbox[r] \cup serving[r],
         handle' \in [Readers -> HandleRecords],
         \A r \in Readers : handle'[r].object <= Len(object),
         got' \in [Readers -> SUBSET DeliveryRecords],
         \A r \in Readers : \A g \in got'[r] :
            g \in got[r] \/ (MessageOK(g.of) /\ DeliveryOK(g))
  PROVE  LifecycleInv'
  <1>1. Shapes'
    BY DEF LifecycleInv, Shapes, MaxObjects
  <1>2. ASSUME NEW o \in 1..Len(object') PROVE ObjectOK(object[o])'
    BY DEF LifecycleInv, ObjectOK, SlotHolds, SlotSizeBytes
  <1>3. ASSUME NEW p \in Publishers PROVE PublisherOK(p)'
    <2>1. RingOK(pub[p])
      BY DEF LifecycleInv, PublisherOK
    <2>2. PICK x : x = pub[p]
      OBVIOUS
    <2>3. RingOK(x)'
      BY <2>1, <2>2 DEF RingOK, Usable, Faults, Sizes, SlotSizeBytes
    <2> QED
      BY <2>2, <2>3 DEF PublisherOK
  <1>4. ObjectsApart'
    BY DEF LifecycleInv, ObjectsApart
  <1>5. \A m : MessageOK(m) => MessageOK(m)'
    BY DEF MessageOK, Usable, Faults, Sizes
  <1>6. \A g : DeliveryOK(g) => DeliveryOK(g)'
    BY DEF DeliveryOK, SlotSizeBytes
  <1>7. ASSUME NEW r \in Readers
        PROVE  /\ \A m \in inbox'[r] \cup serving'[r] : MessageOK(m)'
               /\ handle'[r].object <= Len(object')
               /\ \A g \in got'[r] : MessageOK(g.of)' /\ DeliveryOK(g)'
    <2>1. \A m \in inbox'[r] \cup serving'[r] : MessageOK(m)'
      BY <1>5 DEF LifecycleInv
    <2>2. \A g \in got'[r] : MessageOK(g.of) /\ DeliveryOK(g)
      BY DEF LifecycleInv
    <2> QED
      BY <1>5, <1>6, <2>1, <2>2
  <1>8. \A m \in latest' : MessageOK(m)'
    BY <1>5 DEF LifecycleInv
  <1> QED
    BY <1>1, <1>2, <1>3, <1>4, <1>7, <1>8 DEF LifecycleInv

LEMMA ReaderTypes ==
  ASSUME LifecycleInv
  PROVE  /\ subscribed \subseteq Readers
         /\ inbox \in [Readers -> SUBSET MessageRecords]
         /\ serving \in [Readers -> SUBSET MessageRecords]
         /\ handle \in [Readers -> HandleRecords]
         /\ got \in [Readers -> SUBSET DeliveryRecords]
         /\ \A r \in Readers : handle[r].object <= Len(object)
         /\ ClosedHandle \in HandleRecords /\ ClosedHandle.object = 0
         /\ ClosedHandle.object <= Len(object)
  <1>1. ClosedHandle \in HandleRecords /\ ClosedHandle.object = 0
    BY DEF ClosedHandle, HandleRecords
  <1>2. 0 <= Len(object)
    BY DEF LifecycleInv, Shapes
  <1> QED
    BY <1>1, <1>2 DEF LifecycleInv, Shapes

LEMMA ReaderChangesKeep ==
  ASSUME LifecycleInv, NEW r \in Readers, ReaderChanges(r) \/ Lose(r) \/ Take(r)
  PROVE  LifecycleInv'
  <1>1. CASE Lose(r) \/ Take(r)
    <2>1. /\ inbox' \in [Readers -> SUBSET MessageRecords]
          /\ serving' \in [Readers -> SUBSET MessageRecords]
          /\ \A q \in Readers : inbox'[q] \cup serving'[q] \subseteq inbox[q] \cup serving[q]
      BY <1>1, ReaderTypes DEF Lose, Take
    <2>2. UNCHANGED <<config, link, object, pub, latest, subscribed, handle, got>>
      BY <1>1 DEF Lose, Take
    <2> QED
      BY <2>1, <2>2, ReaderTypes, ReaderStepKeeps
  <1>2. CASE ReaderChanges(r)
    <2>1. /\ subscribed' \subseteq Readers
          /\ UNCHANGED <<config, link, object, pub, latest, serving, got>>
          /\ inbox' \in {inbox, [inbox EXCEPT ![r] = {}]}
          /\ handle' = [handle EXCEPT ![r] = ClosedHandle]
      BY <1>2, ReaderTypes
      DEF ReaderChanges, CloseHandle, Subscribe, Resubscribe, Unsubscribe, NewSubscriber
    <2>2. /\ inbox' \in [Readers -> SUBSET MessageRecords]
          /\ \A q \in Readers : inbox'[q] \cup serving'[q] \subseteq inbox[q] \cup serving[q]
      BY <2>1, ReaderTypes
    <2>3. /\ handle' \in [Readers -> HandleRecords]
          /\ \A q \in Readers : handle'[q].object <= Len(object)
      BY <2>1, ReaderTypes
    <2> QED
      BY <2>1, <2>2, <2>3, ReaderTypes, ReaderStepKeeps
  <1> QED
    BY <1>1, <1>2

\* What open() returns is a handle, on an object that was created.
LEMMA OpenedIsHandle ==
  ASSUME LifecycleInv, NEW r \in Readers, NEW name \in Names
  PROVE  Opened(r, name) \in HandleRecords /\ Opened(r, name).object <= Len(object)
  <1>1. link[name] \in 0..Len(object) /\ Len(object) \in Nat
    BY DEF LifecycleInv, Shapes
  <1>2. ASSUME link[name] # 0
        PROVE  /\ Mapped(name, link[name]) \in HandleRecords
               /\ Mapped(name, link[name]).object <= Len(object)
    <2>1. object[link[name]] \in ObjectRecords /\ link[name] \in 1..Len(object)
      BY <1>1, <1>2 DEF LifecycleInv, Shapes
    <2>2. object[link[name]].slotSize \in Nat /\ SlotCount \in Nat
      BY <2>1, LifecycleAssumption DEF ObjectRecords
    <2>3. PICK o \in Nat : o = link[name] /\ o <= Len(object)
      BY <1>1, <2>1
    <2>4. \A k \in Nat, S \in Nat :
            [name |-> name, object |-> o, slotCount |-> k, slotSize |-> S] \in HandleRecords
      BY DEF HandleRecords
    <2>5. CASE object[o].phase = "ready"
      BY <2>2, <2>3, <2>4, <2>5 DEF Mapped
    <2>6. CASE object[o].phase # "ready"
      BY <2>3, <2>4, <2>6 DEF Mapped
    <2> QED
      BY <2>3, <2>5, <2>6
  <1>3. OpenAnew(r, name) \in HandleRecords /\ OpenAnew(r, name).object <= Len(object)
    BY <1>2, ReaderTypes DEF OpenAnew
  <1>4. handle[r] \in HandleRecords /\ handle[r].object <= Len(object)
    BY ReaderTypes
  <1> QED
    BY <1>3, <1>4 DEF Opened

\* What copy_payload accepts is one frame: the data the metadata names lie in a
\* slot that carries the number of the frame.
LEMMA AcceptedIsFrame ==
  ASSUME LifecycleInv, NEW h \in HandleRecords, h.object <= Len(object),
         NEW m \in MessageRecords, MessageOK(m), Acceptable(h, m),
         NEW g, g = [of |-> m, bytes |-> BytesRead(h, m)]
  PROVE  g \in DeliveryRecords /\ MessageOK(g.of) /\ DeliveryOK(g)
  <1> DEFINE o == h.object
             S == object[o].slotSize
             units == (m.offset + 1)..(m.offset + m.size)
  <1>1. /\ o \in 1..Len(object) /\ object[o] \in ObjectRecords /\ ObjectOK(object[o])
        /\ Len(object) \in Nat
    <2>1. h.object \in Nat /\ Len(object) \in Nat /\ h.object # 0
      <3>1. h.object \in Nat
        BY DEF HandleRecords
      <3>2. Len(object) \in Nat
        BY DEF LifecycleInv, Shapes
      <3> QED
        BY <3>1, <3>2 DEF Acceptable
    <2>2. o \in 1..Len(object)
      BY <2>1
    <2> QED
      BY <2>1, <2>2 DEF LifecycleInv, Shapes
  <1>2. /\ m.slot \in Slots /\ m.size \in Nat /\ m.offset \in Nat /\ m.sequence \in Nat
        /\ IsFrame(m.sequence)
    BY DEF MessageRecords, MessageOK
  <1>3. /\ object[o].slot[m.slot].sequence = m.sequence
        /\ object[o].slot[m.slot].size = m.size
        /\ m.offset + m.size <= Len(object[o].data)
    BY DEF Acceptable
  <1>4. \A u \in UnitsOf(m.slot, S, m.size) : object[o].data[u] = m.sequence
    BY <1>1, <1>2, <1>3 DEF ObjectOK, SlotHolds
  <1>5. \A u \in units : object[o].data[u] \in Nat
    <2>1. object[o].data \in Seq(Nat)
      BY <1>1 DEF ObjectRecords
    <2>2. \A u \in units : u \in 1..Len(object[o].data)
      BY <1>2, <1>3, <2>1
    <2> QED
      BY <2>1, <2>2
  <1>6. g.of = m /\ g.bytes = {<<o, object[o].data[u]>> : u \in units}
    BY DEF BytesRead
  <1>7. o \in Nat
    BY <1>1
  <1>8. g \in DeliveryRecords
    <2>1. g.bytes \in SUBSET (Nat \X Nat)
      BY <1>5, <1>6, <1>7
    <2>2. g = [of |-> m, bytes |-> g.bytes]
      BY <1>6
    <2> QED
      BY <2>1, <2>2 DEF DeliveryRecords
  <1>9. ASSUME m.offset = m.slot * S
        PROVE  \A b \in g.bytes : b = <<o, m.sequence>>
    <2>1. units = UnitsOf(m.slot, S, m.size)
      BY <1>9 DEF UnitsOf
    <2> QED
      BY <1>4, <1>6, <2>1
  <1>10. \A b \in g.bytes : b[1] = o
    BY <1>6
  <1>11. \A b \in g.bytes : b[1] = g.of.object => b[2] = g.of.sequence
    <2> SUFFICES ASSUME NEW b \in g.bytes, b[1] = m.object PROVE b[2] = m.sequence
      BY <1>6
    <2>1. o = m.object
      BY <1>10
    <2>2. m.offset = m.slot * S
      BY <2>1 DEF MessageOK
    <2> QED
      BY <1>9, <2>2
  <1>12. ASSUME SlotSizeBytes # 0 PROVE g.bytes \subseteq {<<o, m.sequence>>}
    <2>1. object[o].phase # "empty"
      BY <1>1, <1>2, <1>3 DEF ObjectOK, IsFrame
    <2>2. S = SlotSizeBytes
      BY <1>1, <1>12, <2>1 DEF ObjectOK
    <2>3. object[m.object].slotSize = SlotSizeBytes
      BY <1>12 DEF MessageOK, Usable, LifecycleInv, ObjectOK
    <2>4. m.offset = m.slot * S
      BY <2>2, <2>3 DEF MessageOK
    <2> QED
      BY <1>9, <2>4
  <1>13. DeliveryOK(g)
    BY <1>1, <1>6, <1>11, <1>12 DEF DeliveryOK
  <1> QED
    BY <1>6, <1>8, <1>13

LEMMA CallbackKeeps ==
  ASSUME LifecycleInv, NEW r \in Readers, Callback(r)
  PROVE  LifecycleInv'
  <1>1. PICK m \in serving[r] :
          LET h == Opened(r, m.name) IN
          /\ handle' = [handle EXCEPT ![r] = h]
          /\ got' = [got EXCEPT ![r] =
                       IF Acceptable(h, m) THEN {[of |-> m, bytes |-> BytesRead(h, m)]} ELSE @]
          /\ serving' = [serving EXCEPT ![r] = {}]
          /\ UNCHANGED <<config, link, object, pub, subscribed, inbox, latest>>
    BY DEF Callback
  <1>2. PICK h : h = Opened(r, m.name)
    OBVIOUS
  <1>3. m \in MessageRecords /\ MessageOK(m) /\ m.name \in Names
    <2>1. m \in MessageRecords /\ MessageOK(m)
      BY ReaderTypes DEF LifecycleInv
    <2> QED
      BY <2>1 DEF MessageRecords
  <1>4. h \in HandleRecords /\ h.object <= Len(object)
    BY <1>2, <1>3, OpenedIsHandle
  <1>5. PICK g : g = [of |-> m, bytes |-> BytesRead(h, m)]
    OBVIOUS
  <1>6. /\ handle' \in [Readers -> HandleRecords]
        /\ \A q \in Readers : handle'[q].object <= Len(object)
    BY <1>1, <1>2, <1>4, ReaderTypes
  <1>7. /\ serving' \in [Readers -> SUBSET MessageRecords]
        /\ \A q \in Readers : inbox'[q] \cup serving'[q] \subseteq inbox[q] \cup serving[q]
    BY <1>1, ReaderTypes
  <1>8. Acceptable(h, m) => g \in DeliveryRecords /\ MessageOK(g.of) /\ DeliveryOK(g)
    BY <1>3, <1>4, <1>5, AcceptedIsFrame
  <1>9. got' = [got EXCEPT ![r] = IF Acceptable(h, m) THEN {g} ELSE @]
    BY <1>1, <1>2, <1>5
  <1>10. /\ got' \in [Readers -> SUBSET DeliveryRecords]
         /\ \A q \in Readers : \A k \in got'[q] :
               k \in got[q] \/ (MessageOK(k.of) /\ DeliveryOK(k))
    BY <1>8, <1>9, ReaderTypes
  <1> QED
    BY <1>1, <1>6, <1>7, <1>10, ReaderTypes, ReaderStepKeeps

--------------------------------------------------------------------------------
(* Theorems                                                                 *)

LEMMA Inductive == Spec => []LifecycleInv
  <1>1. LifecycleInv /\ [Next]_vars => LifecycleInv'
    <2> SUFFICES ASSUME LifecycleInv, [Next]_vars PROVE LifecycleInv'
      OBVIOUS
    <2>1. ASSUME NEW p \in Publishers, PublisherStep(p) \/ PublisherGoes(p)
          PROVE  LifecycleInv'
      BY <2>1, PublisherKeeps
    <2>2. ASSUME NEW r \in Readers, ReaderStep(r) \/ ReaderChanges(r) \/ Lose(r)
          PROVE  LifecycleInv'
      BY <2>2, CallbackKeeps, ReaderChangesKeep DEF ReaderStep
    <2>3. CASE UNCHANGED vars
      <3>1. UNCHANGED <<config, link, object, pub, latest, subscribed, inbox, serving, handle, got>>
        BY <2>3 DEF vars
      <3> QED
        BY <3>1, ReaderTypes, ReaderStepKeeps
    <2> QED
      BY <2>1, <2>2, <2>3 DEF Next
  <1> QED
    BY <1>1, Initially, PTL DEF Spec

\* Every variable has its type: links, messages and handles name objects that were
\* created, cursors stay in the ring, data are as long as the layout says.
THEOREM TypeCorrect == Spec => []TypeOK
  <1>1. LifecycleInv => TypeOK
    <2> SUFFICES ASSUME LifecycleInv PROVE TypeOK
      OBVIOUS
    <2>1. \A m : m \in MessageRecords /\ MessageOK(m) =>
            /\ m.name \in Names /\ m.object \in 1..Len(object)
            /\ m.slot \in Slots /\ m.size \in Sizes
      BY DEF MessageRecords, MessageOK, Usable
    <2>2. Messages(latest)
      BY <2>1 DEF Messages, LifecycleInv, Shapes
    <2>3. ASSUME NEW r \in Readers
          PROVE  /\ Messages(inbox[r]) /\ Messages(serving[r])
                 /\ Messages({g.of : g \in got[r]})
                 /\ handle[r].object \in 0..Len(object)
      <3>1. Messages(inbox[r]) /\ Messages(serving[r])
        BY <2>1, ReaderTypes DEF Messages, LifecycleInv
      <3>2. \A g \in got[r] : g.of \in MessageRecords /\ MessageOK(g.of)
        BY ReaderTypes DEF LifecycleInv, DeliveryRecords
      <3>3. Messages({g.of : g \in got[r]})
        BY <2>1, <3>2 DEF Messages
      <3>4. handle[r].object \in Nat /\ handle[r].object <= Len(object) /\ Len(object) \in Nat
        <4>1. handle[r] \in HandleRecords /\ handle[r].object <= Len(object)
          BY ReaderTypes
        <4>2. handle[r].object \in Nat
          BY <4>1 DEF HandleRecords
        <4>3. Len(object) \in Nat
          BY DEF LifecycleInv, Shapes
        <4> QED
          BY <4>1, <4>2, <4>3
      <3> QED
        BY <3>1, <3>3, <3>4
    <2>4. ASSUME NEW o \in 1..Len(object)
          PROVE  /\ object[o].phase \in Phases
                 /\ \A s \in Slots : object[o].slot[s].sequence \in 0..(MaxSequence + 1)
                 /\ Len(object[o].data) = SlotCount * object[o].slotSize
      <3>1. object[o] \in ObjectRecords /\ ObjectOK(object[o])
        BY DEF LifecycleInv, Shapes
      <3>2. object[o].phase \in Phases /\ object[o].slot \in [Slots -> SlotRecords]
        BY <3>1 DEF ObjectRecords
      <3>3. \A s \in Slots : object[o].slot[s].sequence \in 0..(MaxSequence + 1)
        BY <3>2 DEF SlotRecords
      <3> QED
        BY <3>1, <3>2, <3>3 DEF ObjectOK
    <2>5. ASSUME NEW p \in Publishers
          PROVE  /\ pub[p].pc \in Labels /\ pub[p].error \in Errors
                 /\ {pub[p].ring, pub[p].fd} \subseteq 0..Len(object)
                 /\ pub[p].nextSlot \in Slots
      <3>1. pub[p].pc \in Labels /\ pub[p].error \in Errors
        BY RingOfPublisher DEF RingRecords
      <3>2. pub[p].ring \in 0..Len(object) /\ pub[p].fd \in 0..Len(object)
        BY RingOfPublisher DEF RingOK
      <3> QED
        BY <3>1, <3>2, RingOfPublisher
    <2>6. /\ link \in [Names -> 0..Len(object)] /\ Len(object) <= MaxObjects
          /\ subscribed \subseteq Readers
      BY DEF LifecycleInv, Shapes
    <2> QED
      BY <2>2, <2>3, <2>4, <2>5, <2>6 DEF TypeOK, Labels, Errors
  <1> QED
    BY <1>1, Inductive, PTL

\* write() never refuses what ensure_buffer let pass, whatever errors, crashes and
\* resizes came before.
THEOREM WritesSucceed == Spec => []WriteNeverFails
  <1>1. LifecycleInv => WriteNeverFails
    BY RingOfPublisher DEF WriteNeverFails, RingOK
  <1> QED
    BY <1>1, Inductive, PTL

\* Metadata is sent only for a ring whose header is complete, and it stays complete
\* for ever, unless memory may run out in a Python publisher.
THEOREM AnnouncedRingsAreReadable == Spec => []AnnouncedRingIsReadable
  <1>1. LifecycleInv => AnnouncedRingIsReadable
    BY DEF AnnouncedRingIsReadable, LifecycleInv, MessageOK, Usable
  <1> QED
    BY <1>1, Inductive, PTL

\* A reader that maps the object a message was published from is given the frame
\* the message selected, or none.
THEOREM SameObjectIsEnough == Spec => []SameObjectSameFrame
  <1>1. LifecycleInv => SameObjectSameFrame
    BY DEF SameObjectSameFrame, LifecycleInv, DeliveryOK
  <1> QED
    BY <1>1, Inductive, PTL

\* With a configured slot size a callback never gets bytes of two frames, also when
\* the handle maps another object than the message means.
THEOREM FramesAreWhole == Spec => []DeliveredIsOneFrame
  <1>1. LifecycleInv => DeliveredIsOneFrame
    BY DEF DeliveredIsOneFrame, LifecycleInv, DeliveryOK
  <1> QED
    BY <1>1, Inductive, PTL

--------------------------------------------------------------------------------
(* The names                                                                *)

LEMMA LinkStepKeeps ==
  ASSUME NamesAreOwn, LifecycleInv, LinkInv, NEW p \in Publishers, config' = config,
         NEW y, pub' = [pub EXCEPT ![p] = y],
         \A n \in Names : n # NameOf[p] => link'[n] = link[n],
         LinkRight(y, link'[NameOf[p]])
  PROVE  LinkInv'
  <1>1. DOMAIN pub = Publishers
    BY RingOfPublisher DEF Shapes
  <1>2. \A x, l : LinkRight(x, l) => LinkRight(x, l)'
    BY DEF LinkRight, Faults
  <1>3. ASSUME NEW q \in Publishers PROVE LinkOK(q)'
    <2>1. CASE q = p
      <3>1. pub'[q] = y
        BY <1>1, <2>1
      <3> QED
        BY <1>2, <2>1, <3>1 DEF LinkOK
    <2>2. CASE q # p
      <3>1. pub'[q] = pub[q]
        BY <1>1, <2>2
      <3>2. link'[NameOf[q]] = link[NameOf[q]]
        BY <2>2, LifecycleAssumption DEF NamesAreOwn
      <3>3. LinkRight(pub[q], link[NameOf[q]])
        BY DEF LinkInv, LinkOK
      <3> QED
        BY <1>2, <3>1, <3>2, <3>3 DEF LinkOK
    <2> QED
      BY <2>1, <2>2
  <1> QED
    BY <1>3 DEF LinkInv

\* The name stays linked as it is, and so does what the publisher knows of it.
LEMMA LinkUntouched ==
  ASSUME NamesAreOwn, LifecycleInv, LinkInv, NEW p \in Publishers,
         UNCHANGED <<config, link>>,
         NEW y, pub' = [pub EXCEPT ![p] = y],
         y.ring \in {pub[p].ring, 0} \/ (pub[p].pc \in Holding /\ y.ring = pub[p].fd),
         y.named = pub[p].named,
         y.pc \in Creating => pub[p].pc \in Creating,
         y.pc \in Holding => pub[p].pc \in Holding /\ y.fd = pub[p].fd,
         y.pc # "gone"
  PROVE  LinkInv'
  <1>1. LinkRight(pub[p], link[NameOf[p]])
    BY DEF LinkInv, LinkOK
  <1>2. LinkRight(y, link[NameOf[p]])
    BY <1>1 DEF LinkRight
  <1> QED
    BY <1>2, LinkStepKeeps

LEMMA LinkCreateFails ==
  ASSUME NamesAreOwn, LifecycleInv, LinkInv, NEW p \in Publishers, CreateFails(p),
         UNCHANGED <<config, link>>
  PROVE  LinkInv'
  <1>1. PICK y : y = [pub[p] EXCEPT !.pc = "idle", !.error = "CreateFailed",
                                    !.fd = KeptOpen(p)]
    OBVIOUS
  <1>2. y.pc = "idle" /\ y.ring = pub[p].ring /\ y.named = pub[p].named
    BY <1>1, RingOfPublisher DEF RingRecords
  <1>3. pub' = [pub EXCEPT ![p] = y]
    BY <1>1 DEF CreateFails
  <1> QED
    BY <1>2, <1>3, LinkUntouched DEF Creating, Holding

LEMMA LinkPublisherSteps ==
  ASSUME NamesAreOwn, LifecycleInv, LinkInv, NEW p \in Publishers, PublisherStep(p)
  PROVE  LinkInv'
  <1>0. LinkRight(pub[p], link[NameOf[p]])
    BY DEF LinkInv, LinkOK
  <1>1. ASSUME NEW size \in Sizes, PublishIntoRing(p, size) \/ PublishOversized(p, size)
        PROVE  LinkInv'
    <2>1. PICK y : y \in {[pub[p] EXCEPT !.pc = "write", !.size = size, !.error = "None"],
                          [pub[p] EXCEPT !.error = "Oversized"]}
                   /\ pub' = [pub EXCEPT ![p] = y]
      BY <1>1 DEF PublishIntoRing, PublishOversized
    <2>2. y.pc \in {"write", "idle"} /\ y.ring = pub[p].ring /\ y.named = pub[p].named
      BY <1>1, <2>1, RingOfPublisher DEF RingRecords, PublishIntoRing, PublishOversized
    <2>3. UNCHANGED <<config, link>>
      BY <1>1 DEF PublishIntoRing, PublishOversized
    <2> QED
      BY <2>1, <2>2, <2>3, LinkUntouched DEF Creating, Holding
  <1>2. ASSUME NEW size \in Sizes, PublishCreating(p, size) PROVE LinkInv'
    <2>1. PICK y : y = [NoRing EXCEPT !.pc = "unlink", !.named = TRUE,
                                      !.slotSize = WantedSlotSize(size), !.size = size]
      OBVIOUS
    <2>2. y.pc = "unlink" /\ y.ring = 0 /\ y.named
      BY <2>1 DEF NoRing
    <2>3. pub' = [pub EXCEPT ![p] = y] /\ UNCHANGED <<config, link>>
      BY <1>2, <2>1 DEF PublishCreating
    <2>4. LinkRight(y, link'[NameOf[p]])
      BY <2>2 DEF LinkRight, Holding, Creating
    <2> QED
      BY <2>3, <2>4, LinkStepKeeps
  <1>3. CASE Unlink(p)
    <2>1. PICK y : y = [pub[p] EXCEPT !.pc = "open"]
      OBVIOUS
    <2>2. y.pc = "open" /\ y.ring = pub[p].ring /\ y.named = pub[p].named
      BY <2>1, RingOfPublisher DEF RingRecords
    <2>3. pub[p].ring = 0 /\ pub[p].named
      BY <1>0, <1>3, RingOfPublisher DEF Unlink, RingOK, Creating, LinkRight
    <2>4. /\ pub' = [pub EXCEPT ![p] = y] /\ config' = config
          /\ \A n \in Names : n # NameOf[p] => link'[n] = link[n]
      BY <1>3, <2>1, Unlinked DEF Unlink
    <2>5. LinkRight(y, link'[NameOf[p]])
      BY <2>2, <2>3 DEF LinkRight, Holding, Creating
    <2> QED
      BY <2>4, <2>5, LinkStepKeeps
  <1>4. CASE OpenExclusive(p)
    <2>1. CASE CreateFails(p) /\ UNCHANGED <<link, object>>
      BY <1>4, <2>1, LinkCreateFails DEF OpenExclusive
    <2>2. CASE /\ link' = [link EXCEPT ![NameOf[p]] = Len(object')]
               /\ pub' = [pub EXCEPT ![p].pc = "truncate", ![p].fd = Len(object')]
      <3>1. PICK y : y = [pub[p] EXCEPT !.pc = "truncate", !.fd = Len(object')]
        OBVIOUS
      <3>2. /\ y.pc = "truncate" /\ y.ring = pub[p].ring /\ y.named = pub[p].named
            /\ y.fd = Len(object')
        BY <3>1, RingOfPublisher DEF RingRecords
      <3>3. pub[p].ring = 0 /\ pub[p].named
        BY <1>0, <1>4, RingOfPublisher DEF OpenExclusive, RingOK, Creating, LinkRight
      <3>4. /\ link'[NameOf[p]] = Len(object')
            /\ \A n \in Names : n # NameOf[p] => link'[n] = link[n]
        BY <2>2, Unlinked, LifecycleAssumption
      <3>5. pub' = [pub EXCEPT ![p] = y] /\ config' = config
        BY <1>4, <2>2, <3>1 DEF OpenExclusive
      <3>6. LinkRight(y, link'[NameOf[p]])
        BY <3>2, <3>3, <3>4 DEF LinkRight
      <3> QED
        BY <3>4, <3>5, <3>6, LinkStepKeeps
    <2> QED
      BY <1>4, <2>1, <2>2 DEF OpenExclusive
  <1>5. CASE Truncate(p) \/ MapAndIdentify(p)
    <2>1. CASE CreateFails(p)
      BY <1>5, <2>1, LinkCreateFails DEF Truncate, MapAndIdentify
    <2>2. CASE \E label \in {"map", "describe"} : pub' = [pub EXCEPT ![p].pc = label]
      <3>1. PICK label \in {"map", "describe"} : pub' = [pub EXCEPT ![p].pc = label]
        BY <2>2
      <3>2. PICK y : y = [pub[p] EXCEPT !.pc = label]
        OBVIOUS
      <3>3. y.pc = label /\ y.ring = pub[p].ring /\ y.named = pub[p].named /\ y.fd = pub[p].fd
        BY <3>2, RingOfPublisher DEF RingRecords
      <3>4. /\ pub' = [pub EXCEPT ![p] = y] /\ UNCHANGED <<config, link>>
            /\ pub[p].pc \in {"truncate", "map"}
        BY <1>5, <3>1, <3>2 DEF Truncate, MapAndIdentify
      <3> QED
        BY <3>3, <3>4, LinkUntouched DEF Creating, Holding
    <2>3. CASE PyZeroingFails(p) /\ pub[p].pc = "map"
      <3>1. PICK y : y = [pub[p] EXCEPT !.pc = "idle", !.error = "CreateFailed",
                                        !.ring = pub[p].fd]
        OBVIOUS
      <3>2. y.pc = "idle" /\ y.ring = pub[p].fd /\ y.named = pub[p].named
        BY <3>1, RingOfPublisher DEF RingRecords
      <3>3. pub' = [pub EXCEPT ![p] = y] /\ UNCHANGED <<config, link>>
        BY <1>5, <2>3, <3>1 DEF PyZeroingFails, Truncate, MapAndIdentify
      <3> QED
        BY <2>3, <3>2, <3>3, LinkUntouched DEF Creating, Holding
    <2> QED
      BY <1>5, <2>1, <2>2, <2>3 DEF Truncate, MapAndIdentify
  <1>6. CASE Describe(p)
    <2>1. PICK y : y = [pub[p] EXCEPT !.pc = "write", !.ring = pub[p].fd, !.fd = 0]
      OBVIOUS
    <2>2. y.pc = "write" /\ y.ring = pub[p].fd /\ y.named = pub[p].named
      BY <2>1, RingOfPublisher DEF RingRecords
    <2>3. /\ pub' = [pub EXCEPT ![p] = y] /\ UNCHANGED <<config, link>>
          /\ pub[p].pc = "describe"
      BY <1>6, <2>1 DEF Describe
    <2> QED
      BY <2>2, <2>3, LinkUntouched DEF Creating, Holding
  <1>7. CASE Write(p) \/ Send(p)
    <2>1. PICK y : y \in {[pub[p] EXCEPT !.pc = "send"],
                          [pub[p] EXCEPT !.pc = "idle", !.error = "WriteFailed"],
                          [pub[p] EXCEPT !.pc = "idle", !.nextSlot = FollowingSlot(@),
                                         !.nextSeq = @ + 2]}
                   /\ pub' = [pub EXCEPT ![p] = y]
      BY <1>7 DEF Write, Send
    <2>2. y.pc \in {"send", "idle"} /\ y.ring = pub[p].ring /\ y.named = pub[p].named
      BY <2>1, RingOfPublisher DEF RingRecords
    <2>3. UNCHANGED <<config, link>>
      BY <1>7 DEF Write, Send
    <2> QED
      BY <2>1, <2>2, <2>3, LinkUntouched DEF Creating, Holding
  <1> QED
    BY <1>1, <1>2, <1>3, <1>4, <1>5, <1>6, <1>7 DEF PublisherStep

LEMMA LinkPublisherGoes ==
  ASSUME NamesAreOwn, LifecycleInv, LinkInv, NEW p \in Publishers, PublisherGoes(p)
  PROVE  LinkInv'
  <1>0. LinkRight(pub[p], link[NameOf[p]])
    BY DEF LinkInv, LinkOK
  <1>1. /\ config' = config
        /\ \A n \in Names : n # NameOf[p] => link'[n] = link[n]
    BY Unlinked DEF PublisherGoes, Destroy, PyClose, Readvertise, Crash, Restart
  <1>2. CASE Destroy(p) \/ Readvertise(p) \/ Crash(p) \/ Restart(p)
    <2>1. PICK y : y \in {NoRing, [NoRing EXCEPT !.pc = "gone"]}
                   /\ pub' = [pub EXCEPT ![p] = y]
      BY <1>2 DEF Destroy, Readvertise, Crash, Restart
    <2>2. y.pc \in {"idle", "gone"} /\ y.ring = 0 /\ ~y.named
      BY <2>1 DEF NoRing
    <2>3. "crash" \notin Faults => link'[NameOf[p]] = 0
      <3>1. CASE Destroy(p) \/ Readvertise(p)
        <4>1. CASE pub[p].named
          BY <3>1, <4>1, Unlinked, LifecycleAssumption DEF Destroy, Readvertise
        <4>2. CASE ~pub[p].named
          BY <1>0, <3>1, <4>2 DEF Destroy, Readvertise, LinkRight
        <4> QED
          BY <4>1, <4>2
      <3>2. CASE Crash(p)
        BY <3>2 DEF Crash
      <3>3. CASE Restart(p)
        BY <1>0, <3>3 DEF Restart, LinkRight
      <3> QED
        BY <1>2, <3>1, <3>2, <3>3
    <2>4. LinkRight(y, link'[NameOf[p]])
      BY <2>2, <2>3 DEF LinkRight, Holding, Creating
    <2> QED
      BY <1>1, <2>1, <2>4, LinkStepKeeps
  <1>3. CASE PyClose(p)
    <2>1. PICK y : y = [pub[p] EXCEPT !.ring = 0, !.fd = 0]
      OBVIOUS
    <2>2. y.pc = "idle" /\ y.ring = 0 /\ y.named = pub[p].named
      BY <1>3, <2>1, RingOfPublisher DEF RingRecords, PyClose
    <2>3. "crash" \notin Faults /\ ~y.named => link'[NameOf[p]] = 0
      BY <1>0, <1>3, <2>2 DEF PyClose, LinkRight
    <2>4. LinkRight(y, link'[NameOf[p]])
      BY <2>2, <2>3 DEF LinkRight, Holding, Creating
    <2>5. pub' = [pub EXCEPT ![p] = y]
      BY <1>3, <2>1 DEF PyClose
    <2> QED
      BY <1>1, <2>4, <2>5, LinkStepKeeps
  <1> QED
    BY <1>2, <1>3 DEF PublisherGoes

LEMMA LinkInductive == ASSUME NamesAreOwn PROVE Spec => []LinkInv
  <1>1. Init => LinkInv
    <2> SUFFICES ASSUME Init, NEW p \in Publishers PROVE LinkOK(p)
      BY DEF LinkInv
    <2>1. pub[p] = NoRing /\ link[NameOf[p]] = 0
      BY LifecycleAssumption DEF Init
    <2>2. NoRing.pc = "idle" /\ NoRing.ring = 0
      BY NoRingIs
    <2> QED
      BY <2>1, <2>2 DEF LinkOK, LinkRight, Holding, Creating
  <1>2. LifecycleInv /\ LinkInv /\ [Next]_vars => LinkInv'
    <2> SUFFICES ASSUME LifecycleInv, LinkInv, [Next]_vars PROVE LinkInv'
      OBVIOUS
    <2>1. ASSUME NEW p \in Publishers, PublisherStep(p) \/ PublisherGoes(p)
          PROVE  LinkInv'
      BY <2>1, LinkPublisherSteps, LinkPublisherGoes
    <2>2. ASSUME UNCHANGED <<config, link, pub>> PROVE LinkInv'
      BY <2>2 DEF LinkInv, LinkOK, LinkRight, Faults
    <2>3. ASSUME NEW r \in Readers, ReaderStep(r) \/ ReaderChanges(r) \/ Lose(r)
          PROVE  UNCHANGED <<config, link, pub>>
      BY <2>3 DEF ReaderStep, Take, Callback, ReaderChanges, CloseHandle, Subscribe,
                  Resubscribe, Unsubscribe, NewSubscriber, Lose
    <2>4. CASE UNCHANGED vars
      BY <2>2, <2>4 DEF vars
    <2> QED
      BY <2>1, <2>2, <2>3, <2>4 DEF Next
  <1> QED
    BY <1>1, <1>2, Inductive, PTL DEF Spec

\* The ring a publisher writes to is the object its name is linked to, whatever
\* create errors, crashes and restarts there are, if no two publishers share a name.
THEOREM RingsStayLinked == ASSUME NamesAreOwn PROVE Spec => []RingIsLinked
  <1>1. LinkInv => RingIsLinked
    BY DEF LinkInv, LinkOK, LinkRight, RingIsLinked
  <1> QED
    BY <1>1, LinkInductive, PTL

\* A publisher that is destroyed leaves nothing in /dev/shm, unless processes die.
THEOREM NothingIsLeft == ASSUME NamesAreOwn PROVE Spec => []DestroyedLeavesNoName
  <1>1. LinkInv => DestroyedLeavesNoName
    BY DEF LinkInv, LinkOK, LinkRight, DestroyedLeavesNoName
  <1> QED
    BY <1>1, LinkInductive, PTL

--------------------------------------------------------------------------------
(* A publisher that keeps its ring                                          *)

\* Nothing goes wrong but creating, and what is lost; a ring does not grow.
Steady == Faults \subseteq {"create_error", "loss"} /\ ~AllowResize

\* An object that is the ring of a publisher with this name.
IsRingOf(o, name) == \E p \in Publishers : NameOf[p] = name /\ pub[p].ring = o

SteadyInv ==
  Steady =>
    \A r \in Readers :
      /\ \A m \in inbox[r] \cup serving[r] : IsRingOf(m.object, m.name)
      /\ handle[r].object # 0 =>
           handle[r].slotCount # 0 /\ IsRingOf(handle[r].object, handle[r].name)
      /\ \A g \in got[r] : g.bytes \subseteq {<<g.of.object, g.of.sequence>>}

\* A steady publisher that has a ring keeps it.
LEMMA RingsStay ==
  ASSUME LifecycleInv, Steady, NEW p \in Publishers, PublisherStep(p) \/ PublisherGoes(p)
  PROVE  \A q \in Publishers : pub[q].ring # 0 => pub'[q].ring = pub[q].ring
  <1>1. /\ pub \in [Publishers -> RingRecords] /\ pub[p] \in RingRecords
        /\ pub[p].pc \in Creating => pub[p].ring = 0
    BY RingOfPublisher DEF Shapes, RingOK
  <1>2. ~PublisherGoes(p)
    BY DEF Steady, PublisherGoes, Destroy, PyClose, Readvertise, Crash, Restart
  <1>3. CASE pub[p].ring = 0
    <2>1. PICK y : pub' = pub \/ pub' = [pub EXCEPT ![p] = y]
      <3>1. CASE \E size \in Sizes : PublishIntoRing(p, size) \/ PublishOversized(p, size)
                                    \/ PublishCreating(p, size)
        BY <3>1 DEF PublishIntoRing, PublishOversized, PublishCreating
      <3>2. CASE Unlink(p) \/ OpenExclusive(p)
        BY <3>2 DEF Unlink, OpenExclusive, CreateFails
      <3>3. CASE Truncate(p) \/ MapAndIdentify(p) \/ Describe(p)
        BY <3>3 DEF Truncate, MapAndIdentify, Describe, CreateFails, PyZeroingFails
      <3>4. CASE Write(p) \/ Send(p)
        BY <3>4 DEF Write, Send
      <3> QED
        BY <1>2, <3>1, <3>2, <3>3, <3>4 DEF PublisherStep
    <2>2. \A q \in Publishers : q # p => pub'[q] = pub[q]
      BY <1>1, <2>1
    <2> QED
      BY <1>3, <2>2
  <1>4. CASE pub[p].ring # 0
    <2>1. \A size \in Sizes : ~PublishCreating(p, size)
      BY <1>4 DEF PublishCreating, Refused, Steady
    <2>2. ~(Unlink(p) \/ OpenExclusive(p) \/ Truncate(p) \/ MapAndIdentify(p) \/ Describe(p))
      BY <1>1, <1>4
      DEF Unlink, OpenExclusive, Truncate, MapAndIdentify, Describe, Creating
    <2>3. CASE \E size \in Sizes : PublishIntoRing(p, size) \/ PublishOversized(p, size)
      <3>1. PICK size \in Sizes : pub' \in {
                [pub EXCEPT ![p] = [@ EXCEPT !.pc = "write", !.size = size, !.error = "None"]],
                [pub EXCEPT ![p] = [@ EXCEPT !.error = "Oversized"]]}
        BY ZenonT(60), <2>3, <1>1 DEF PublishIntoRing, PublishOversized, RingRecords
      <3>2. PICK y : /\ y \in {[pub[p] EXCEPT !.pc = "write", !.size = size, !.error = "None"],
                               [pub[p] EXCEPT !.error = "Oversized"]}
                     /\ pub' = [pub EXCEPT ![p] = y]
        BY <3>1, <1>1
      <3>3. y.ring = pub[p].ring
        BY <3>2, <1>1 DEF RingRecords
      <3> QED
        BY <3>2, <3>3, <1>1
    <2>4. CASE Write(p) \/ Send(p)
      <3>1. PICK y : y \in {[pub[p] EXCEPT !.pc = "send"],
                            [pub[p] EXCEPT !.pc = "idle", !.error = "WriteFailed"],
                            [pub[p] EXCEPT !.pc = "idle", !.nextSlot = FollowingSlot(@),
                                           !.nextSeq = @ + 2]}
                     /\ pub' = [pub EXCEPT ![p] = y]
        BY <2>4 DEF Write, Send
      <3>2. y.ring = pub[p].ring
        BY <3>1, <1>1 DEF RingRecords
      <3> QED
        BY <3>1, <3>2, <1>1
    <2> QED
      BY <1>2, <2>1, <2>2, <2>3, <2>4 DEF PublisherStep
  <1> QED
    BY <1>3, <1>4

\* The readers are as they were, the rings too.
LEMMA SteadyStays ==
  ASSUME LifecycleInv, SteadyInv, config' = config, UNCHANGED <<serving, handle, got>>,
         \A p \in Publishers : pub[p].ring # 0 => pub'[p].ring = pub[p].ring,
         \A r \in Readers : \A m \in inbox'[r] :
            m \in inbox[r] \/ (Steady => IsRingOf(m.object, m.name)')
  PROVE  SteadyInv'
  <1>1. \A o, name : o # 0 /\ IsRingOf(o, name) => IsRingOf(o, name)'
    BY DEF IsRingOf
  <1>2. \A r \in Readers : \A m \in inbox[r] \cup serving[r] : m.object # 0
    BY DEF LifecycleInv, MessageOK, Usable
  <1>3. Steady' = Steady
    BY DEF Steady, Faults, AllowResize
  <1> QED
    BY <1>1, <1>2, <1>3 DEF SteadyInv

\* A reader that follows a message to its object in a steady system maps it, with
\* its layout, and gets the frame.
LEMMA SteadyCallback ==
  ASSUME NamesAreOwn, LifecycleInv, LinkInv, SteadyInv, Steady, NEW r \in Readers,
         NEW m \in serving[r], NEW h, h = Opened(r, m.name)
  PROVE  /\ h.object # 0 => h.slotCount # 0 /\ IsRingOf(h.object, h.name)
         /\ Acceptable(h, m) => BytesRead(h, m) \subseteq {<<m.object, m.sequence>>}
  <1>1. /\ m \in MessageRecords /\ MessageOK(m) /\ m.name \in Names
        /\ m.object \in 1..Len(object) /\ object[m.object].phase = "ready"
    <2>1. m \in MessageRecords /\ MessageOK(m)
      BY ReaderTypes DEF LifecycleInv
    <2>2. m.name \in Names
      BY <2>1 DEF MessageRecords
    <2> QED
      BY <2>1, <2>2 DEF MessageOK, Usable, Steady
  <1>2. PICK p \in Publishers : NameOf[p] = m.name /\ pub[p].ring = m.object
    BY DEF SteadyInv, IsRingOf
  <1>3. link[m.name] = m.object /\ m.object # 0
    BY <1>1, <1>2 DEF LinkInv, LinkOK, LinkRight
  <1>4. SlotCount # 0
    BY LifecycleAssumption
  <1>5. h.object = m.object /\ h.slotCount # 0 /\ IsRingOf(h.object, h.name)
    <2>1. CASE handle[r].object # 0 /\ handle[r].name = m.name
      <3>1. h = handle[r]
        BY <2>1 DEF Opened
      <3>2. PICK q \in Publishers : NameOf[q] = m.name /\ pub[q].ring = handle[r].object
        BY <2>1 DEF SteadyInv, IsRingOf
      <3>3. q = p
        BY <1>2, <3>2 DEF NamesAreOwn
      <3> QED
        BY <1>2, <2>1, <3>1, <3>2, <3>3 DEF SteadyInv
    <2>2. CASE ~(handle[r].object # 0 /\ handle[r].name = m.name)
      <3>1. h = Mapped(m.name, m.object)
        BY <1>1, <1>3, <2>2 DEF Opened, OpenAnew, PyKeeps, CppKeeps
      <3>2. h.object = m.object /\ h.name = m.name /\ h.slotCount = SlotCount
        BY <1>1, <3>1 DEF Mapped
      <3> QED
        BY <1>2, <1>4, <3>2 DEF IsRingOf
    <2> QED
      BY <2>1, <2>2
  <1>6. ASSUME Acceptable(h, m)
        PROVE  BytesRead(h, m) \subseteq {<<m.object, m.sequence>>}
    <2>1. h \in HandleRecords /\ h.object <= Len(object)
      BY <1>1, OpenedIsHandle
    <2>2. PICK g : g = [of |-> m, bytes |-> BytesRead(h, m)]
      OBVIOUS
    <2>3. DeliveryOK(g)
      BY <1>1, <1>6, <2>1, <2>2, AcceptedIsFrame
    <2>4. \A b \in BytesRead(h, m) : b[1] = m.object => b[2] = m.sequence
      BY <2>2, <2>3 DEF DeliveryOK
    <2>5. \A b \in BytesRead(h, m) : \E v : b = <<m.object, v>>
      BY <1>5 DEF BytesRead
    <2> QED
      BY <2>4, <2>5
  <1> QED
    BY <1>5, <1>6

LEMMA SteadyInductive == ASSUME NamesAreOwn PROVE Spec => []SteadyInv
  <1>1. Init => SteadyInv
    <2> SUFFICES ASSUME Init, NEW r \in Readers
                 PROVE  /\ inbox[r] \cup serving[r] = {} /\ got[r] = {}
                        /\ handle[r].object = 0
      BY DEF SteadyInv
    <2> QED
      BY DEF Init, ClosedHandle
  <1>2. LifecycleInv /\ LinkInv /\ SteadyInv /\ [Next]_vars => SteadyInv'
    <2> SUFFICES ASSUME LifecycleInv, LinkInv, SteadyInv, [Next]_vars PROVE SteadyInv'
      OBVIOUS
    <2>1. config' = config
      BY ZenonT(60) DEF Next, vars, PublisherStep, PublisherGoes, ReaderStep, ReaderChanges,
             PublishIntoRing, PublishOversized, PublishCreating, Unlink, OpenExclusive,
             Truncate, MapAndIdentify, Describe, Write, Send, Destroy, PyClose, Readvertise,
             Crash, Restart, Take, Callback, CloseHandle, Subscribe, Resubscribe,
             Unsubscribe, NewSubscriber, Lose
    <2>2. CASE ~Steady
      BY <2>1, <2>2 DEF SteadyInv, Steady, Faults, AllowResize
    <2>3. ASSUME Steady, NEW p \in Publishers, PublisherStep(p) \/ PublisherGoes(p)
          PROVE  SteadyInv'
      <3>1. \A q \in Publishers : pub[q].ring # 0 => pub'[q].ring = pub[q].ring
        BY <2>3, RingsStay
      <3>2. UNCHANGED <<serving, handle, got>>
        BY <2>3
        DEF PublisherStep, PublisherGoes, PublishIntoRing, PublishOversized, PublishCreating,
            Unlink, OpenExclusive, Truncate, MapAndIdentify, Describe, Write, Send, Destroy,
            PyClose, Readvertise, Crash, Restart, readers
      <3>3. CASE Send(p)
        <4>1. pub[p].ring # 0
          BY <3>3, RingOfPublisher DEF Send, RingOK
        <4>2. PICK m : m = Message(p)
          OBVIOUS
        <4>3. m.name = NameOf[p] /\ m.object = pub[p].ring
          BY <4>2 DEF Message
        <4>4. IsRingOf(m.object, m.name)'
          BY <3>1, <4>1, <4>3 DEF IsRingOf
        <4>5. \A r \in Readers : \A k \in inbox'[r] : k = m
          BY <3>3, <4>2 DEF Send
        <4> QED
          BY <2>1, <3>1, <3>2, <4>4, <4>5, SteadyStays
      <3>4. CASE ~Send(p)
        <4>1. inbox' = inbox
          BY <2>3, <3>4
          DEF PublisherStep, PublisherGoes, PublishIntoRing, PublishOversized,
              PublishCreating, Unlink, OpenExclusive, Truncate, MapAndIdentify, Describe,
              Write, Destroy, PyClose, Readvertise, Crash, Restart, readers
        <4> QED
          BY <2>1, <3>1, <3>2, <4>1, SteadyStays
      <3> QED
        BY <3>3, <3>4
    <2>4. ASSUME Steady, NEW r \in Readers, Lose(r) \/ Take(r) PROVE SteadyInv'
      <3>1. /\ \A q \in Readers : inbox'[q] \cup serving'[q] \subseteq inbox[q] \cup serving[q]
            /\ UNCHANGED <<config, pub, handle, got>>
        BY <2>4, ReaderTypes DEF Lose, Take
      <3> QED
        BY <3>1 DEF SteadyInv, Steady, Faults, AllowResize, IsRingOf
    <2>5. ASSUME Steady, NEW r \in Readers, ReaderChanges(r) PROVE SteadyInv'
      <3>1. /\ UNCHANGED <<config, pub, serving, got>>
            /\ inbox' \in {inbox, [inbox EXCEPT ![r] = {}]}
            /\ handle' = [handle EXCEPT ![r] = ClosedHandle]
        BY <2>5
        DEF ReaderChanges, CloseHandle, Subscribe, Resubscribe, Unsubscribe, NewSubscriber
      <3>2. \A q \in Readers : inbox'[q] \subseteq inbox[q]
        BY <3>1, ReaderTypes
      <3>3. \A q \in Readers : handle'[q] \in {handle[q], ClosedHandle}
        BY <3>1, ReaderTypes
      <3> QED
        BY <3>1, <3>2, <3>3, ReaderTypes DEF SteadyInv, Steady, Faults, AllowResize, IsRingOf
    <2>6. ASSUME Steady, NEW r \in Readers, Callback(r) PROVE SteadyInv'
      <3>1. PICK m \in serving[r] :
              LET h == Opened(r, m.name) IN
              /\ handle' = [handle EXCEPT ![r] = h]
              /\ got' = [got EXCEPT ![r] =
                   IF Acceptable(h, m) THEN {[of |-> m, bytes |-> BytesRead(h, m)]} ELSE @]
              /\ serving' = [serving EXCEPT ![r] = {}]
              /\ UNCHANGED <<config, link, object, pub, subscribed, inbox, latest>>
        BY <2>6 DEF Callback
      <3>2. PICK h : h = Opened(r, m.name)
        OBVIOUS
      <3>3. /\ h.object # 0 => h.slotCount # 0 /\ IsRingOf(h.object, h.name)
            /\ Acceptable(h, m) => BytesRead(h, m) \subseteq {<<m.object, m.sequence>>}
        BY <2>6, <3>2, SteadyCallback
      <3>4. PICK g : g = [of |-> m, bytes |-> BytesRead(h, m)]
        OBVIOUS
      <3>5. \A q \in Readers : \A k \in got'[q] : k \in got[q] \/ (k = g /\ Acceptable(h, m))
        BY <3>1, <3>2, <3>4, ReaderTypes
      <3>6. \A q \in Readers : \A k \in got'[q] : k.bytes \subseteq {<<k.of.object, k.of.sequence>>}
        BY <2>6, <3>3, <3>4, <3>5 DEF SteadyInv
      <3>7. \A q \in Readers : handle'[q] \in {handle[q]} \/ handle'[q] = h
        BY <3>1, <3>2, ReaderTypes
      <3>8. \A q \in Readers : inbox'[q] \cup serving'[q] \subseteq inbox[q] \cup serving[q]
        BY <3>1, ReaderTypes
      <3>9. \A o, name : IsRingOf(o, name)' <=> IsRingOf(o, name)
        BY <3>1 DEF IsRingOf
      <3> QED
        BY <2>6, <3>3, <3>6, <3>7, <3>8, <3>9 DEF SteadyInv
    <2>7. CASE UNCHANGED vars
      BY <2>7 DEF vars, SteadyInv, Steady, Faults, AllowResize, IsRingOf
    <2> QED
      BY <2>2, <2>3, <2>4, <2>5, <2>6, <2>7 DEF Next, ReaderStep
  <1> QED
    BY <1>1, <1>2, Inductive, LinkInductive, PTL DEF Spec

\* A publisher that only ever creates its ring once, in whatever number of attempts,
\* is read right: every callback gets exactly the frame its metadata selected, and
\* no handle is left with a layout it cannot use.
THEOREM SteadyFramesAreSelected ==
  ASSUME NamesAreOwn PROVE Spec => [](Steady => DeliveredIsSelected)
  <1>1. SteadyInv => (Steady => DeliveredIsSelected)
    BY DEF SteadyInv, DeliveredIsSelected
  <1> QED
    BY <1>1, SteadyInductive, PTL

\* In such a system no handle is left with a layout it cannot use.
THEOREM SteadyHandlesAreUsable ==
  ASSUME NamesAreOwn PROVE Spec => [](Steady => NeverPoisoned)
  <1>1. SteadyInv => (Steady => NeverPoisoned)
    BY DEF SteadyInv, NeverPoisoned
  <1> QED
    BY <1>1, SteadyInductive, PTL
================================================================================
