----------------------------- MODULE ShmLifecycle -----------------------------
(***************************************************************************)
(* The life of shared-memory objects and of the names they are linked at:  *)
(* ShmPublisher::publish with ensure_buffer and ShmRingBuffer::create, one *)
(* system call per step, the destructor, crash and restart of a publisher, *)
(* and the subscriber's ShmHandle, which caches one mapping by name.       *)
(*                                                                         *)
(* write() and copy_payload are single steps here: module ShmSeqlock shows *)
(* that a copy takes effect at one instant.  An object outlives its name   *)
(* for whoever has it mapped, as POSIX has it, so objects are never        *)
(* removed from `object', only unlinked.                                   *)
(*                                                                         *)
(* A byte of payload is a unit; the write with sequence number q stores q  *)
(* in the units it fills.                                                  *)
(***************************************************************************)
EXTENDS Integers, Sequences

CONSTANTS
  Publishers,      \* ShmPublisher instances, C++ or Python
  Readers,         \* subscribers, each with one handle
  Names,           \* shared-memory names
  NameOf,          \* the name each publisher uses
  SlotCount,       \* ShmPublisherOptions::slot_count
  Configurations,  \* what a behaviour may be configured to, see ConfigurationKinds
  MaxSequence      \* bound: last sequence number written to an object

FaultKinds ==
  {"create_error", "memory_error", "crash", "destroy", "restart", "readvertise", "loss"}

\* ShmPublisherOptions::slot_size_bytes (0: the first payload decides) and
\* allow_resize, the payload sizes that are published, the publishers and
\* readers that are the Python ones, what may go wrong, and a bound on the
\* objects created.
ConfigurationKinds ==
  [slotSizeBytes : Nat, allowResize : BOOLEAN, sizes : SUBSET Nat,
   python : SUBSET (Publishers \cup Readers), faults : SUBSET FaultKinds,
   objects : Nat]

ASSUME LifecycleAssumption ==
  /\ SlotCount \in Nat \ {0}
  /\ Configurations \subseteq ConfigurationKinds
  /\ NameOf \in [Publishers -> Names]
  /\ MaxSequence \in Nat /\ MaxSequence >= 2

VARIABLES
  config,     \* constant of a behaviour, a member of Configurations
  link,       \* the object a name is linked to in /dev/shm, 0 if none
  object,     \* every object created, in order of creation
  pub,        \* publishers: options apart, the state of ShmPublisher and its ring
  subscribed, \* the readers that have a ShmSubscriber
  inbox,      \* metadata queue of each reader: KEEP_LAST, depth 1
  serving,    \* the message in a reader's metadata callback
  handle,     \* ShmHandle of each reader
  got,        \* the last delivery of each reader
  latest      \* the last message sent

vars == <<config, link, object, pub, subscribed, inbox, serving, handle, got, latest>>
readers == <<subscribed, inbox, serving, handle, got, latest>>

SlotSizeBytes == config.slotSizeBytes
AllowResize == config.allowResize
Sizes == config.sizes
Python == config.python
Faults == config.faults
MaxObjects == config.objects

Slots == 0..(SlotCount - 1)
Phases == {"empty", "zeroed", "identified", "ready"}

\* A ring that has never been created, and one closed after a failed create:
\* close() keeps the name and the sizes.
NoRing == [pc |-> "idle", named |-> FALSE, ring |-> 0, fd |-> 0, slotSize |-> 0,
           nextSlot |-> 0, nextSeq |-> 2, size |-> 0, error |-> "None"]

ClosedHandle == [name |-> "", object |-> 0, slotCount |-> 0, slotSize |-> 0]

NewObject == [phase |-> "empty", slotSize |-> 0,
              slot |-> [s \in Slots |-> [sequence |-> 0, size |-> 0]],
              data |-> <<>>]

Init ==
  /\ config \in Configurations
  /\ link = [n \in Names |-> 0]
  /\ object = <<>>
  /\ pub = [p \in Publishers |-> NoRing]
  /\ subscribed = Readers
  /\ inbox = [r \in Readers |-> {}]
  /\ serving = [r \in Readers |-> {}]
  /\ handle = [r \in Readers |-> ClosedHandle]
  /\ got = [r \in Readers |-> {}]
  /\ latest = {}

-----------------------------------------------------------------------------
(* ShmPublisher::publish                                                    *)

Fits(p, size) == pub[p].ring # 0 /\ size <= pub[p].slotSize

\* The slot size ensure_buffer would create a ring with.
WantedSlotSize(size) == IF SlotSizeBytes = 0 THEN size ELSE SlotSizeBytes

Refused(p, size) ==
  \/ pub[p].ring # 0 /\ ~AllowResize
  \/ WantedSlotSize(size) = 0
  \/ size > WantedSlotSize(size)

\* ensure_buffer finds an open ring the payload fits.
PublishIntoRing(p, size) ==
  /\ pub[p].pc = "idle"
  /\ pub[p].nextSeq <= MaxSequence
  /\ Fits(p, size)
  /\ pub' = [pub EXCEPT ![p].pc = "write", ![p].size = size, ![p].error = "None"]
  /\ UNCHANGED <<config, link, object, readers>>

\* ensure_buffer returns false before it touches the ring.
PublishOversized(p, size) ==
  /\ pub[p].pc = "idle"
  /\ ~Fits(p, size)
  /\ Refused(p, size)
  /\ pub' = [pub EXCEPT ![p].error = "Oversized"]
  /\ UNCHANGED <<config, link, object, readers>>

PublishCreatingOldRing(p, size) ==
  /\ pub[p].pc = "idle"
  /\ Len(object) < MaxObjects
  /\ ~Fits(p, size)
  /\ ~Refused(p, size)
  /\ pub' = [pub EXCEPT ![p].pc = "unlink", ![p].named = TRUE, ![p].size = size,
                        ![p].slotSize = WantedSlotSize(size)]
  /\ UNCHANGED <<config, link, object, readers>>

PublishCreatingOldSize(p, size) ==
  /\ pub[p].pc = "idle"
  /\ Len(object) < MaxObjects
  /\ ~Fits(p, size)
  /\ ~Refused(p, size)
  /\ pub' = [pub EXCEPT ![p] = [NoRing EXCEPT !.pc = "unlink", !.named = TRUE, !.size = size,
                !.slotSize = IF pub[p].slotSize = 0 THEN WantedSlotSize(size)
                             ELSE pub[p].slotSize]]
  /\ UNCHANGED <<config, link, object, readers>>

\* create() closes the old ring and resets the cursors.
PublishCreating(p, size) ==
  /\ pub[p].pc = "idle"
  /\ Len(object) < MaxObjects
  /\ ~Fits(p, size)
  /\ ~Refused(p, size)
  /\ pub' = [pub EXCEPT ![p] = [NoRing EXCEPT !.pc = "unlink", !.named = TRUE,
                                !.slotSize = WantedSlotSize(size), !.size = size]]
  /\ UNCHANGED <<config, link, object, readers>>

Unlink(p) ==
  /\ pub[p].pc = "unlink"
  /\ link' = [link EXCEPT ![NameOf[p]] = 0]
  /\ pub' = [pub EXCEPT ![p].pc = "open"]
  /\ UNCHANGED <<config, object, readers>>

\* The descriptor a ring still holds after a failed create: the C++ ring closes
\* it, the Python one keeps it until it is closed or created again.
KeptOpen(p) == IF p \in Python THEN pub[p].fd ELSE 0

\* create() throws and publish() reports CreateFailed; what is linked stays
\* linked.
CreateFails(p) ==
  pub' = [pub EXCEPT ![p].pc = "idle", ![p].error = "CreateFailed",
                     ![p].fd = KeptOpen(p)]

\* The Python ring is open as soon as the object is mapped: a MemoryError of
\* the zeros that are to clear it leaves an open ring without a header.
PyZeroingFails(p) ==
  pub' = [pub EXCEPT ![p].pc = "idle", ![p].error = "CreateFailed",
                     ![p].ring = pub[p].fd]

\* shm_open(O_CREAT | O_EXCL)
OpenExclusive(p) ==
  LET name == NameOf[p] IN
  /\ pub[p].pc = "open"
  /\ \/ /\ link[name] = 0
        /\ Len(object) < MaxObjects
        /\ object' = Append(object, NewObject)
        /\ link' = [link EXCEPT ![name] = Len(object')]
        /\ pub' = [pub EXCEPT ![p].pc = "truncate", ![p].fd = Len(object')]
     \/ /\ link[name] # 0 \/ "create_error" \in Faults
        /\ CreateFails(p)
        /\ UNCHANGED <<link, object>>
  /\ UNCHANGED <<config, readers>>

Truncate(p) ==
  /\ pub[p].pc = "truncate"
  /\ \/ /\ object' = [object EXCEPT ![pub[p].fd] =
               [@ EXCEPT !.phase = "zeroed", !.slotSize = pub[p].slotSize,
                         !.data = [u \in 1..(SlotCount * pub[p].slotSize) |-> 0]]]
        /\ pub' = [pub EXCEPT ![p].pc = "map"]
     \/ /\ "create_error" \in Faults
        /\ CreateFails(p)
        /\ UNCHANGED object
  /\ UNCHANGED <<config, link, readers>>

\* mmap, memset and the stores of magic, version and header_size.
MapAndIdentify(p) ==
  /\ pub[p].pc = "map"
  /\ \/ /\ object' = [object EXCEPT ![pub[p].fd].phase = "identified"]
        /\ pub' = [pub EXCEPT ![p].pc = "describe"]
     \/ /\ "create_error" \in Faults
        /\ CreateFails(p)
        /\ UNCHANGED object
     \/ /\ "memory_error" \in Faults /\ p \in Python
        /\ PyZeroingFails(p)
        /\ UNCHANGED object
  /\ UNCHANGED <<config, link, readers>>

DescribeNothing(p) ==
  /\ pub[p].pc = "describe"
  /\ pub' = [pub EXCEPT ![p].pc = "write", ![p].ring = pub[p].fd, ![p].fd = 0]
  /\ UNCHANGED <<config, link, object, readers>>

\* The stores of slot_count, slot_size, payload_base_offset and generation.
Describe(p) ==
  /\ pub[p].pc = "describe"
  /\ object' = [object EXCEPT ![pub[p].fd].phase = "ready"]
  /\ pub' = [pub EXCEPT ![p].pc = "write", ![p].ring = pub[p].fd, ![p].fd = 0]
  /\ UNCHANGED <<config, link, readers>>

FirstUnit(p) == pub[p].nextSlot * pub[p].slotSize

\* write() refuses a closed ring and an oversized payload by itself.
Write(p) ==
  LET first == FirstUnit(p)
      filled == (first + 1)..(first + pub[p].size)
      shown == [sequence |-> pub[p].nextSeq, size |-> pub[p].size]
      ring == object[pub[p].ring]
      data == [u \in DOMAIN ring.data |-> IF u \in filled THEN pub[p].nextSeq ELSE ring.data[u]]
  IN  /\ pub[p].pc = "write"
      /\ IF Fits(p, pub[p].size)
         THEN /\ object' = [object EXCEPT ![pub[p].ring] =
                   [ring EXCEPT !.slot[pub[p].nextSlot] = shown, !.data = data]]
              /\ pub' = [pub EXCEPT ![p].pc = "send"]
         ELSE /\ pub' = [pub EXCEPT ![p].pc = "idle", ![p].error = "WriteFailed"]
              /\ UNCHANGED object
      /\ UNCHANGED <<config, link, readers>>

CursorNotWrapped(s) == s + 1
FollowingSlot(s) == (s + 1) % SlotCount

MessageOfNextSlot(p) ==
  [name |-> NameOf[p], object |-> pub[p].ring, slot |-> FollowingSlot(pub[p].nextSlot),
   sequence |-> pub[p].nextSeq, offset |-> FirstUnit(p), size |-> pub[p].size]

\* The metadata that write()'s result is encoded into.  `object' is not part
\* of it: it records which object the message means.
Message(p) ==
  [name |-> NameOf[p], object |-> pub[p].ring, slot |-> pub[p].nextSlot,
   sequence |-> pub[p].nextSeq, offset |-> FirstUnit(p), size |-> pub[p].size]

\* write() advances its cursors; the metadata replaces what is still queued.
Send(p) ==
  /\ pub[p].pc = "send"
  /\ inbox' = [r \in Readers |-> IF r \in subscribed THEN {Message(p)} ELSE {}]
  /\ latest' = {Message(p)}
  /\ pub' = [pub EXCEPT ![p].pc = "idle",
                        ![p].nextSlot = FollowingSlot(@),
                        ![p].nextSeq = @ + 2]
  /\ UNCHANGED <<config, link, object, subscribed, serving, handle, got>>

-----------------------------------------------------------------------------
(* The publisher's process                                                  *)

DestroyOpenRing(p) ==
  /\ "destroy" \in Faults
  /\ pub[p].pc = "idle"
  /\ link' = IF pub[p].ring # 0 THEN [link EXCEPT ![NameOf[p]] = 0] ELSE link
  /\ pub' = [pub EXCEPT ![p] = [NoRing EXCEPT !.pc = "gone"]]
  /\ UNCHANGED <<config, object, readers>>

\* ~ShmPublisher: unlink by name, if the ring was ever given one; close.
Destroy(p) ==
  /\ "destroy" \in Faults
  /\ pub[p].pc = "idle"
  /\ link' = IF pub[p].named THEN [link EXCEPT ![NameOf[p]] = 0] ELSE link
  /\ pub' = [pub EXCEPT ![p] = [NoRing EXCEPT !.pc = "gone"]]
  /\ UNCHANGED <<config, object, readers>>

\* close() of a Python publisher, after which it may publish again.
PyClose(p) ==
  /\ "destroy" \in Faults /\ p \in Python
  /\ pub[p].pc = "idle"
  /\ link' = IF pub[p].named THEN [link EXCEPT ![NameOf[p]] = 0] ELSE link
  /\ pub' = [pub EXCEPT ![p].ring = 0, ![p].fd = 0]
  /\ UNCHANGED <<config, object, readers>>

\* advertise_shm of a transport plugin that is advertised already: the new
\* ShmPublisher, which has no ring yet, replaces the old one, which is destroyed.
Readvertise(p) ==
  /\ "readvertise" \in Faults /\ p \notin Python
  /\ pub[p].pc = "idle"
  /\ link' = IF pub[p].named THEN [link EXCEPT ![NameOf[p]] = 0] ELSE link
  /\ pub' = [pub EXCEPT ![p] = NoRing]
  /\ UNCHANGED <<config, object, readers>>

\* The process dies: nothing is unlinked, a write in progress leaves its slot
\* with the odd sequence number.
Crash(p) ==
  LET torn == [sequence |-> pub[p].nextSeq + 1, size |-> pub[p].size] IN
  /\ "crash" \in Faults
  /\ pub[p].pc # "gone"
  /\ \/ UNCHANGED object
     \/ /\ pub[p].pc = "write" /\ pub[p].ring # 0
        /\ object' = [object EXCEPT ![pub[p].ring].slot[pub[p].nextSlot] = torn]
  /\ pub' = [pub EXCEPT ![p] = [NoRing EXCEPT !.pc = "gone"]]
  /\ UNCHANGED <<config, link, readers>>

Restart(p) ==
  /\ "restart" \in Faults
  /\ pub[p].pc = "gone"
  /\ pub' = [pub EXCEPT ![p] = NoRing]
  /\ UNCHANGED <<config, link, object, readers>>

-----------------------------------------------------------------------------
(* The subscriber                                                           *)

\* Best effort: a queued message may be lost.
Lose(r) ==
  /\ "loss" \in Faults
  /\ inbox[r] # {}
  /\ inbox' = [inbox EXCEPT ![r] = {}]
  /\ UNCHANGED <<config, link, object, pub, subscribed, serving, handle, got, latest>>

\* The executor takes the message and enters metadata_callback.
Take(r) ==
  /\ serving[r] = {}
  /\ inbox[r] # {}
  /\ serving' = [serving EXCEPT ![r] = inbox[r]]
  /\ inbox' = [inbox EXCEPT ![r] = {}]
  /\ UNCHANGED <<config, link, object, pub, subscribed, handle, got, latest>>

\* A handle that maps object o, with the snapshot of the layout it holds: zeros
\* as long as the publisher has not described the ring.
Mapped(name, o) ==
  IF object[o].phase = "ready"
  THEN [name |-> name, object |-> o, slotCount |-> SlotCount,
        slotSize |-> object[o].slotSize]
  ELSE [name |-> name, object |-> o, slotCount |-> 0, slotSize |-> 0]

\* What open() keeps of an object.  The C++ handle refuses one too short for the
\* header; it stores the snapshot before it validates it.
CppKeeps(o) == object[o].phase # "empty"

\* The Python one validates first, but only the fields that identify the layout.
PyKeeps(o) == object[o].phase \notin {"empty", "zeroed"}

\* ShmHandle::open of a name the handle does not hold.
OpenAnew(r, name) ==
  LET o == link[name] IN
  IF o # 0 /\ (IF r \in Python THEN PyKeeps(o) ELSE CppKeeps(o))
  THEN Mapped(name, o) ELSE ClosedHandle

OpenedAnyName(r, name) ==
  IF handle[r].object # 0 THEN handle[r] ELSE OpenAnew(r, name)

Opened(r, name) ==
  IF handle[r].object # 0 /\ handle[r].name = name THEN handle[r] ELSE OpenAnew(r, name)

AcceptableAnySequence(h, m) ==
  /\ h.object # 0
  /\ m.slot < h.slotCount
  /\ m.size <= h.slotSize
  /\ m.offset + m.size <= Len(object[h.object].data)
  /\ object[h.object].slot[m.slot].size = m.size

\* The checks of copy_payload.  A handle just opened on an unwritten header
\* has no slots, so it fails the first one, as open() throws.
Acceptable(h, m) ==
  /\ h.object # 0
  /\ m.slot < h.slotCount
  /\ m.size <= h.slotSize
  /\ m.offset + m.size <= Len(object[h.object].data)
  /\ object[h.object].slot[m.slot] = [sequence |-> m.sequence, size |-> m.size]

\* The units at the offset the message names, with the object they are read in.
BytesRead(h, m) ==
  {<<h.object, object[h.object].data[u]>> : u \in (m.offset + 1)..(m.offset + m.size)}

\* metadata_callback: copy_payload, then the user's callback or the catch.
Callback(r) ==
  \E m \in serving[r] :
    LET h == Opened(r, m.name) IN
    /\ handle' = [handle EXCEPT ![r] = h]
    /\ got' = [got EXCEPT ![r] =
                 IF Acceptable(h, m) THEN {[of |-> m, bytes |-> BytesRead(h, m)]} ELSE @]
    /\ serving' = [serving EXCEPT ![r] = {}]
    /\ UNCHANGED <<config, link, object, pub, subscribed, inbox, latest>>

\* A transport plugin or an RViz display makes a ShmSubscriber with a queue and a
\* handle of its own.
NewSubscriber(r) ==
  /\ subscribed' = subscribed \cup {r}
  /\ inbox' = [inbox EXCEPT ![r] = {}]
  /\ handle' = [handle EXCEPT ![r] = ClosedHandle]
  /\ UNCHANGED <<config, link, object, pub, serving, got, latest>>

Subscribe(r) == r \notin subscribed /\ NewSubscriber(r)

\* subscribe_shm of a plugin that is subscribed already replaces the old one.
Resubscribe(r) ==
  /\ "readvertise" \in Faults /\ r \notin Python
  /\ r \in subscribed /\ serving[r] = {}
  /\ NewSubscriber(r)

\* shutdown() of a plugin, unsubscribe() of a display.
Unsubscribe(r) ==
  /\ "readvertise" \in Faults /\ r \notin Python
  /\ r \in subscribed /\ serving[r] = {}
  /\ subscribed' = subscribed \ {r}
  /\ inbox' = [inbox EXCEPT ![r] = {}]
  /\ handle' = [handle EXCEPT ![r] = ClosedHandle]
  /\ UNCHANGED <<config, link, object, pub, serving, got, latest>>

\* ShmSubscriber::close
CloseHandle(r) ==
  /\ "destroy" \in Faults
  /\ r \in subscribed /\ serving[r] = {}
  /\ handle' = [handle EXCEPT ![r] = ClosedHandle]
  /\ UNCHANGED <<config, link, object, pub, subscribed, inbox, serving, got, latest>>

-----------------------------------------------------------------------------

PublisherStep(p) ==
  \/ \E size \in Sizes :
       PublishIntoRing(p, size) \/ PublishOversized(p, size) \/ PublishCreating(p, size)
  \/ Unlink(p) \/ OpenExclusive(p) \/ Truncate(p) \/ MapAndIdentify(p) \/ Describe(p)
  \/ Write(p) \/ Send(p)

PublisherGoes(p) ==
  Destroy(p) \/ PyClose(p) \/ Readvertise(p) \/ Crash(p) \/ Restart(p)

ReaderStep(r) == Take(r) \/ Callback(r)

ReaderChanges(r) ==
  CloseHandle(r) \/ Subscribe(r) \/ Resubscribe(r) \/ Unsubscribe(r)

Next ==
  \/ \E p \in Publishers : PublisherStep(p) \/ PublisherGoes(p)
  \/ \E r \in Readers : ReaderStep(r) \/ ReaderChanges(r) \/ Lose(r)

\* The executor keeps calling the callbacks of a spinning subscriber node.
Fairness == \A r \in Readers : WF_vars(ReaderStep(r))

Spec == Init /\ [][Next]_vars /\ Fairness

-----------------------------------------------------------------------------

Messages(M) ==
  \A m \in M : /\ m.name \in Names /\ m.object \in 1..Len(object)
                /\ m.slot \in Slots /\ m.size \in Sizes

\* Every variable has its type: links and handles name objects that were
\* created, cursors stay in the ring, messages name slots of it.
TypeOK ==
  /\ link \in [Names -> 0..Len(object)]
  /\ Len(object) <= MaxObjects
  /\ \A o \in 1..Len(object) :
       /\ object[o].phase \in Phases
       /\ \A s \in Slots : object[o].slot[s].sequence \in 0..(MaxSequence + 1)
       /\ Len(object[o].data) = SlotCount * object[o].slotSize
  /\ \A p \in Publishers :
       /\ pub[p].pc \in {"idle", "unlink", "open", "truncate", "map", "describe",
                         "write", "send", "gone"}
       /\ pub[p].error \in {"None", "Oversized", "CreateFailed", "WriteFailed"}
       /\ {pub[p].ring, pub[p].fd} \subseteq 0..Len(object)
       /\ pub[p].nextSlot \in Slots
  /\ subscribed \subseteq Readers
  /\ \A r \in Readers :
       /\ Messages(inbox[r]) /\ Messages(serving[r]) /\ Messages({g.of : g \in got[r]})
       /\ handle[r].object \in 0..Len(object)
  /\ Messages(latest)

\* What ensure_buffer accepts or creates, write() never refuses: publish()
\* cannot end in WriteFailed, whatever create errors and resizes came before.
WriteNeverFails == \A p \in Publishers : pub[p].error # "WriteFailed"

\* The ring a publisher writes to is the object its name is linked to, so a
\* subscriber that opens the name gets the ring: each publisher owns one
\* shared-memory object and nobody else unlinks it.
RingIsLinked ==
  \A p \in Publishers : pub[p].ring # 0 => link[NameOf[p]] = pub[p].ring

\* A publisher that is destroyed leaves nothing in /dev/shm, also when its last
\* create failed half way.  (What a crash leaves is unlinked by the next create.)
DestroyedLeavesNoName ==
  "crash" \notin Faults =>
  \A p \in Publishers : pub[p].pc = "gone" => link[NameOf[p]] = 0

\* Metadata is sent only for a ring whose header is complete, so whoever opens
\* the object to read the frame finds a usable layout, unless memory runs out
\* between a Python publisher's mmap and its header.
AnnouncedRingIsReadable ==
  "memory_error" \notin Faults =>
  \A m \in latest : object[m.object].phase = "ready"

\* A callback gets the bytes of the frame its metadata selected.
DeliveredIsSelected ==
  \A r \in Readers : \A g \in got[r] : g.bytes \subseteq {<<g.of.object, g.of.sequence>>}

\* A callback gets bytes of one write, the one its object numbers as the
\* metadata says, never bytes of two frames or of a slot not written, as long as
\* all rings of a name have the configured slot size.
DeliveredIsOneFrame ==
  SlotSizeBytes # 0 =>
  \A r \in Readers : \A g \in got[r] :
    \E o \in 1..Len(object) : g.bytes \subseteq {<<o, g.of.sequence>>}

\* If a handle maps the object a message was published from, what it delivers
\* is the frame the message selected.
SameObjectSameFrame ==
  \A r \in Readers : \A g \in got[r] : \A b \in g.bytes :
    b[1] = g.of.object => b[2] = g.of.sequence

\* A handle that holds a mapping holds a usable layout: no subscriber is left
\* refusing every frame because it once opened a half-created object.
NeverPoisoned ==
  \A r \in Readers : handle[r].object # 0 => handle[r].slotCount # 0

Delivered(r, m) ==
  \E g \in got[r] : g.of = m /\ g.bytes \subseteq {<<m.object, m.sequence>>}

\* Once publishing pauses, every subscriber gets the latest frame, as long as
\* the object that holds it is still linked at its name.
CatchesUp ==
  \A r \in Readers :
    <>[](\A m \in latest : link[m.name] = m.object => Delivered(r, m))
===============================================================================
