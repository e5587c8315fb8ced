# Verification of the shared-memory sensor transport

TLA+ specifications of `ros2_shm_sensor_transport`, the TLC configurations that
check them, and TLAPS proofs. Paths are relative to the repository; `shm/`
abbreviates `src/shm_sensor_transport/`, `ait/` the header
`src/adapted_image_transport/include/adapted_image_transport/adapted_image_transport.hpp`
and `apct/` its point-cloud twin, `py/` the package
`src/shm_sensor_transport_py/shm_sensor_transport_py`.

    tlc -config ShmSeqlockOrdered.cfg MCShmSeqlock.tla     # any run of section 3
    tlapm ShmSeqlockProofs.tla                             # any *Proofs.tla of section 5

## 1. Inventory

| Component | State | Operations | Interacts with |
|---|---|---|---|
| Ring buffer (`shm/src/shm_ring_buffer.cpp`, `shm_layout.hpp`) | the object in `/dev/shm` (header, slot headers, payload), the name it is linked at, `next_slot_`, `next_sequence_`, mapping, descriptor | `create`, `write`, `unlink`, `close`, moves | handles of other processes through the mapping |
| Handle (`shm/src/shm_handle.cpp`) | one cached mapping: name, layout snapshot | `open`, `copy_payload`, `close`, moves | the object it mapped, which may have been unlinked |
| `ShmPublisher` (`shm_publisher.hpp`) | options, ring, last error | `publish`, destructor | ring; metadata topic `<topic>/_shm` |
| `ShmSubscriber` (`shm_subscriber.hpp`) | handle, time of the last callback | `metadata_callback`, `close` | metadata topic, the user's callback |
| Relays (image, point cloud, compressed image) | counters, time of the last frame, status timer | input callback, status timer | `ShmPublisher`, ROS clock |
| Names, parameters, QoS (`shm_name.cpp`, `parameter_utils.cpp`, `qos_utils.cpp`) | none | normalisation, clamping | everything that opens an object |
| Message traits, interfaces | none | `encode`, `decode` | metadata messages |
| Python transport (`publisher.py`, `shm_handle.py`, `subscriber.py`, loaders) | as in C++ | as in C++, over `struct` and `mmap` | the same objects and topics |
| Adapted transports (`ait/`, `apct/`) | `Registry` of a context (publishers, interests); publisher's pending message and timer; subscriber's two subscriptions | `publish`, drain, `shutdown`, `refresh_subscription` | guard conditions, public transports, executor |
| Transport plugins (image, point cloud) | one `ShmPublisher` or `ShmSubscriber` | construct, forward, reset | image_transport, point_cloud_transport |
| RViz displays | one `ShmSubscriber` | `subscribe`, `unsubscribe` | metadata topic, the display |
| Benchmark, launch files | - | - | the plugins |

What is hard, and what makes each component correct:

* **Ring against handle.** No lock: one process stores while others load, and only
  a sequence number per slot tells a reader that its copy is good. A slot is reused
  `slot_count` frames later, metadata may come late, twice or never, the publisher
  may die inside `write`, and a Python publisher clears a slot's header each time it
  stores it. *Correct when* an accepted copy is one frame and the selected one, and a
  frame that is still in the ring is not refused.
* **Names and objects.** `create` unlinks, creates, sizes, maps and fills the header in
  separate system calls, each of which may fail; a restarted or resized publisher links
  a new object at the name; handles cache a mapping by name; the destructor unlinks by
  name. *Correct when* a publisher's name leads to the ring it writes, nothing stays
  behind, metadata is sent for complete rings only, and subscribers deliver the selected
  frame and do not stay stuck.
* **Rate limits.** A relay limits on the ROS clock, which may jump; a subscriber on a
  steady one, over callbacks that take time and may fail. *Correct when* two frames are
  never closer than the period, a frame that fails does not use the limit up, and the
  limit never chokes the stream.
* **Adapted subscription.** Publishers of any thread change the registry and run the
  subscriber's refresh in their own thread; refreshes act on what they read before.
  *Correct when* every subscriber ends on a live private topic or the public transport,
  and stays silent after shutdown.
* **Adapted publishing.** Message and timer are under different locks. *Correct when* no
  wake-up is lost, order is kept and the latest message goes out.
* **Both together.** A message goes out on two paths, chosen by counts that are read
  before it is sent, to subscribers that change paths meanwhile. *Correct when* nobody
  gets it twice, nothing overtakes, whoever must get it does, and nothing is converted
  for subscribers that are on the private path.
* **Ownership.** Rings and handles are moved, assigned, reopened and destroyed. *Correct
  when* every mapping and descriptor has one owner and is given back once and whole.
* **Conversions.** Two languages must derive one file from one option; publisher,
  subscriber, relay and plugin one topic; sizes and offsets are 64-bit products without
  an overflow check; fields are listed by hand in four translations; loaders cut padded
  rows into arrays.

`PROJECT.json` lists each hazard at its line with the properties aimed at it.

## 2. Modules

    ShmFrameStore <---implements--- ShmSeqlockStore --extends--> ShmSeqlock
    ShmLifecycle        takes write() and copy_payload as single steps (ShmSeqlock)
    ShmRelay            takes the ring as what ensure_buffer decides from (ShmLifecycle)
    AdaptedDelivery --extends--> AdaptedSubscription
    AdaptedPublish      the timer between publish() and the drain (AdaptedDelivery)
    ShmConversions      runs the operators of ShmNames, ShmLayout, ShmMessages, ShmOwnership

Each has a module of theorems beside it: `ShmSeqlockProofs` (of ShmSeqlock and
ShmSeqlockStore), `ShmLifecycleProofs`, `ShmRelayProofs`, `AdaptedPublishProofs`,
`AdaptedSubscriptionProofs`, `AdaptedDeliveryProofs` (which uses the invariants of the one
before) and `ShmConversionsProofs`. `Remainders` holds lemmas on `%` that rings and wrapping
counters need.

`MC*.tla` and the `.cfg` files give the constants their values.

### ShmSeqlock: `write` against `copy_payload`

One memory access per step. `slotSeq`, `slotLen`, `slotData` are the mapped object;
`nextSlot`, `nextSeq` the cursors; the other `w...` variables are where `write` is; the
`r...` variables the locals of `copy_payload` in each reader. A payload is a sequence of
units (stand-ins for bytes) copied in any order, as `memcpy` may; the write numbered q
stores the token q in each, so a copy shows which writes it mixes.

| Action | Code |
|---|---|
| `BeginWrite`, `StoreOdd`, `StoreUnit`, `StoreLen`, `StoreEven` | `shm_ring_buffer.cpp:133-155` |
| the `Pack...` actions | `struct.pack_into` in `py/publisher.py` `_RingBuffer.write` |
| `Publish` | cursors and result `shm_ring_buffer.cpp:157-168`, metadata `shm_publisher.hpp:112` |
| `BeginCopy` to `EndCopy` | `shm_handle.cpp:135-174`, `py/shm_handle.py` `copy_payload` |
| `Crash` | the process ends between any two stores |

Either end may be the Python one, chosen in `Init`. CPython's `struct.pack_into` fills the
target with zeros before it stores the fields one by one; the source does not show that,
the model follows CPython's implementation. The Python reader compares the size after the
copy only. Each header word is stored and loaded whole, which the C++ code asks for and
aligned stores of CPython do on the platforms ROS runs on.

The metadata topic is the set `published`: a reader may begin a copy for any message
ever sent, which covers loss, delay, duplication and reordering. Bounds checks of
`copy_payload` concern the handle's layout and are in ShmLifecycle.

**Memory model.** The source uses release stores and acquire loads. They do not keep
the `memcpy` behind the odd store, nor the copy before the second sequence load.
`StoreOrdered` and `LoadOrdered` say whether the machine does: both TRUE is total store
order (x86-64, provided the compiler keeps the order around `memcpy`); both FALSE is
what the source asks for. Sequence numbers are 64 bits wide; at any frame rate they do
not wrap in the life of a process, so they are natural numbers here.

### ShmFrameStore and ShmSeqlockStore: what the ring promises

`ShmFrameStore` is the abstract specification: frames are stored atomically, the last
ones are kept, a reader gets a whole frame or a refusal, and a refusal only if its frame
is gone. `ShmSeqlockStore` states with `INSTANCE ... WITH` how the ring implements it.

### ShmLifecycle: objects, names and cached mappings

`publish`, `ensure_buffer` and `create` with one system call per step, any of which may
fail; destructor, crash, restart; a KEEP_LAST(1) best-effort inbox per subscriber; the
executor that takes a message and runs `metadata_callback`; `ShmHandle::open` with its
cache. Objects live on in `object` when unlinked, as POSIX has it for whoever maps them.
`write` and `copy_payload` are single steps: ShmSeqlock justifies that.

| Action | Code |
|---|---|
| `PublishIntoRing`, `PublishOversized`, `PublishCreating` | `shm_publisher.hpp:90-99`, `157-191` |
| `Unlink`, `OpenExclusive`, `Truncate`, `MapAndIdentify`, `Describe` | `shm_ring_buffer.cpp:65-112` |
| `Write`, `Send` | `shm_ring_buffer.cpp:133-168`, `shm_publisher.hpp:101-114` |
| `Destroy`, `PyClose`, `Crash`, `Restart` | `shm_publisher.hpp:62-84`, `py/publisher.py` `close`, the process |
| `Readvertise`, `Resubscribe` | the plugins, `src/image_transport_shm/src/shm_plugins.cpp:149-158`, `204-223` |
| `Subscribe`, `Unsubscribe` | the point-cloud plugin `257-276`, the displays `src/shm_sensor_transport_rviz/src/shm_sensor_displays.cpp:73-115` |
| `Take`, `Callback`, `CloseHandle` | executor, `shm_subscriber.hpp:87-113`, `shm_handle.cpp:70-174` |

A configuration (the constant `Configurations` of a run, one of which `Init` chooses)
holds the options, the payload sizes, which processes are `python`, what may go wrong
(`faults`) and how many objects may be created. A header is written in phases, and a
subscriber can open any of them: `empty` (no size yet), `zeroed`, `identified` (magic,
version, header size), `ready`. The C++ handle stores mapping and layout before it
validates (`shm_handle.cpp:104-107`), the Python handle validates first but looks at the
identifying fields only. The Python ring keeps its descriptor when `create` fails, and is
open from the `mmap` on.

### ShmRelay: rate limits, counters, status

The input callback of a relay (the three components differ in the message type), its
status timer, and the rate limit of `ShmSubscriber` in either language behind it.

| Action | Code |
|---|---|
| `RelaySkips`, `RelayPasses`, `RelaySends`, `RelayDrops` | the input callback, `shm_image_relay_component.cpp` |
| `PublishStatus` | its status timer |
| `SubscriberSkips`, `SubscriberPasses`, `SubscriberDelivers`, `SubscriberFails` | `shm_subscriber.hpp:94-113` |
| `Tick`, `RosJump`, `SensorPublishes` | clocks and sensor |

Clocks are only ever subtracted, so the state keeps *ages* (how long ago a time was
recorded) in place of times. Ages are exact up to the largest limit they are compared
with; above it they are equal. `RosJump` moves the ROS clock while the steady clock
stands. Time may pass inside a callback. Counters wrap at `CounterRange`, which stands for 2^64.

### AdaptedSubscription: the registry and the choice of path

Mapped to `ait/`; `apct/` has the same code. Each publisher and each subscriber is owned
by a thread. A step is what the thread does under one lock or one write to a
subscription: registration, collecting the guards, each trigger, the registry read of
`refresh_subscription`, and its two writes. A trigger runs the refresh in the triggering
thread under the mutex of the guard condition, which is how rclcpp's `GuardCondition`
works (external); the subscriber's constructor refreshes without it. The guards a publisher
has collected are a set whose members carry their interest id, and the smallest is triggered
first: the order of `std::map`.
`SubscribersOverlap` says whether subscribers are constructed or shut down while
publishers come and go in other threads. Where the code has a data race on a
subscription, the model lets its writes interleave.

### AdaptedDelivery: messages on both paths

Extends AdaptedSubscription with what `publish` of every publisher does, mapped to `apct/`:

| Action | Code |
|---|---|
| `Switch` | a step of AdaptedSubscription; subscriptions take their queues with them |
| `Publish`, `Drain` | `enqueue_publish`, `drain_pending_publish` and the first count |
| `CountPublic`, `SendPublic`, `SendLocal` | `publish_now`, `apct/:364-374` |
| `Match`, `Unmatch` | a public publisher learns of a subscription, or of the end of one (the middleware) |
| `HearLocal`, `HearPublic` | the lambdas of `create_local_subscription`, `create_public_subscription` |

Two counts, two sends: subscribers switch between any two of the four. Publishers are the
asynchronous ones; the executor that drains them may run in any thread. A subscriber
has a queue for each of the two `Ways`, local and public. A subscription of
either path delivers what was in its queue when it is called and loses the queue when it
is dropped; queues are deep enough for the messages of a behaviour.

What `getNumSubscribers` counts follows the subscriptions late in both directions. `Match`
adds a subscription to `matched` some time after it was made. A subscription that is given up
leaves `matched`, since it gets no message any more, but goes to `dropped`, where any publisher
of the topic may still count it, or not, until `Unmatch`: its end travels through the
middleware, and an executor may hold it a little longer. `CountPublic` therefore chooses
between the two counts. `shutdown` of a
publisher is not called while `publish_now` of it runs (AdaptedPublish has that race).

`owed` observes who must get the last message of a publisher: a subscriber of its stream
if, from `publish` on, the publisher is the one to follow and no other is just leaving;
one of another adapter type once discovered, as long as both stay.

### AdaptedPublish: the pending message and the timer

Mapped to `apct/`. Callers store the message and reset the timer in two steps; the
executor cancels the timer and takes the message in two steps, then runs `publish_now`;
`shutdown` runs in a thread of its own; subscribers come and go between the reads and
uses of their counts. `adapted_publisher_` is tested and used in two steps; a thread
that would use the null pointer stops. The constant of a behaviour `alone`, chosen in
`Init`, says that `shutdown` overlaps no publishing.

### ShmNames, ShmLayout, ShmMessages, ShmConversions: the pure functions

`ShmNames` normalises names and resolves topics (`shm_name.cpp`, `py/publisher.py`,
`shm_subscriber.cpp`, `parameter_utils.cpp`, the plugins); strings are sequences over the
few characters the code tells apart, one of them a letter that is not ASCII. `ShmLayout`
is the arithmetic of offsets and sizes, modulo `Word` (2^64 in the code). `ShmMessages`
has the four translations of the three message types and the NumPy loaders on bytes.
`ShmOwnership` has the special members of `ShmRingBuffer` and `ShmHandle` with `create`,
`open` and `close`, over the `Objects` of a class, as functions from one state of a process
to the next; descriptors and mappings have numbers that are not used again, so a stale one
is recognised, and a mapping is given back with the size it was made with or wrongly. A
string that was moved from may keep its text (`keepsText`), as the standard allows.
`ShmConversions` gives each job (a name, topic, layout, message, image, cloud or sequence of
calls) to the
code of one end, hands the result to the other, and compares with what is meant. A job of ownership performs
one call per step, up to the `calls` it may make.

## 3. Runs

| Run | Instance | Shows |
|---|---|---|
| `seqlock_ordered` | 1 reader, 2 slots, 2 units, sizes 0-2, 4 writes, both languages at both ends | under program order, copies are intact, frames stay until the writer comes round, only lapped frames are refused, numbers never return; the inductive invariant of the proofs; the ring implements the atomic frame store |
| `seqlock_relaxed` | C++ ends, no machine order, 5 writes | *violated:* a torn copy is accepted |
| `lifecycle_steady` | a C++ and a Python publisher of 2 names, a C++ and a Python subscriber of both, failing creates | exactly the selected frames, no unusable handle, catching up (liveness) |
| `lifecycle_options` | three configurations: a growing ring with re-advertising and subscribers that come and go; fixed slots with crashes, restarts and lost messages; a Python publisher that runs out of memory, is closed and goes on | what is delivered is one whole frame, `write` never refuses what `ensure_buffer` let pass, metadata names complete rings, the name follows the ring, a destroyed publisher leaves nothing |
| `lifecycle_stale` | restart, equal sizes | *violated:* old bytes delivered for new metadata |
| `relay` | three configurations of limits, depths and slot options; 2 ticks a second, one jump of one tick | periods are kept, failures use no limit up, counters add up, "ok" is true, limits let frames through (liveness) |
| `adapted_delivery` | 2 publisher threads, 4 scenarios: 2 subscribers of a stream and 3 tokens, without messages; 1 subscriber, 2 tokens, 2 messages; a subscriber of each of 2 adapter types on one topic with 1 token and 2 messages, and with 2 tokens and 1 message | a mismatch is always pending, everyone settles (liveness); messages arrive once, in order, and the last one at all who must get it; no conversion for a subscriber that became local once the publisher is un-matched |
| `adapted_overlap` | overlapping construction | *violated:* a subscriber stays on the wrong path |
| `adapted_shutdown` | overlapping shutdown | *violated:* a subscription comes back after shutdown |
| `adapted_publish` | 2 callers, 3 messages, either mode, shutdown at any time or alone | no lost wake-up, order, at most once, the latest goes out; without overlap, the private publisher is not used after its reset |
| `conversions` | names to 3, topics to 4 characters, parameters around their limits and a word of 64, every combination of message fields set or not, images and clouds to 3 x 3 with padding, 6 calls in any order on 2 rings or handles | files and topics meet, slots are disjoint, messages survive, arrays are exact, mappings and descriptors have one owner |
| `numpy_images` | images of every listed encoding | *violated:* wide encodings are not read |

**Why the bounds are enough.** Two slots and four writes bring the writer round the ring
twice, so every slot is reused while messages of its earlier frames are still copied; two
units are the fewest that can be torn, and sizes 0 to 2 give the empty, the partial and
the full payload. A reader never influences another one, so one is enough, and the proofs
cover any number. Two objects are a restart; three a restart and a resize, or a failed
create between two good ones. One jump of one tick takes the clock across the shortest
period in either direction; a second jump would act like a longer first one. In the
adapted runs two publisher threads are the fewest whose refreshes can overlap; three
tokens let one of them be replaced; two subscribers of a stream make a trigger go through
a list. With messages, one subscriber of a stream is enough, since subscribers share nothing
but the counts, and the other adapter type makes the public path count; two messages are the
fewest that can be overtaken. Both publishers, both adapter types and both messages at once
are 1.2 million states, too many to check liveness on in minutes, so the scenarios take two of
the three at a time; the proofs cover any number of each. Six calls open two objects, move one out
of the other, use what is left behind and release both. Three messages are one pending, one replaced and one in publication.
`MaxSequence`, `objects` (of a configuration), `calls` (of a job), `MaxToken`, `Scenarios`, `MaxMessages`, `MaxJump` and
`MaxJumps` are the bounds; `CounterRange`, `Word`, `HeaderSize` and `SlotHeaderSize` scale
numbers down.

**Deadlock** is not checked where the system may stop: a publisher crashed or at its
bound, all processes gone, all objects destroyed, a job done.

**Fairness.** ShmLifecycle assumes weak fairness of a subscriber's steps: a spinning
executor takes the messages in its queue and its callbacks return. Nothing is assumed of
publishers, so the latest message may be the last one. ShmRelay assumes that time passes
and that both nodes are spun; nobody is obliged to publish. AdaptedSubscription assumes
that a thread inside a constructor, shutdown or refresh goes on (locks are held over
finite work); nobody is obliged to construct or destroy anything; AdaptedDelivery adds nothing, so publishing,
delivery and discovery may stop at any time. AdaptedPublish assumes
that `publish` returns and that the node is spun: an armed timer of 1 ns is run.

## 4. Findings

What the violated runs say:

1. *Memory order* (`seqlock_relaxed`). `src/README.md:26-28` promises that a copy is
   validated against overwriting; that needs a fence before the second sequence load and
   one after the odd store, or a machine that orders plain accesses.
2. *Cached mapping* (`lifecycle_stale`). The mapping is reused while the
   name is the same (`shm_handle.cpp:73`), numbers start at 2 in every object and
   `generation` is never compared. After a publisher restarts or resizes, a subscriber
   delivers old bytes for new metadata when numbers and sizes agree, and otherwise refuses
   for as long as it keeps the handle. A handle opened between two header stores stays
   unusable in the same way: with restarts `NeverPoisoned` and `CatchesUp` do not hold.
   With `slot_size_bytes` 0 the old object can also be addressed with the offsets of the
   new one, and `DeliveredIsOneFrame` does not hold either.
3. *Constructor's refresh* (`adapted_overlap`) and *shutdown order* (`adapted_shutdown`).
   The refresh of a subscriber's constructor is outside the mutex that serialises the
   triggered ones; `shutdown` clears the trigger after it dropped the subscriptions.
4. *Wide encodings* (`numpy_images`). `NumpyImageLoader` reshapes bytes to
   height x width x channels before it views them as 2- or 4-byte items.

Observations without a run of their own, met while modelling:

* A shared-memory name is derived from the topic only, so two publishers of one topic
  unlink each other's object; `RingIsLinked` is checked for publishers with names of their own.
* An adapted subscriber follows `publishers.front()` only: a second adapted publisher of
  its topic reaches it on no path. When the first one leaves, what the second one publishes
  until the refresh ends is lost as well: its registration stands, the subscriber counts as
  local and listens to the topic of the first (`LatestArrives` without its `Leaving` conjunct
  is violated).
* With overlapping construction (the third finding) a subscriber can end with both
  subscriptions and hear every message twice: `HeardOnceInOrder` and `LatestArrives` are
  violated with `SubscribersOverlap` TRUE.
* `Subscriber` of the adapted transports is copyable by default; a copy shares interest id,
  guard condition and subscriptions, and the destructor of either shuts the other down.
* A Python publisher that gets a `MemoryError` between `mmap` and header keeps an open ring
  that nobody can open, and publishes into it; `AnnouncedRingIsReadable` excludes that error.
  Its default name contains `hash(topic)`, which differs from process to process, so what a
  crash leaves is unlinked by nobody. Its handle leaks a descriptor when validation fails.
* A Python publisher's name with letters that are not ASCII leads a C++ subscriber to
  another file (`SubscriberOpensTheRing` excludes it).
* A negative `slot_size_bytes` is cast, not clamped, and the total can wrap to a small object.
* A relay counts an empty frame as oversized; after a failed resize it reports "waiting for
  first frame"; a ROS clock set back stops it until that is made up for. A user callback
  that throws is not rate limited.
* `src/shm_sensor_transport/README.md:142-145` gives `common.allow_resize` the default true,
  `parameter_utils.cpp:47` false; it also says `common.warn_on_oversized_frame` for
  `diagnostics.warn_on_oversized_frame`, and that the status topic is derived, where the
  default is empty and nothing is published.

## 5. Proofs

Every safety invariant and action property that a passing run checks is a theorem of its
specification, for every value of the constants: any number of processes, slots, names and
messages, any sizes. `PROJECT.json` lists them with the property each one states.

**ShmSeqlockProofs.** `TypeCorrect` holds under either memory model. The rest supposes
`Ordered` (both order constants TRUE): `Inductive`, `CopiesAreIntact`, `FramesAreRetained`,
`RejectionMeansLapped`, `NumbersAreNotReused`, `HistoryIsComplete`,
`FrameStoreIsImplemented`; `seqlock_relaxed` shows that it is needed.
`AcceptedCopyIsIntact` is not inductive: it says nothing of a copy half done. `IndInv` adds
three things. `WriterInv`: the slot under the cursor shows what the writer has stored so far,
in particular the odd number, or a cleared one, while any unit may be new. `FrameInv` and
`RingInv`: a published message's slot shows its number and is then whole, or does not show it
and has been lapped; the distance from its slot to the cursor is the number of writes since,
modulo the ring, so a writer that enters the slot of a message has made at least `SlotCount`
writes since. `ReaderInv`: every unit copied so far is right or the slot has moved on. As
numbers never return, equal numbers before and after the copy mean that the slot did not move
in between. The stores that take a slot's number away, in either language, share the lemma
`MarkingKeepsFrame`. `HistoryInv` adds that every number below the next one was published
once, in the slot of its turn. With it the initial state maps to the empty store, `Publish`
to the append, the last step of a copy to the read, and every other access to no step.

**ShmLifecycleProofs.** `LifecycleInv` says what objects, rings, messages and deliveries are
whatever fails, dies or is resized: a slot that carries a frame's number holds that frame; a
ring in any step of `create` has the descriptor of an object in the matching phase; no two
publishers create one object; a message names an object that has its size. From it:
`TypeCorrect`, `WritesSucceed`, `AnnouncedRingsAreReadable`, `SameObjectIsEnough`,
`FramesAreWhole`. `LinkInv` follows a name through unlink, create, crash and destruction and
supposes `NamesAreOwn`, that no two publishers have one name (section 4 says what happens
otherwise): `RingsStayLinked`, `NothingIsLeft`. `SteadyInv` needs the same and holds while each
ring is created once (`Steady`: no resize, no restart, no memory error): what a reader has
mapped and what its messages mean is one object, `SteadyFramesAreSelected` and
`SteadyHandlesAreUsable`. `lifecycle_stale` shows that the first needs `Steady`.

**ShmRelayProofs.** `MemoryInv`: the age that a relay, or a subscriber, keeps of its last frame
is the one that was observed, or both are none. From it `LimitsAreKept` and `PeriodsAreEarned`,
two action properties, for any periods and any jumps. `StatusIsTrue` uses
its last part, that an open ring has slots of a size and a frame was sent; `FramesAreCounted` is about remainders of
`CounterRange`, so that it holds across a wrap (`Remainders`).

**AdaptedPublishProofs.** `WakeUpsAreKept` is inductive with the types: the lock that stores
the message is followed by a reset of the timer, and only the thread that takes the message
cancels. `OrderInv` puts what was sent, what the executor holds, what is pending and the next
number in one order per route (`OrderOfCalls`); `AloneInv` says where threads may be in each
stage of a shutdown that nothing overlaps (`PrivateIsNotLost`).

**AdaptedSubscriptionProofs.** `StepInv` ties each step of a thread to its registration, its
collected guards and the mutex it holds; it gives `TypeCorrect`, and holds however threads
overlap. `PathInv` and `FollowInv` suppose `~SubscribersOverlap`; `adapted_overlap` and
`adapted_shutdown` show that they need it. `PathInv`: a subscriber nobody refreshes is on one
path, and how far the writes of a refresh have come. `FollowInv` strengthens
`MismatchIsPending` by the refreshes that have read the registry: a subscriber is on the front
topic and nobody is about to take it elsewhere, or the publisher that moved the front topic
has still to tell it. From these `ShutdownEnds`, `MismatchesArePending` and `SettledFollows`.
That a set of guards has a first one, and the registry a front, uses that the natural numbers
are well-founded. `ToldInv`, for the module below: a subscriber that was told of a registered
publisher is not on the public transport.

**AdaptedDeliveryProofs.** `DeliveryIsSwitching`: the composition implements
AdaptedSubscription, so its invariants hold. The rest supposes `~SubscribersOverlap`.
`LocalsCostNoConversionOnceUnmatched` (an action property) follows from `ToldInv` and `MatchInv`,
which says that a discovered subscription exists unless it was given up: a publisher that is up
has told its subscribers, so none of its adapter type is on the public topic, to be counted or
to be given up, and all that it may still count of them are the `dropped` ones, which
`Unmatch` takes away. `OrderInv` orders, per publisher and subscriber,
what was heard, what waits in either queue and what is being sent (`MessagesAreHeardInOrder`).
`OwedInv`: who must get the last message of a publisher can still be reached, and the message
is pending, on the way along the right path, or has arrived (`LatestIsDelivered`). It rests on
`ReachInv`, a consequence of `FollowInv`: a subscriber that must hear a publisher listens to it
and no refresh takes it away.

**ShmConversionsProofs.** `EverythingIsOwnedOnce`: `OwnInv` of a process (every descriptor and
mapping has an owner, no two objects share one, sizes agree) is kept by each special member,
`create`, `open` and `close`, on any number of objects and over any number of calls.
`SlotsNeverOverlap`, `FieldsSurvive` and `ArraysHoldTheMessage` are for every count, size,
shape, padding and value; arrays rest on lemmas about slices of slices. `EverybodyMeets` and
`RingIsFound` are about texts of any length. The library's induction rules cannot be
used here, so the lemmas that need induction over a text take the smallest counterexample,
which exists since the natural numbers are well-founded (`Smallest`).

**Assumptions** on constants, all named in the modules that declare them. A ring has a slot,
a slot holds every size that is written, an object is not empty: `create` and `write` refuse
anything else. A run writes at least one frame (`MaxSequence >= 2`). Publishers and subscribers are
finitely many, distinct, and nobody is called `Nobody`. Messages of a behaviour, clock ticks
per second and jumps are natural numbers; a counter has a range. The header fits the word
(`HeaderSize < Word`; 48 bytes, and 2^64). An image or cloud is as the message
definitions ask: rows at least as long as their pixels or points, data as long as the rows,
fields inside a point that is not empty, and a row if rows are padded (`numpy.frombuffer` and
`numpy.vstack` raise an error otherwise, and so do the definitions). Topics have no letters
that are not ASCII, which ROS forbids; options may have them.

**Only model-checked** are the four liveness properties, `CatchesUp`, `LimitsLetThrough`,
`Settles` and `LatestIsPublished`: they rest on fairness, and ENABLED is out of the prover's
reach. The violated runs are counterexamples on small instances and need no proof.

## 6. Not modelled, and why

The OpenCV and Open3D loaders (a call of another library), QoS construction (data without
behaviour), benchmark, launch files and the Qt side of the RViz displays (glue around
modelled parts). Messages of remote publishers to the public topic of an adapted one. Failing `fstat`,
`mmap` and `shm_open` in a handle close it and are the outcome `ClosedHandle`. A
`KeyboardInterrupt` inside a Python `write` counts as a crash. Destruction of an adapted
publisher during its own timer callback, a subscriber replaced while its callback runs
under a multi-threaded executor, and copies of an adapted `Subscriber` are outside the
model.

Some actions take several statements at once. `Describe` has the last header stores of
`create`: a handle that opens between them has a slot count or a slot size of 0 and can copy
nothing, as before them; the two fields stored last are not read by a copy. `AdoptLocal` has
the shutdown of the public subscription with the two flags behind it, which only refreshes
read: without overlap one at a time runs, under the guard's mutex; the finer interleavings of
overlapping refreshes are left out of `adapted_overlap`, which finds its counterexample
without them. `ShutdownWithdraws` has the end of the registration and of the public publisher
in one step; what subscribers do about either is in `PeersChange`. The status clause of
`TopicsMeet` leaves out topics that already end in `/_shm`, for which the relay's own function
appends a second suffix.

## 7. Plan

Done, in this order: ShmSeqlock with proofs; ShmFrameStore and the refinement;
ShmLifecycle; AdaptedSubscription; AdaptedPublish; the conversions; the Python ring in
ShmSeqlock and ShmLifecycle; ShmRelay; AdaptedDelivery, which composes the adapted modules
with messages; ShmOwnership; subscribers of plugins and displays that come and go in
ShmLifecycle; the proofs of every safety invariant and action property; the frame store as a
theorem, step by step. Next:

1. **Proofs**: a handle of a steady ring refuses lapped frames only; the weakest condition on
   restarts under which `SteadyInv` still holds; what a wrapped total does to
   `SlotsAreDisjoint`.
2. **Composition**: `write` and `copy_payload` as the single steps of ShmLifecycle, stated as
   an implementation of ShmFrameStore like the one of the ring.
