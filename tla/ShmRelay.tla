------------------------------- MODULE ShmRelay -------------------------------
(***************************************************************************)
(* A relay component (image, compressed image or point cloud; the three    *)
(* differ in the message type) between a sensor topic and a subscriber:    *)
(* the input callback with its rate limit on the ROS clock, the counters   *)
(* and the status timer, and the rate limit of ShmSubscriber, C++ or       *)
(* Python, on a steady clock.                                              *)
(*                                                                         *)
(* Both clocks enter the code as differences only, so the model keeps      *)
(* ages: how long ago, by the clock in question, a recorded time lies.     *)
(* Ticks move both clocks.  The ROS clock may jump: simulated time starts  *)
(* over, or the system clock is set.  Ages above a limit are not told      *)
(* apart by any comparison, whatever jumps are left.                       *)
(*                                                                         *)
(* The ring is reduced to what ensure_buffer decides from (ShmLifecycle    *)
(* has the rest), and whether a copy is refused is left open.  The input   *)
(* callback and the status timer are in one mutually exclusive callback    *)
(* group, so neither interrupts the other.                                 *)
(***************************************************************************)
EXTENDS Integers, Sequences

CONSTANTS
  Configurations,   \* what a behaviour may be configured to
  TicksPerSecond,   \* resolution of both clocks
  MaxJump,          \* bound: how far the ROS clock jumps
  MaxJumps,         \* bound: how often it jumps
  CounterRange      \* the counters wrap here (2^64 in the code)

\* common.rate_limit_hz, the subscriber's rate limit, qos.depth,
\* common.slot_size_bytes and common.allow_resize; the sensor's payload sizes.
ConfigurationKinds ==
  [rate : Int, subscriberRate : Int, depth : Int, slotSizeBytes : Nat,
   allowResize : BOOLEAN, sizes : SUBSET Nat]

ASSUME RelayAssumption ==
  /\ Configurations \subseteq ConfigurationKinds
  /\ TicksPerSecond \in Nat \ {0}
  /\ MaxJump \in Nat /\ MaxJumps \in Nat
  /\ CounterRange \in Nat \ {0}

VARIABLES
  config,       \* constant of a behaviour, a member of Configurations
  jumps,        \* jumps of the ROS clock so far
  input,        \* payload sizes in the relay's input queue
  relay,        \* the input callback: its locals and last_published_time_
  ring,         \* is_open() and slot_size() of the relay's publisher
  counters,     \* published_frames_, dropped_frames_, oversized_frames_
  metadata,     \* metadata messages queued at the subscriber
  subscriber,   \* metadata_callback: its local and last_callback_time_
  status,       \* the last status message
  sent,         \* observed: messages sent, and the age of the last one's frame
  passed,       \* observed: frames the relay's rate limit let through
  delivered     \* observed: age of the message delivered last

vars == <<config, jumps, input, relay, ring, counters, metadata, subscriber, status,
          sent, passed, delivered>>
relayState == <<relay, ring, counters, sent, passed>>
subscriberState == <<subscriber, delivered>>

\* declare_relay_parameters and the ShmSubscriber constructors clamp what they
\* are given.
AtLeast(least, n) == IF n < least THEN least ELSE n
Depth == AtLeast(1, config.depth)
PeriodUnclamped(hz) == IF hz = 0 THEN 0 ELSE TicksPerSecond \div hz
PeriodOf(hz) == IF AtLeast(0, hz) = 0 THEN 0 ELSE TicksPerSecond \div hz
RelayPeriod == PeriodOf(config.rate)
SubscriberPeriod == PeriodOf(config.subscriberRate)

\* By the ROS clock and by the steady one.
MaxRosAge == RelayPeriod + MaxJump * MaxJumps
MaxSteadyAge == SubscriberPeriod
Older(ages, ticks, limit) ==
  {IF age + ticks > limit THEN limit ELSE age + ticks : age \in ages}

Counted(n) == (n + 1) % CounterRange

Init ==
  /\ config \in Configurations
  /\ jumps = 0
  /\ input = <<>>
  /\ relay = [pc |-> "idle", frame |-> 0, callback |-> {}, last |-> {}]
  /\ ring = [open |-> FALSE, slotSize |-> 0]
  /\ counters = [published |-> 0, dropped |-> 0, oversized |-> 0]
  /\ metadata = 0
  /\ subscriber = [pc |-> "idle", callback |-> {}, last |-> {}]
  /\ status = {}
  /\ sent = [count |-> 0, age |-> {}]
  /\ passed = 0
  /\ delivered = {}

-----------------------------------------------------------------------------
(* Clocks and the sensor                                                    *)

RosLater(ticks) ==
  /\ relay' = [relay EXCEPT !.callback = Older(@, ticks, MaxRosAge),
                            !.last = Older(@, ticks, MaxRosAge)]
  /\ sent' = [sent EXCEPT !.age = Older(@, ticks, MaxRosAge)]

Tick ==
  /\ RosLater(1)
  /\ subscriber' = [subscriber EXCEPT !.callback = Older(@, 1, MaxSteadyAge),
                                      !.last = Older(@, 1, MaxSteadyAge)]
  /\ delivered' = Older(delivered, 1, MaxSteadyAge)
  /\ UNCHANGED <<config, jumps, input, ring, counters, metadata, status, passed>>

RosJump ==
  /\ jumps < MaxJumps
  /\ jumps' = jumps + 1
  /\ \E ticks \in (-MaxJump)..MaxJump : RosLater(ticks)
  /\ UNCHANGED <<config, input, ring, counters, metadata, subscriberState, status, passed>>

\* A frame enters the relay's queue; KEEP_LAST drops the oldest one.
SensorPublishes ==
  /\ \E size \in config.sizes :
       input' = Append(IF Len(input) = Depth THEN Tail(input) ELSE input, size)
  /\ UNCHANGED <<config, jumps, relayState, metadata, subscriberState, status>>

-----------------------------------------------------------------------------
(* The relay's input callback                                               *)

TooSoon(period, last) == period > 0 /\ \E age \in last : age < period

SkippedAndNoted == [relay EXCEPT !.last = {0}]
Skipped == relay

\* The early return.
RelaySkips ==
  /\ relay.pc = "idle" /\ input # <<>>
  /\ TooSoon(RelayPeriod, relay.last)
  /\ input' = Tail(input)
  /\ relay' = Skipped
  /\ UNCHANGED <<config, jumps, ring, counters, sent, passed, metadata, subscriberState,
                 status>>

\* callback_time is taken on entry, ShmPublisher::publish is called.
RelayPasses ==
  /\ relay.pc = "idle" /\ input # <<>>
  /\ ~TooSoon(RelayPeriod, relay.last)
  /\ input' = Tail(input)
  /\ relay' = [relay EXCEPT !.pc = "publishing", !.frame = Head(input), !.callback = {0}]
  /\ passed' = Counted(passed)
  /\ UNCHANGED <<config, jumps, ring, counters, sent, metadata, subscriberState, status>>

\* ensure_buffer
Fits == ring.open /\ relay.frame <= ring.slotSize
WantedSlotSize == IF config.slotSizeBytes = 0 THEN relay.frame ELSE config.slotSizeBytes
Refused ==
  /\ ~Fits
  /\ \/ ring.open /\ ~config.allowResize
     \/ WantedSlotSize = 0
     \/ relay.frame > WantedSlotSize

PublishedUnnoted == [relay EXCEPT !.pc = "idle", !.callback = {}]
Published == [relay EXCEPT !.pc = "idle", !.callback = {}, !.last = relay.callback]

\* publish() returned true: the frame is in the ring and its metadata is sent,
\* which replaces what a full queue holds, or is lost.
RelaySends ==
  /\ relay.pc = "publishing"
  /\ ~Refused
  /\ ring' = IF Fits THEN ring ELSE [open |-> TRUE, slotSize |-> WantedSlotSize]
  /\ relay' = Published
  /\ counters' = [counters EXCEPT !.published = Counted(@)]
  /\ sent' = [count |-> Counted(sent.count), age |-> relay.callback]
  /\ metadata' \in {metadata, IF metadata = Depth THEN Depth ELSE metadata + 1}
  /\ UNCHANGED <<config, jumps, input, passed, subscriberState, status>>

DroppedAndNoted == [relay EXCEPT !.pc = "idle", !.callback = {}, !.last = relay.callback]
Dropped == [relay EXCEPT !.pc = "idle", !.callback = {}]

CountOversizedOnly(oversized) ==
  counters' = [counters EXCEPT !.dropped = IF oversized THEN Counted(@) ELSE @,
                               !.oversized = IF oversized THEN Counted(@) ELSE @]

CountDrop(oversized) ==
  counters' = [counters EXCEPT !.dropped = Counted(@),
                               !.oversized = IF oversized THEN Counted(@) ELSE @]

\* publish() returned false: the payload does not fit, or create() failed,
\* which leaves the ring closed.
RelayDrops ==
  /\ relay.pc = "publishing"
  /\ \/ Refused /\ UNCHANGED ring
     \/ ~Refused /\ ~Fits /\ ring' = [open |-> FALSE, slotSize |-> WantedSlotSize]
  /\ relay' = Dropped
  /\ CountDrop(Refused)
  /\ UNCHANGED <<config, jumps, input, sent, passed, metadata, subscriberState, status>>

\* The ring the status describes exists.
Described == ring.open /\ ring.slotSize > 0

IsNamed == ring.slotSize > 0
IsOpen == ring.open

\* The status timer, between two callbacks.
PublishStatus ==
  /\ relay.pc = "idle"
  /\ status' = {[message |-> IF IsOpen THEN "ok" ELSE "waiting for first frame",
                 sending |-> sent.age # {} /\ Described]}
  /\ UNCHANGED <<config, jumps, input, relayState, metadata, subscriberState>>

-----------------------------------------------------------------------------
(* ShmSubscriber                                                            *)

SubscriberSkips ==
  /\ subscriber.pc = "idle" /\ metadata > 0
  /\ TooSoon(SubscriberPeriod, subscriber.last)
  /\ metadata' = metadata - 1
  /\ UNCHANGED <<config, jumps, input, relayState, subscriberState, status>>

\* `now' is taken on entry; the copy and the user's callback take their time.
SubscriberPasses ==
  /\ subscriber.pc = "idle" /\ metadata > 0
  /\ ~TooSoon(SubscriberPeriod, subscriber.last)
  /\ metadata' = metadata - 1
  /\ subscriber' = [subscriber EXCEPT !.pc = "copying", !.callback = {0}]
  /\ UNCHANGED <<config, jumps, input, relayState, delivered, status>>

Returned == [subscriber EXCEPT !.pc = "idle", !.callback = {}, !.last = subscriber.callback]

\* The user's callback has returned.
SubscriberDelivers ==
  /\ subscriber.pc = "copying"
  /\ subscriber' = Returned
  /\ delivered' = subscriber.callback
  /\ UNCHANGED <<config, jumps, input, relayState, metadata, status>>

Caught == [subscriber EXCEPT !.pc = "idle", !.callback = {}]

\* The copy is refused, decoding fails, or the user's callback throws.
SubscriberFails ==
  /\ subscriber.pc = "copying"
  /\ subscriber' = Caught
  /\ UNCHANGED <<config, jumps, input, relayState, delivered, metadata, status>>

-----------------------------------------------------------------------------

RelayStep == RelaySkips \/ RelayPasses \/ RelaySends \/ RelayDrops
SubscriberStep ==
  SubscriberSkips \/ SubscriberPasses \/ SubscriberDelivers \/ SubscriberFails

Next ==
  \/ Tick \/ RosJump \/ SensorPublishes
  \/ RelayStep \/ PublishStatus
  \/ SubscriberStep

\* Time passes, and both nodes are spun.  Nobody is obliged to publish.
Fairness == WF_vars(Tick) /\ WF_vars(RelayStep) /\ WF_vars(SubscriberStep)

Spec == Init /\ [][Next]_vars /\ Fairness

-----------------------------------------------------------------------------

AtMostOne(S) == {{}} \cup {{a} : a \in S}
RosAges == AtMostOne((-(MaxJump * jumps))..MaxRosAge)
SteadyAges == AtMostOne(0..MaxSteadyAge)
Counts == 0..(CounterRange - 1)

\* Every variable keeps its range: the queues never exceed the configured
\* depth, and no recorded time lies further ahead than the clock was set back.
TypeOK ==
  /\ config \in Configurations
  /\ jumps \in 0..MaxJumps
  /\ input \in Seq(config.sizes) /\ Len(input) <= Depth
  /\ relay \in [pc : {"idle", "publishing"}, frame : config.sizes \cup {0},
                callback : RosAges, last : RosAges]
  /\ ring \in [open : BOOLEAN, slotSize : Nat]
  /\ counters \in [published : Counts, dropped : Counts, oversized : Counts]
  /\ sent \in [count : Counts, age : RosAges]
  /\ passed \in Counts
  /\ metadata \in 0..Depth
  /\ subscriber \in [pc : {"idle", "copying"}, callback : SteadyAges, last : SteadyAges]
  /\ delivered \in SteadyAges
  /\ status \subseteq [message : {"ok", "waiting for first frame"}, sending : BOOLEAN]

\* image_callback publishes no two frames whose callbacks began less than a
\* period apart by the ROS clock, and metadata_callback calls the user no more
\* often than its period allows by the steady clock, however the clocks move
\* while a callback runs.
PeriodsAreKept ==
  /\ [][RelayPasses /\ RelayPeriod > 0 => \A age \in sent.age : age >= RelayPeriod]_vars
  /\ [][SubscriberPasses => \A age \in delivered : age >= SubscriberPeriod]_vars

\* A limit spends its period on frames that get through only: the relay skips a
\* frame only if it sent another one less than a period ago, never after a frame
\* that was too large or whose ring could not be created, and the subscriber
\* only if it delivered one, never after a refused copy.
FailuresAreFree ==
  /\ [][RelaySkips => \E age \in sent.age : age < RelayPeriod]_vars
  /\ [][SubscriberSkips => \E age \in delivered : age < SubscriberPeriod]_vars

\* The frame the input callback is busy with, if any.
InProgress == IF relay.pc = "idle" THEN 0 ELSE 1

\* The counters of the status message: every frame that passed the rate limit is
\* counted once, as published when its metadata was sent, else as dropped.
CountersAddUp ==
  /\ counters.published = sent.count
  /\ passed = (counters.published + counters.dropped + InProgress) % CounterRange

\* A status of "ok" means that a frame has been sent and that the ring it went
\* to is the one described.
OkMeansSending ==
  \A s \in status : s.message = "ok" => s.sending

\* What relay and subscriber remember of their last frame is what was observed of
\* it, a frame has its callback's time, and an open ring has a size and a frame.
MemoryInv ==
  /\ relay.last = sent.age
  /\ subscriber.last = delivered
  /\ relay.pc = "publishing" => relay.callback # {}
  /\ subscriber.pc = "copying" => subscriber.callback # {}
  /\ ring.open => ring.slotSize > 0 /\ sent.age # {}

\* The limits delay and never choke: a relay that keeps getting frames keeps
\* letting some through once the clock is no longer set back, and a subscriber
\* that keeps getting metadata keeps copying.
LimitsLetThrough ==
  /\ []<>(input # <<>>) => []<>(relay.pc = "publishing")
  /\ []<>(metadata > 0) => []<>(subscriber.pc = "copying")
===============================================================================
