---------------------------- MODULE ShmRelayProofs ----------------------------
(***************************************************************************)
(* Theorems about ShmRelay for every configuration, clock resolution,      *)
(* number and size of clock jumps, and width of the counters.              *)
(***************************************************************************)
EXTENDS ShmRelay, Remainders

-----------------------------------------------------------------------------
(* Helpers                                                                  *)

LEMMA PeriodIsNat ==
  ASSUME NEW hz \in Int
  PROVE  PeriodOf(hz) \in Nat
  <1>1. CASE hz <= 0
    BY <1>1 DEF PeriodOf, AtLeast
  <1>2. CASE hz > 0
    <2>1. TicksPerSecond \div hz \in Nat
      BY <1>2, RelayAssumption
    <2> QED
      BY <1>2, <2>1 DEF PeriodOf, AtLeast
  <1> QED
    BY <1>1, <1>2

LEMMA Limits ==
  ASSUME config \in Configurations
  PROVE  /\ RelayPeriod \in Nat /\ SubscriberPeriod \in Nat
         /\ MaxRosAge \in Nat /\ MaxSteadyAge \in Nat
         /\ Depth \in Nat \ {0}
         /\ config.sizes \subseteq Nat /\ config.slotSizeBytes \in Nat
  <1>1. config \in ConfigurationKinds
    BY RelayAssumption
  <1>2. RelayPeriod \in Nat /\ SubscriberPeriod \in Nat
    BY <1>1, PeriodIsNat DEF RelayPeriod, SubscriberPeriod, ConfigurationKinds
  <1>3. MaxJump * MaxJumps \in Nat
    BY RelayAssumption
  <1>4. Depth \in Nat \ {0}
    BY <1>1 DEF Depth, AtLeast, ConfigurationKinds
  <1> QED
    BY <1>1, <1>2, <1>3, <1>4 DEF MaxRosAge, MaxSteadyAge, ConfigurationKinds

\* Time that passes moves ages within their range and forgets none.
LEMMA OlderAges ==
  ASSUME NEW low \in Int, NEW limit \in Int, NEW ticks \in Int,
         NEW ages \in AtMostOne(low..limit)
  PROVE  /\ ages # {} => Older(ages, ticks, limit) # {}
         /\ \A least \in Int : least <= low + ticks /\ least <= limit =>
              Older(ages, ticks, limit) \in AtMostOne(least..limit)
  <1>1. CASE ages = {}
    BY <1>1 DEF Older, AtMostOne
  <1>2. ASSUME NEW a \in low..limit, ages = {a}
        PROVE  /\ Older(ages, ticks, limit) # {}
               /\ \A least \in Int : least <= low + ticks /\ least <= limit =>
                    Older(ages, ticks, limit) \in AtMostOne(least..limit)
    <2> DEFINE b == IF a + ticks > limit THEN limit ELSE a + ticks
    <2>1. Older(ages, ticks, limit) = {b}
      BY <1>2 DEF Older
    <2>2. \A least \in Int : least <= low + ticks /\ least <= limit => b \in least..limit
      OBVIOUS
    <2> HIDE DEF b
    <2> QED
      BY <2>1, <2>2 DEF AtMostOne
  <1> QED
    BY <1>1, <1>2 DEF AtMostOne

\* The ROS clock may have been set back MaxJump ticks at every jump.
LEMMA JumpsAddUp ==
  ASSUME NEW n \in Nat
  PROVE  /\ -(MaxJump * n) \in Int /\ -(MaxJump * n) <= 0
         /\ -(MaxJump * (n + 1)) = -(MaxJump * n) - MaxJump
  <1>1. MaxJump \in Nat
    BY RelayAssumption
  <1>2. MaxJump * n \in Nat /\ MaxJump * (n + 1) = MaxJump * n + MaxJump
    BY <1>1
  <1> QED
    BY <1>1, <1>2

LEMMA CountedIsCount ==
  ASSUME NEW n \in Counts
  PROVE  Counted(n) \in Counts /\ n \in Nat
  BY RelayAssumption DEF Counted, Counts

LEMMA SameRanges ==
  ASSUME config' = config
  PROVE  /\ SteadyAges' = SteadyAges /\ Depth' = Depth
         /\ RelayPeriod' = RelayPeriod /\ SubscriberPeriod' = SubscriberPeriod
         /\ MaxRosAge' = MaxRosAge /\ MaxSteadyAge' = MaxSteadyAge
         /\ jumps' = jumps => RosAges' = RosAges
  BY DEF SteadyAges, RosAges, Depth, MaxRosAge, MaxSteadyAge, RelayPeriod,
         SubscriberPeriod

\* A time just taken and no time at all are in range.
LEMMA FreshAges ==
  ASSUME config \in Configurations, jumps \in Nat
  PROVE  {{0}, {}} \subseteq RosAges /\ {{0}, {}} \subseteq SteadyAges
  <1>1. MaxRosAge \in Nat /\ MaxSteadyAge \in Nat
    BY Limits
  <1>2. -(MaxJump * jumps) \in Int /\ -(MaxJump * jumps) <= 0
    BY JumpsAddUp
  <1>3. 0 \in (-(MaxJump * jumps))..MaxRosAge /\ 0 \in 0..MaxSteadyAge
    BY <1>1, <1>2
  <1> QED
    BY <1>3 DEF RosAges, SteadyAges, AtMostOne

-----------------------------------------------------------------------------
(* Typing                                                                   *)

LEMMA TypingInit == Init => TypeOK
  <1> SUFFICES ASSUME Init PROVE TypeOK
    OBVIOUS
  <1>1. config \in Configurations /\ jumps = 0 /\ jumps \in 0..MaxJumps
    BY RelayAssumption DEF Init
  <1>2. {} \in RosAges /\ {} \in SteadyAges
    BY <1>1, FreshAges
  <1>3. Depth \in Nat /\ 0 \in Counts
    BY <1>1, Limits, RelayAssumption DEF Counts
  <1>4. input \in Seq(config.sizes) /\ Len(input) <= Depth /\ metadata \in 0..Depth
    BY <1>3 DEF Init
  <1> QED
    BY <1>1, <1>2, <1>3, <1>4 DEF Init, TypeOK

\* The ages of the ROS clock stay in range when it moves on or jumps.
LEMMA RosLaterKeepsAges ==
  ASSUME TypeOK, NEW ticks \in Int, RosLater(ticks), config' = config, jumps' \in Nat,
         \/ jumps' = jumps /\ ticks = 1
         \/ jumps' = jumps + 1 /\ ticks \in (-MaxJump)..MaxJump
  PROVE  /\ relay' \in [pc : {"idle", "publishing"}, frame : config.sizes \cup {0},
                        callback : RosAges', last : RosAges']
         /\ sent' \in [count : Counts, age : RosAges']
         /\ relay'.pc = relay.pc /\ sent'.count = sent.count
         /\ relay.last = sent.age => relay'.last = sent'.age
         /\ relay.callback # {} => relay'.callback # {}
         /\ sent.age # {} => sent'.age # {}
  <1> DEFINE low == -(MaxJump * jumps)
             least == -(MaxJump * jumps')
             later(ages) == Older(ages, ticks, MaxRosAge)
  <1>1. /\ low \in Int /\ least \in Int /\ MaxRosAge \in Nat /\ MaxRosAge' = MaxRosAge
        /\ least <= 0 /\ jumps \in Nat /\ MaxJump \in Nat
    <2>0. config \in Configurations /\ jumps \in 0..MaxJumps
      BY DEF TypeOK
    <2>1. config \in Configurations /\ jumps \in Nat /\ MaxJump \in Nat
      BY <2>0, RelayAssumption
    <2>2. MaxRosAge \in Nat /\ MaxRosAge' = MaxRosAge
      BY <2>1, Limits, SameRanges
    <2>3. low \in Int
      BY <2>1, JumpsAddUp
    <2>4. least \in Int /\ least <= 0
      BY JumpsAddUp
    <2> QED
      BY <2>1, <2>2, <2>3, <2>4
  <1>2. least <= low + ticks /\ least <= MaxRosAge
    <2>1. CASE jumps' = jumps /\ ticks = 1
      BY <1>1, <2>1
    <2>2. CASE jumps' = jumps + 1 /\ ticks \in (-MaxJump)..MaxJump
      <3>1. least = low - MaxJump
        BY <1>1, <2>2, JumpsAddUp
      <3> HIDE DEF low, least
      <3> QED
        BY <1>1, <2>2, <3>1
    <2> QED
      BY <2>1, <2>2
  <1>3. ASSUME NEW ages \in RosAges
        PROVE  later(ages) \in RosAges' /\ (ages # {} => later(ages) # {})
    <2>1. ages \in AtMostOne(low..MaxRosAge)
      BY <1>3 DEF RosAges
    <2> HIDE DEF low, least
    <2>2. later(ages) \in AtMostOne(least..MaxRosAge) /\ (ages # {} => later(ages) # {})
      BY <1>1, <1>2, <2>1, OlderAges
    <2> QED
      BY <1>1, <2>2 DEF RosAges, least
  <1>4. /\ relay' = [relay EXCEPT !.callback = later(relay.callback),
                                  !.last = later(relay.last)]
        /\ sent' = [sent EXCEPT !.age = later(sent.age)]
    BY DEF RosLater
  <1>5. /\ relay.callback \in RosAges /\ relay.last \in RosAges /\ sent.age \in RosAges
        /\ relay \in [pc : {"idle", "publishing"}, frame : config.sizes \cup {0},
                      callback : RosAges, last : RosAges]
        /\ sent \in [count : Counts, age : RosAges]
    BY DEF TypeOK
  <1> HIDE DEF later
  <1> QED
    BY <1>3, <1>4, <1>5

LEMMA SteadyLaterKeepsAges ==
  ASSUME config \in Configurations, NEW ages \in SteadyAges
  PROVE  /\ Older(ages, 1, MaxSteadyAge) \in SteadyAges
         /\ ages # {} => Older(ages, 1, MaxSteadyAge) # {}
  <1>1. MaxSteadyAge \in Nat
    BY Limits
  <1>2. 0 <= 0 + 1 /\ 0 <= MaxSteadyAge /\ 0 \in Int /\ MaxSteadyAge \in Int
    BY <1>1
  <1> QED
    BY <1>2, OlderAges DEF SteadyAges

\* The parts of the typing invariant that the steps need.
LEMMA Parts ==
  ASSUME TypeOK
  PROVE  /\ config \in Configurations /\ jumps \in 0..MaxJumps /\ jumps \in Nat
         /\ input \in Seq(config.sizes) /\ Len(input) <= Depth
         /\ relay \in [pc : {"idle", "publishing"}, frame : config.sizes \cup {0},
                       callback : RosAges, last : RosAges]
         /\ ring \in [open : BOOLEAN, slotSize : Nat]
         /\ counters \in [published : Counts, dropped : Counts, oversized : Counts]
         /\ sent \in [count : Counts, age : RosAges]
         /\ metadata \in 0..Depth
         /\ subscriber \in [pc : {"idle", "copying"}, callback : SteadyAges,
                            last : SteadyAges]
         /\ delivered \in SteadyAges
         /\ {{0}, {}} \subseteq RosAges /\ {{0}, {}} \subseteq SteadyAges
         /\ Depth \in Nat \ {0} /\ config.sizes \subseteq Nat
         /\ WantedSlotSize \in Nat
  <1>1. config \in Configurations /\ jumps \in 0..MaxJumps
    BY DEF TypeOK
  <1>2. jumps \in Nat
    BY <1>1, RelayAssumption
  <1>3. {{0}, {}} \subseteq RosAges /\ {{0}, {}} \subseteq SteadyAges
    BY <1>1, <1>2, FreshAges
  <1>4. Depth \in Nat \ {0} /\ config.sizes \subseteq Nat /\ config.slotSizeBytes \in Nat
    BY <1>1, Limits
  <1>5. relay.frame \in config.sizes \cup {0}
    BY DEF TypeOK
  <1>6. WantedSlotSize \in Nat
    BY <1>4, <1>5 DEF WantedSlotSize
  <1> QED
    BY <1>1, <1>2, <1>3, <1>4, <1>6 DEF TypeOK

\* What a step leaves alone keeps its type.
LEMMA TypingOfRest ==
  ASSUME TypeOK, config' = config, jumps' = jumps
  PROVE  /\ RosAges' = RosAges /\ SteadyAges' = SteadyAges /\ Depth' = Depth
         /\ config' \in Configurations /\ jumps' \in 0..MaxJumps
         /\ UNCHANGED input => input' \in Seq(config'.sizes) /\ Len(input') <= Depth'
         /\ UNCHANGED status =>
              status' \subseteq [message : {"ok", "waiting for first frame"},
                                 sending : BOOLEAN]
         /\ UNCHANGED passed => passed' \in Counts
  BY SameRanges DEF TypeOK

LEMMA TypingClocks ==
  ASSUME TypeOK, Tick \/ RosJump
  PROVE  TypeOK'
  <1>0. /\ config' = config /\ jumps \in 0..MaxJumps /\ jumps' \in Nat
        /\ UNCHANGED <<input, ring, counters, metadata, status, passed>>
    BY Parts DEF Tick, RosJump
  <1>1. jumps' \in 0..MaxJumps
    BY <1>0, RelayAssumption DEF RosJump, Tick
  <1>2. PICK ticks \in Int :
          /\ RosLater(ticks)
          /\ \/ jumps' = jumps /\ ticks = 1
             \/ jumps' = jumps + 1 /\ ticks \in (-MaxJump)..MaxJump
    BY RelayAssumption DEF Tick, RosJump
  <1>3. /\ relay' \in [pc : {"idle", "publishing"}, frame : config.sizes \cup {0},
                       callback : RosAges', last : RosAges']
        /\ sent' \in [count : Counts, age : RosAges']
    BY <1>0, <1>2, RosLaterKeepsAges
  <1>4. /\ subscriber' \in [pc : {"idle", "copying"}, callback : SteadyAges,
                            last : SteadyAges]
        /\ delivered' \in SteadyAges
    <2>1. /\ config \in Configurations /\ delivered \in SteadyAges
          /\ subscriber \in [pc : {"idle", "copying"}, callback : SteadyAges,
                             last : SteadyAges]
      BY Parts
    <2>2. CASE RosJump
      BY <2>1, <2>2 DEF RosJump, subscriberState
    <2>3. CASE Tick
      <3>1. /\ Older(delivered, 1, MaxSteadyAge) \in SteadyAges
            /\ Older(subscriber.callback, 1, MaxSteadyAge) \in SteadyAges
            /\ Older(subscriber.last, 1, MaxSteadyAge) \in SteadyAges
        BY <2>1, SteadyLaterKeepsAges
      <3> QED
        BY <2>1, <2>3, <3>1 DEF Tick
    <2> QED
      BY <2>2, <2>3
  <1>5. SteadyAges' = SteadyAges /\ Depth' = Depth
    BY <1>0, SameRanges
  <1> QED
    BY <1>0, <1>1, <1>3, <1>4, <1>5 DEF TypeOK

LEMMA TypingRelay ==
  ASSUME TypeOK, RelayStep \/ SensorPublishes \/ PublishStatus
  PROVE  TypeOK'
  <1>0. config' = config /\ jumps' = jumps
    BY DEF RelayStep, SensorPublishes, PublishStatus, RelaySkips, RelayPasses,
           RelaySends, RelayDrops
  <1>1. CASE SensorPublishes
    <2>1. PICK size \in config.sizes :
            input' = Append(IF Len(input) = Depth THEN Tail(input) ELSE input, size)
      BY <1>1 DEF SensorPublishes
    <2>2. input' \in Seq(config.sizes) /\ Len(input') <= Depth
      <3> DEFINE kept == IF Len(input) = Depth THEN Tail(input) ELSE input
      <3>1. /\ input \in Seq(config.sizes) /\ Len(input) <= Depth
            /\ Depth \in Nat \ {0}
        BY Parts
      <3>2. kept \in Seq(config.sizes) /\ Len(kept) + 1 <= Depth
        <4>1. CASE Len(input) = Depth
          BY <3>1, <4>1
        <4>2. CASE Len(input) # Depth
          BY <3>1, <4>2
        <4> QED
          BY <4>1, <4>2
      <3> HIDE DEF kept
      <3>3. Append(kept, size) \in Seq(config.sizes) /\ Len(Append(kept, size)) = Len(kept) + 1
        BY <3>2
      <3>4. input' = Append(kept, size)
        BY <2>1 DEF kept
      <3> QED
        BY <3>2, <3>3, <3>4
    <2>3. UNCHANGED <<relayState, metadata, subscriberState, status>>
      BY <1>1 DEF SensorPublishes
    <2> QED
      BY <1>0, <2>2, <2>3, TypingOfRest DEF TypeOK, relayState, subscriberState
  <1>2. CASE PublishStatus
    <2>1. status' \subseteq [message : {"ok", "waiting for first frame"}, sending : BOOLEAN]
      <3> DEFINE m == IF IsOpen THEN "ok" ELSE "waiting for first frame"
                 b == sent.age # {} /\ Described
      <3>1. m \in {"ok", "waiting for first frame"} /\ b \in BOOLEAN
        BY Zenon
      <3>2. status' = {[message |-> m, sending |-> b]}
        BY <1>2 DEF PublishStatus
      <3> HIDE DEF m, b
      <3>3. [message |-> m, sending |-> b] \in
              [message : {"ok", "waiting for first frame"}, sending : BOOLEAN]
        BY <3>1, Zenon
      <3> QED
        BY <3>2, <3>3, Zenon
    <2> QED
      BY <1>0, <1>2, <2>1, TypingOfRest
      DEF PublishStatus, TypeOK, relayState, subscriberState
  <1>3. CASE RelaySkips
    <2>1. input' \in Seq(config.sizes) /\ Len(input') <= Depth
      BY <1>3, Parts DEF RelaySkips
    <2> QED
      BY <1>0, <1>3, <2>1, TypingOfRest DEF RelaySkips, Skipped, TypeOK, subscriberState
  <1>4. CASE RelayPasses
    <2>1. /\ input' \in Seq(config.sizes) /\ Len(input') <= Depth
          /\ Head(input) \in config.sizes
      BY <1>4, Parts DEF RelayPasses
    <2>2. passed' \in Counts
      BY <1>4, CountedIsCount DEF RelayPasses, TypeOK
    <2>3. relay' \in [pc : {"idle", "publishing"}, frame : config.sizes \cup {0},
                      callback : RosAges, last : RosAges]
      BY <1>4, <2>1, Parts DEF RelayPasses
    <2> QED
      BY <1>0, <1>4, <2>1, <2>2, <2>3, TypingOfRest
      DEF RelayPasses, TypeOK, subscriberState
  <1>5. CASE RelaySends
    <2>1. counters' \in [published : Counts, dropped : Counts, oversized : Counts]
      BY <1>5, Parts, CountedIsCount DEF RelaySends
    <2>2. sent' \in [count : Counts, age : RosAges]
      BY <1>5, Parts, CountedIsCount DEF RelaySends
    <2>3. ring' \in [open : BOOLEAN, slotSize : Nat]
      BY <1>5, Parts DEF RelaySends
    <2>4. relay' \in [pc : {"idle", "publishing"}, frame : config.sizes \cup {0},
                      callback : RosAges, last : RosAges]
      BY <1>5, Parts DEF RelaySends, Published
    <2>5. metadata' \in 0..Depth
      BY <1>5, Parts DEF RelaySends
    <2> QED
      BY <1>0, <1>5, <2>1, <2>2, <2>3, <2>4, <2>5, TypingOfRest
      DEF RelaySends, TypeOK, subscriberState
  <1>6. CASE RelayDrops
    <2>1. counters' \in [published : Counts, dropped : Counts, oversized : Counts]
      <3>1. counters \in [published : Counts, dropped : Counts, oversized : Counts]
        BY Parts
      <3>2. Counted(counters.dropped) \in Counts /\ Counted(counters.oversized) \in Counts
        BY <3>1, CountedIsCount
      <3>3. CountDrop(Refused)
        BY <1>6 DEF RelayDrops
      <3>4. CASE Refused
        BY <3>1, <3>2, <3>3, <3>4 DEF CountDrop
      <3>5. CASE ~Refused
        BY <3>1, <3>2, <3>3, <3>5 DEF CountDrop
      <3> QED
        BY <3>4, <3>5
    <2>2. ring' \in [open : BOOLEAN, slotSize : Nat]
      <3>1. ring \in [open : BOOLEAN, slotSize : Nat] /\ WantedSlotSize \in Nat
        BY Parts
      <3>2. ring' = ring \/ ring' = [open |-> FALSE, slotSize |-> WantedSlotSize]
        BY <1>6 DEF RelayDrops
      <3>3. [open |-> FALSE, slotSize |-> WantedSlotSize] \in [open : BOOLEAN, slotSize : Nat]
        BY <3>1
      <3> QED
        BY <3>1, <3>2, <3>3, Zenon
    <2>3. relay' \in [pc : {"idle", "publishing"}, frame : config.sizes \cup {0},
                      callback : RosAges, last : RosAges]
      BY <1>6, Parts DEF RelayDrops, Dropped
    <2> QED
      BY <1>0, <1>6, <2>1, <2>2, <2>3, TypingOfRest DEF RelayDrops, TypeOK, subscriberState
  <1> QED
    BY <1>1, <1>2, <1>3, <1>4, <1>5, <1>6 DEF RelayStep

LEMMA TypingSubscriber ==
  ASSUME TypeOK, SubscriberStep
  PROVE  TypeOK'
  <1>0. /\ config' = config /\ jumps' = jumps
        /\ UNCHANGED <<input, relay, ring, counters, sent, passed, status>>
    BY DEF SubscriberStep, SubscriberSkips, SubscriberPasses, SubscriberDelivers,
           SubscriberFails, relayState
  <1>1. metadata' \in 0..Depth
    BY Parts DEF SubscriberStep, SubscriberSkips, SubscriberPasses, SubscriberDelivers,
                 SubscriberFails
  <1>2. /\ subscriber' \in [pc : {"idle", "copying"}, callback : SteadyAges,
                            last : SteadyAges]
        /\ delivered' \in SteadyAges
    BY Parts DEF SubscriberStep, SubscriberSkips, SubscriberPasses, SubscriberDelivers,
                 SubscriberFails, subscriberState, Returned, Caught
  <1> QED
    BY <1>0, <1>1, <1>2, TypingOfRest DEF TypeOK

\* The queues of relay and subscriber keep to the configured depth, the counters
\* to their width, and recorded times to the range the clock can be set back.
THEOREM TypeCorrect == Spec => []TypeOK
  <1>1. TypeOK /\ [Next]_vars => TypeOK'
    <2>1. TypeOK /\ UNCHANGED vars => TypeOK'
      BY DEF TypeOK, vars, RosAges, SteadyAges, Depth, MaxRosAge, MaxSteadyAge,
             RelayPeriod, SubscriberPeriod
    <2> QED
      BY <2>1, TypingClocks, TypingRelay, TypingSubscriber DEF Next
  <1> QED
    BY <1>1, TypingInit, PTL DEF Spec

-----------------------------------------------------------------------------
(* What is remembered of the last frame                                     *)

LEMMA MemoryStep ==
  ASSUME TypeOK, MemoryInv, [Next]_vars
  PROVE  MemoryInv'
  <1> USE DEF MemoryInv
  <1>1. CASE Tick \/ RosJump
    <2>1. PICK ticks \in Int :
            /\ RosLater(ticks)
            /\ \/ jumps' = jumps /\ ticks = 1
               \/ jumps' = jumps + 1 /\ ticks \in (-MaxJump)..MaxJump
      BY <1>1, RelayAssumption DEF Tick, RosJump
    <2>2. config' = config /\ jumps' \in Nat /\ UNCHANGED ring
      BY <1>1, Parts DEF Tick, RosJump
    <2>3. /\ relay'.pc = relay.pc /\ relay'.last = sent'.age
          /\ relay.callback # {} => relay'.callback # {}
          /\ sent.age # {} => sent'.age # {}
      BY <2>1, <2>2, RosLaterKeepsAges
    <2>4. /\ subscriber'.pc = subscriber.pc /\ subscriber'.last = delivered'
          /\ subscriber.callback # {} => subscriber'.callback # {}
      <3>1. CASE RosJump
        BY <3>1 DEF RosJump, subscriberState
      <3>2. CASE Tick
        <4>1. /\ config \in Configurations /\ subscriber.callback \in SteadyAges
              /\ subscriber \in [pc : {"idle", "copying"}, callback : SteadyAges,
                                 last : SteadyAges]
          BY Parts
        <4>2. subscriber.callback # {} => Older(subscriber.callback, 1, MaxSteadyAge) # {}
          BY <4>1, SteadyLaterKeepsAges
        <4> QED
          BY <3>2, <4>1, <4>2 DEF Tick
      <3> QED
        BY <1>1, <3>1, <3>2
    <2> QED
      BY <2>2, <2>3, <2>4
  <1>2. CASE SensorPublishes \/ PublishStatus
    BY <1>2 DEF SensorPublishes, PublishStatus, relayState, subscriberState
  <1>3. CASE RelaySkips
    BY <1>3 DEF RelaySkips, Skipped, subscriberState
  <1>4. CASE RelayPasses
    BY <1>4, Parts DEF RelayPasses, subscriberState
  <1>5. CASE RelaySends
    <2>1. relay'.last = sent'.age /\ sent'.age # {} /\ relay'.pc = "idle"
      BY <1>5, Parts DEF RelaySends, Published
    <2>2. ring'.slotSize > 0
      <3>1. CASE Fits
        BY <1>5, <3>1 DEF RelaySends, Fits
      <3>2. CASE ~Fits
        <4>1. WantedSlotSize # 0 /\ WantedSlotSize \in Nat
          BY <1>5, <3>2, Parts DEF RelaySends, Refused
        <4> QED
          BY <1>5, <3>2, <4>1 DEF RelaySends
      <3> QED
        BY <3>1, <3>2
    <2> QED
      BY <1>5, <2>1, <2>2 DEF RelaySends, subscriberState
  <1>6. CASE RelayDrops
    <2>1. relay'.last = relay.last /\ relay'.pc = "idle"
      BY <1>6, Parts DEF RelayDrops, Dropped
    <2>2. ring'.open => ring' = ring
      BY <1>6 DEF RelayDrops
    <2> QED
      BY <1>6, <2>1, <2>2 DEF RelayDrops, subscriberState
  <1>7. CASE SubscriberStep
    BY <1>7, Parts
    DEF SubscriberStep, SubscriberSkips, SubscriberPasses, SubscriberDelivers,
        SubscriberFails, subscriberState, relayState, Returned, Caught
  <1>8. CASE UNCHANGED vars
    BY <1>8 DEF vars
  <1> QED
    BY <1>1, <1>2, <1>3, <1>4, <1>5, <1>6, <1>7, <1>8 DEF Next, RelayStep

LEMMA Memory == Spec => []MemoryInv
  <1>1. Init => MemoryInv
    BY DEF Init, MemoryInv
  <1>2. TypeOK /\ MemoryInv /\ [Next]_vars => MemoryInv'
    BY MemoryStep
  <1> QED
    BY <1>1, <1>2, TypeCorrect, PTL DEF Spec

-----------------------------------------------------------------------------
(* Theorems                                                                 *)

\* The relay's limit is kept by the clock its callbacks read, the subscriber's by
\* the steady clock, whatever time passes, or the ROS clock jumps, in a callback.
THEOREM LimitsAreKept == Spec => PeriodsAreKept
  <1>1. TypeOK /\ MemoryInv /\ [Next]_vars =>
          [RelayPasses /\ RelayPeriod > 0 => \A age \in sent.age : age >= RelayPeriod]_vars
    <2> SUFFICES ASSUME TypeOK, MemoryInv, RelayPasses, RelayPeriod > 0,
                        NEW age \in sent.age
                 PROVE  age >= RelayPeriod
      OBVIOUS
    <2>1. RelayPeriod \in Nat /\ sent.age \in RosAges
      BY Parts, Limits
    <2>2. age \in Int
      <3>1. -(MaxJump * jumps) \in Int /\ MaxRosAge \in Nat
        BY Parts, JumpsAddUp, Limits
      <3> HIDE DEF RosAges
      <3>2. sent.age = {} \/ \E a \in (-(MaxJump * jumps))..MaxRosAge : sent.age = {a}
        BY <2>1 DEF RosAges, AtMostOne
      <3> QED
        BY <3>1, <3>2
    <2>3. ~(age < RelayPeriod)
      BY DEF RelayPasses, TooSoon, MemoryInv
    <2> QED
      BY <2>1, <2>2, <2>3
  <1>2. TypeOK /\ MemoryInv /\ [Next]_vars =>
          [SubscriberPasses => \A age \in delivered : age >= SubscriberPeriod]_vars
    <2> SUFFICES ASSUME TypeOK, MemoryInv, SubscriberPasses, NEW age \in delivered
                 PROVE  age >= SubscriberPeriod
      OBVIOUS
    <2>1. SubscriberPeriod \in Nat /\ MaxSteadyAge \in Nat /\ delivered \in SteadyAges
      BY Parts, Limits
    <2>2. age \in Nat
      BY <2>1 DEF SteadyAges, AtMostOne
    <2>3. SubscriberPeriod > 0 => ~(age < SubscriberPeriod)
      BY DEF SubscriberPasses, TooSoon, MemoryInv
    <2> QED
      BY <2>1, <2>2, <2>3
  <1> QED
    BY <1>1, <1>2, TypeCorrect, Memory, PTL DEF Spec, PeriodsAreKept

\* Only a frame that was sent, or delivered, starts a period.
THEOREM PeriodsAreEarned == Spec => FailuresAreFree
  <1>1. MemoryInv /\ [Next]_vars =>
          [RelaySkips => \E age \in sent.age : age < RelayPeriod]_vars
    BY DEF MemoryInv, RelaySkips, TooSoon
  <1>2. MemoryInv /\ [Next]_vars =>
          [SubscriberSkips => \E age \in delivered : age < SubscriberPeriod]_vars
    BY DEF MemoryInv, SubscriberSkips, TooSoon
  <1> QED
    BY <1>1, <1>2, Memory, PTL DEF Spec, FailuresAreFree

\* The status message says "ok" only of a ring that exists and has a frame.
THEOREM StatusIsTrue == Spec => []OkMeansSending
  <1>1. Init => OkMeansSending
    BY DEF Init, OkMeansSending
  <1>2. TypeOK /\ MemoryInv /\ OkMeansSending /\ [Next]_vars => OkMeansSending'
    <2> SUFFICES ASSUME TypeOK, MemoryInv, OkMeansSending, [Next]_vars
                 PROVE  OkMeansSending'
      OBVIOUS
    <2>1. CASE PublishStatus
      <3> DEFINE m == IF IsOpen THEN "ok" ELSE "waiting for first frame"
                 b == sent.age # {} /\ Described
      <3>1. status' = {[message |-> m, sending |-> b]}
        BY <2>1 DEF PublishStatus
      <3>2. m = "ok" => b
        BY DEF IsOpen, Described, MemoryInv
      <3> HIDE DEF m, b
      <3>3. ASSUME NEW s \in status', s.message = "ok" PROVE s.sending
        <4>1. s = [message |-> m, sending |-> b]
          BY <3>1
        <4>2. s.message = m /\ s.sending = b
          BY <4>1
        <4> QED
          BY <3>2, <3>3, <4>2
      <3> QED
        BY <3>3, Zenon DEF OkMeansSending
    <2>2. CASE UNCHANGED status
      BY <2>2 DEF OkMeansSending
    <2> QED
      BY <2>1, <2>2
      DEF Next, vars, Tick, RosJump, SensorPublishes, RelayStep, RelaySkips, RelayPasses,
          RelaySends, RelayDrops, SubscriberStep, SubscriberSkips, SubscriberPasses,
          SubscriberDelivers, SubscriberFails
  <1> QED
    BY <1>1, <1>2, TypeCorrect, Memory, PTL DEF Spec

\* A counter that wraps counts on in a sum that wraps.
LEMMA CountedInSum ==
  ASSUME NEW n \in Counts, NEW k \in Nat
  PROVE  (Counted(n) + k) % CounterRange = (n + k + 1) % CounterRange
  <1>1. CounterRange \in Nat \ {0} /\ n \in Nat /\ n < CounterRange
    BY RelayAssumption DEF Counts
  <1>2. CASE n + 1 < CounterRange
    <2>1. Counted(n) = n + 1
      BY <1>1, <1>2 DEF Counted
    <2>2. Counted(n) + k = n + k + 1
      BY <1>1, <2>1
    <2> QED
      BY <2>2
  <1>3. CASE n + 1 = CounterRange
    <2>1. Counted(n) = 0
      BY <1>1, <1>3 DEF Counted
    <2>2. Counted(n) + k = k /\ n + k + 1 = CounterRange + k
      BY <1>1, <1>3, <2>1
    <2>3. (CounterRange + k) % CounterRange = k % CounterRange
      <3>1. CounterRange \in Nat \ {0} /\ k \in Int
        BY <1>1
      <3> QED
        BY <3>1, RemainderOfSum, Zenon
    <2> QED
      BY <2>2, <2>3
  <1> QED
    BY <1>1, <1>2, <1>3

\* No frame that passed the limit is lost from the counters or counted twice,
\* also when they wrap.
THEOREM FramesAreCounted == Spec => []CountersAddUp
  <1>1. Init => CountersAddUp
    <2> SUFFICES ASSUME Init PROVE CountersAddUp
      OBVIOUS
    <2>1. 0 % CounterRange = 0
      BY RelayAssumption
    <2>2. /\ counters.published = 0 /\ counters.dropped = 0
          /\ passed = 0 /\ sent.count = 0 /\ InProgress = 0
      BY DEF Init, InProgress
    <2>3. counters.published + counters.dropped + InProgress = 0
      BY <2>2
    <2> QED
      BY <2>1, <2>2, <2>3 DEF CountersAddUp
  <1>2. TypeOK /\ CountersAddUp /\ [Next]_vars => CountersAddUp'
    <2> SUFFICES ASSUME TypeOK, CountersAddUp, [Next]_vars PROVE CountersAddUp'
      OBVIOUS
    <2> DEFINE p == counters.published
               d == counters.dropped
    <2>1. /\ p \in Counts /\ d \in Counts /\ p \in Nat /\ d \in Nat /\ p + d \in Nat
          /\ counters \in [published : Counts, dropped : Counts, oversized : Counts]
      <3>1. counters \in [published : Counts, dropped : Counts, oversized : Counts]
        BY Parts
      <3>2. p \in Counts /\ d \in Counts
        BY <3>1
      <3>3. p \in Nat /\ d \in Nat
        BY <3>2, CountedIsCount
      <3> QED
        BY <3>1, <3>2, <3>3
    <2>2. CASE RelayPasses
      <3>1. /\ counters' = counters /\ sent' = sent /\ passed' = Counted(passed)
            /\ relay.pc = "idle" /\ relay'.pc = "publishing"
        BY <2>2, Parts DEF RelayPasses
      <3>2. passed = (p + d) % CounterRange /\ p = sent.count
        BY <2>1, <3>1 DEF CountersAddUp, InProgress
      <3>3. passed' = (p + d + 1) % CounterRange
        BY <2>1, <3>1, <3>2, NextRemainder, RelayAssumption DEF Counted
      <3> QED
        BY <3>1, <3>2, <3>3 DEF CountersAddUp, InProgress
    <2>3. CASE RelaySends
      <3>1. /\ counters'.published = Counted(p) /\ counters'.dropped = d
            /\ sent'.count = Counted(sent.count) /\ passed' = passed
            /\ relay.pc = "publishing" /\ relay'.pc = "idle"
        BY <2>1, <2>3, Parts DEF RelaySends, Published
      <3>2. passed = (p + d + 1) % CounterRange /\ p = sent.count
        BY <3>1 DEF CountersAddUp, InProgress
      <3>3. (Counted(p) + d) % CounterRange = (p + d + 1) % CounterRange
        BY <2>1, CountedInSum
      <3>4. Counted(p) + d + 0 = Counted(p) + d
        BY <2>1, CountedIsCount
      <3> QED
        BY <3>1, <3>2, <3>3, <3>4 DEF CountersAddUp, InProgress
    <2>4. CASE RelayDrops
      <3>1. /\ counters'.published = p /\ counters'.dropped = Counted(d)
            /\ sent' = sent /\ passed' = passed
            /\ relay.pc = "publishing" /\ relay'.pc = "idle"
        BY <2>1, <2>4, Parts DEF RelayDrops, Dropped, CountDrop
      <3>2. passed = (p + d + 1) % CounterRange /\ p = sent.count
        BY <3>1 DEF CountersAddUp, InProgress
      <3>3. (Counted(d) + p) % CounterRange = (d + p + 1) % CounterRange
        BY <2>1, CountedInSum
      <3>4. Counted(d) \in Nat
        BY <2>1, CountedIsCount
      <3>5. p + Counted(d) + 0 = Counted(d) + p /\ d + p + 1 = p + d + 1
        BY <2>1, <3>4
      <3> QED
        BY <3>1, <3>2, <3>3, <3>5 DEF CountersAddUp, InProgress
    <2>5. CASE UNCHANGED <<counters, passed>> /\ relay'.pc = relay.pc
                 /\ sent'.count = sent.count
      BY <2>5 DEF CountersAddUp, InProgress
    <2>6. CASE Tick \/ RosJump
      <3>1. relay'.pc = relay.pc /\ sent'.count = sent.count
        BY <2>6, Parts DEF Tick, RosJump, RosLater
      <3> QED
        BY <2>5, <2>6, <3>1 DEF Tick, RosJump
    <2> QED
      BY <2>2, <2>3, <2>4, <2>5, <2>6
      DEF Next, vars, SensorPublishes, PublishStatus, RelayStep, RelaySkips, Skipped,
          SubscriberStep, SubscriberSkips, SubscriberPasses, SubscriberDelivers,
          SubscriberFails, relayState
  <1> QED
    BY <1>1, <1>2, TypeCorrect, PTL DEF Spec
===============================================================================
