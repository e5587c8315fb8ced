----------------------- MODULE AdaptedSubscriptionProofs -----------------------
(***************************************************************************)
(* Theorems about how adapted subscribers follow the registry, for any     *)
(* number of publishers, subscribers, streams and constructions.           *)
(***************************************************************************)
EXTENDS AdaptedSubscription, WellFoundedInduction, TLAPS

--------------------------------------------------------------------------------
(* The inductive invariants                                                 *)

\* The steps of refresh_subscription, and those after it has read the registry.
Refreshing == {"find", "switch", "adopt", "fall_back"}
Decided == {"switch", "adopt", "fall_back"}

PublisherLabels == PublisherRest \cup {"register", "collect", "trigger"} \cup Refreshing
SubscriberLabels == SubscriberRest \cup {"drop", "disarm"} \cup Refreshing

\* What a step of a publisher says of its registration and of what it collected.
PublisherOK(p) ==
  /\ p \in publishers => pc[p] \notin {"absent", "register"}
  /\ pc[p] = "up" => p \in publishers
  /\ token[p] = 0 <=> pc[p] = "absent"
  /\ token[p] < nextToken
  /\ pc[p] \in {"absent", "register", "collect", "up"} => guards[p] = {}

\* What a step of a subscriber says of its interest and of its callback.
SubscriberOK(s) ==
  /\ interest[s] # 0 <=> pc[s] \in Refreshing \cup {"live"}
  /\ armed[s] <=> pc[s] \notin {"absent", "down"}
  /\ subscription[s].local < nextToken /\ subscription[s].current < nextToken

\* Who refreshes what: a publisher holds the guard condition of its subscriber.
RefreshOK(o) ==
  /\ refreshing[o].sub = Nobody <=> pc[o] \notin Refreshing
  /\ refreshing[o].found < nextToken
  /\ o \in Subscribers => refreshing[o].sub \in {Nobody, o}

StepInv ==
  /\ TypeOK
  /\ pc \in [Owners -> PublisherLabels \cup SubscriberLabels]
  /\ nextInterest # 0
  /\ \A p \in Publishers : PublisherOK(p)
  /\ \A s \in Subscribers : SubscriberOK(s)
  /\ \A o \in Owners : RefreshOK(o)
  /\ \A p \in Publishers, s \in Subscribers : guardOwner[s] = p <=> refreshing[p].sub = s

\* No subscriber is constructed or shut down while publishers come and go.
Apart == PublishersAtRest \/ SubscribersAtRest

\* A subscriber that nobody refreshes is on one path, with the flags of that path.
OnePath(s) == subscription[s] = PathOf(subscription[s].current)

PathOK(s) ==
  /\ pc[s] \in {"absent", "find"} => subscription[s] = NoPath
  /\ pc[s] = "live" /\ guardOwner[s] = Nobody => OnePath(s)
  /\ pc[s] \in {"disarm", "down"} => subscription[s].local = 0 /\ ~subscription[s].public

\* How far the subscription has come in a refresh of s by o.
MoveOK(o, s) ==
  /\ pc[s] = "live" \/ o = s
  /\ pc[o] \in {"find", "switch"} => OnePath(s) \/ (o = s /\ subscription[s] = NoPath)
  /\ pc[o] = "adopt" => refreshing[o].found # 0 /\ subscription[s].local = refreshing[o].found
  /\ pc[o] = "fall_back" =>
       refreshing[o].found = 0 /\ subscription[s].local = 0 /\ subscription[s].current = 0
  /\ o = s /\ pc[o] \in Decided => refreshing[o].found = FrontTopic(StreamOf[s])

PathInv ==
  /\ Apart
  /\ \A s \in Subscribers : PathOK(s)
  /\ \A o \in Owners, s \in Subscribers : refreshing[o].sub = s => MoveOK(o, s)

\* A publisher whose registration or erasure made the front topic what it is.
Moves(q) ==
  IF q \in publishers THEN token[q] = FrontTopic(StreamOf[q])
                      ELSE pc[q] \notin {"absent", "register"}

\* It has still to refresh s, or is refreshing it with what the registry says.
Untold(q, s) ==
  /\ StreamOf[q] = StreamOf[s]
  /\ pc[q] = "collect" \/ (\E g \in guards[q] : g.sub = s) \/ WillSettle(q, s)

\* s is on the front topic, and no refresh under way takes it elsewhere.
Settled(s) ==
  /\ OnFront(s)
  /\ \A o \in Owners : refreshing[o].sub = s /\ pc[o] \in Decided =>
       refreshing[o].found = FrontTopic(StreamOf[s])

FollowOK(s) ==
  pc[s] = "live" => Settled(s) \/ \E q \in Publishers : Moves(q) /\ Untold(q, s)

FollowInv == \A s \in Subscribers : FollowOK(s)

\* p is registered, and has refreshed s since, or is just doing it.
Told(p, s) ==
  /\ StreamOf[p] = StreamOf[s]
  /\ p \in publishers /\ pc[p] # "collect"
  /\ \A g \in guards[p] : g.sub # s

\* A subscriber that was told of a publisher does not fall back, and is not on the
\* public transport, while that publisher is registered.
ToldOK(p, s) ==
  Told(p, s) =>
    /\ \A o \in Owners : refreshing[o].sub = s /\ pc[o] \in Decided => refreshing[o].found # 0
    /\ refreshing[p].sub # s => ~subscription[s].public

ToldInv == \A p \in Publishers, s \in Subscribers : ToldOK(p, s)

--------------------------------------------------------------------------------
(* Types and locks                                                          *)

\* A set of numbers that is not empty has a least one.
LessThan == {nn \in Nat \X Nat : nn[1] < nn[2]}

LEMMA LessThanIsWellFounded == IsWellFoundedOn(LessThan, Nat)
  <1>1. LessThan = OpToRel(<, Nat)
    BY DEF LessThan, OpToRel
  <1> QED
    BY <1>1, NatLessThanWellFounded

LEMMA LeastNumber ==
  ASSUME NEW S \in SUBSET Nat, S # {}
  PROVE  \E m \in S : \A n \in S : m <= n
  <1>1. PICK m \in S : \A n \in S : <<n, m>> \notin LessThan
    BY LessThanIsWellFounded, WFMin
  <1>2. ASSUME NEW n \in S PROVE m <= n
    <2>1. n < m => <<n, m>> \in LessThan
      BY DEF LessThan
    <2> QED
      BY <1>1, <2>1
  <1> QED
    BY <1>2

LEMMA FrontIsLeast ==
  ASSUME NEW found \in SUBSET Nat
  PROVE  /\ found = {} => FrontOf(found) = 0
         /\ found # {} => FrontOf(found) \in found /\ \A u \in found : FrontOf(found) <= u
  <1>1. found # {} => \E t \in found : \A u \in found : t <= u
    BY LeastNumber
  <1> QED
    BY <1>1 DEF FrontOf

\* The front topic is the token of a registered publisher of the stream, and the
\* least of them, or 0 if there is none.
LEMMA FrontIsToken ==
  ASSUME NEW stream, TypeOK, \A p \in publishers : token[p] # 0
  PROVE  /\ FrontTopic(stream) \in Tokens
         /\ \A p \in publishers : StreamOf[p] = stream =>
              FrontTopic(stream) # 0 /\ FrontTopic(stream) <= token[p]
         /\ FrontTopic(stream) # 0 =>
              \E p \in publishers : StreamOf[p] = stream /\ token[p] = FrontTopic(stream)
  <1>1. PICK found : found = {token[p] : p \in {q \in publishers : StreamOf[q] = stream}}
    OBVIOUS
  <1>2. found \in SUBSET Nat /\ found \subseteq Tokens /\ 0 \notin found /\ 0 \in Tokens
    BY <1>1, AdaptedAssumption DEF TypeOK, Tokens
  <1>3. FrontTopic(stream) = FrontOf(found)
    BY <1>1 DEF FrontTopic
  <1>4. /\ found = {} => FrontTopic(stream) = 0
        /\ found # {} =>
             FrontTopic(stream) \in found /\ \A u \in found : FrontTopic(stream) <= u
    BY <1>2, <1>3, FrontIsLeast
  <1> QED
    BY <1>1, <1>2, <1>4

\* What a refresh works on.
LEMMA RefreshTypes ==
  ASSUME StepInv, NEW o \in Owners, pc[o] \in Refreshing
  PROVE  /\ refreshing[o] \in [sub : Subscribers \cup {Nobody}, found : Tokens]
         /\ refreshing[o].sub \in Subscribers
         /\ refreshing[o].found \in Tokens /\ refreshing[o].found < nextToken
  BY DEF StepInv, TypeOK, RefreshOK

\* The front topic in a state of the system.
LEMMA FrontOK ==
  ASSUME StepInv, NEW stream
  PROVE  /\ FrontTopic(stream) \in Tokens /\ FrontTopic(stream) < nextToken
         /\ \A p \in publishers : StreamOf[p] = stream =>
              FrontTopic(stream) # 0 /\ FrontTopic(stream) <= token[p]
         /\ FrontTopic(stream) # 0 =>
              \E p \in publishers : StreamOf[p] = stream /\ token[p] = FrontTopic(stream)
  <1>1. \A p \in publishers : p \in Publishers /\ token[p] # 0 /\ token[p] < nextToken
    BY DEF StepInv, TypeOK, PublisherOK
  <1>2. 0 < nextToken
    BY DEF StepInv, TypeOK
  <1>3. FrontTopic(stream) # 0 =>
          \E p \in publishers : StreamOf[p] = stream /\ token[p] = FrontTopic(stream)
    BY <1>1, FrontIsToken DEF StepInv
  <1>4. FrontTopic(stream) < nextToken
    BY <1>1, <1>2, <1>3
  <1> QED
    BY <1>1, <1>4, FrontIsToken DEF StepInv

LEMMA ConstructPublisherTypes ==
  ASSUME StepInv, NEW p \in Publishers, ConstructPublisher(p) PROVE StepInv'
  <1>1. /\ \A q \in Publishers : pc'[q] \in PublisherLabels
        /\ \A t \in Subscribers : pc'[t] \in SubscriberLabels
        /\ pc' \in [Owners -> PublisherLabels \cup SubscriberLabels]
    BY AdaptedAssumption
    DEF StepInv, TypeOK, Owners, ConstructPublisher, Goto, registry, FollowingToken,
        PublisherLabels, SubscriberLabels, PublisherRest, SubscriberRest, Refreshing
  <1>2. /\ nextToken' \in 1..(MaxToken + 1) /\ nextInterest' \in Nat /\ nextInterest' # 0
        /\ token' \in [Publishers -> Tokens]
        /\ \A q, r \in Publishers : token'[q] = token'[r] => q = r \/ token'[q] = 0
        /\ publishers' \subseteq Publishers /\ interest' \in [Subscribers -> Nat]
        /\ guards' \in [Publishers -> SUBSET [id : Nat, sub : Subscribers]]
        /\ guardOwner' \in [Subscribers -> Publishers \cup {Nobody}]
        /\ armed' \in [Subscribers -> BOOLEAN]
    BY AdaptedAssumption
    DEF StepInv, TypeOK, PublisherOK, RefreshOK, Tokens, ConstructPublisher, Goto, registry,
        FollowingToken, PublisherLabels, SubscriberLabels, PublisherRest, SubscriberRest,
        Refreshing
  <1>3. refreshing' \in [Owners -> [sub : Subscribers \cup {Nobody}, found : Tokens]]
    BY AdaptedAssumption
    DEF StepInv, TypeOK, Tokens, Owners, RefreshOK, ConstructPublisher, Goto, registry,
        FollowingToken, PublisherLabels, SubscriberLabels, PublisherRest, SubscriberRest,
        Refreshing
  <1>4. subscription' \in [Subscribers -> Paths]
    BY DEF StepInv, TypeOK, ConstructPublisher
  <1>5. TypeOK'
    BY <1>1, <1>2, <1>3, <1>4 DEF TypeOK, PublisherLabels, SubscriberLabels, Refreshing
  <1>6. \A q \in Publishers : PublisherOK(q)'
    BY AdaptedAssumption
    DEF StepInv, TypeOK, PublisherOK, RefreshOK, Tokens, Owners, ConstructPublisher, Goto,
        registry, FollowingToken, PublisherLabels, SubscriberLabels, PublisherRest,
        SubscriberRest, Refreshing
  <1>7. \A t \in Subscribers : SubscriberOK(t)'
    BY AdaptedAssumption
    DEF StepInv, TypeOK, SubscriberOK, RefreshOK, Tokens, Paths, Owners, ConstructPublisher,
        Goto, registry, FollowingToken, PublisherLabels, SubscriberLabels, PublisherRest,
        SubscriberRest, Refreshing
  <1>8. \A r \in Owners : RefreshOK(r)'
    BY AdaptedAssumption
    DEF StepInv, TypeOK, RefreshOK, Tokens, Owners, ConstructPublisher, Goto, registry,
        FollowingToken, PublisherLabels, SubscriberLabels, PublisherRest, SubscriberRest,
        Refreshing
  <1>9. \A q \in Publishers, t \in Subscribers : guardOwner'[t] = q <=> refreshing'[q].sub = t
    BY AdaptedAssumption
    DEF StepInv, TypeOK, RefreshOK, Owners, ConstructPublisher, Goto, registry, FollowingToken,
        PublisherLabels, SubscriberLabels, PublisherRest, SubscriberRest, Refreshing
  <1> QED
    BY <1>1, <1>2, <1>5, <1>6, <1>7, <1>8, <1>9 DEF StepInv

LEMMA RegisterTypes ==
  ASSUME StepInv, NEW p \in Publishers, Register(p) PROVE StepInv'
  <1>1. /\ \A q \in Publishers : pc'[q] \in PublisherLabels
        /\ \A t \in Subscribers : pc'[t] \in SubscriberLabels
        /\ pc' \in [Owners -> PublisherLabels \cup SubscriberLabels]
    BY AdaptedAssumption
    DEF StepInv, TypeOK, Owners, Register, Goto, registry, PublisherLabels, SubscriberLabels,
        PublisherRest, SubscriberRest, Refreshing
  <1>2. /\ nextToken' \in 1..(MaxToken + 1) /\ nextInterest' \in Nat /\ nextInterest' # 0
        /\ token' \in [Publishers -> Tokens]
        /\ \A q, r \in Publishers : token'[q] = token'[r] => q = r \/ token'[q] = 0
        /\ publishers' \subseteq Publishers /\ interest' \in [Subscribers -> Nat]
        /\ guards' \in [Publishers -> SUBSET [id : Nat, sub : Subscribers]]
        /\ guardOwner' \in [Subscribers -> Publishers \cup {Nobody}]
        /\ armed' \in [Subscribers -> BOOLEAN]
    BY AdaptedAssumption
    DEF StepInv, TypeOK, PublisherOK, RefreshOK, Tokens, Register, Goto, registry,
        PublisherLabels, SubscriberLabels, PublisherRest, SubscriberRest, Refreshing
  <1>3. refreshing' \in [Owners -> [sub : Subscribers \cup {Nobody}, found : Tokens]]
    BY AdaptedAssumption
    DEF StepInv, TypeOK, Tokens, Owners, RefreshOK, Register, Goto, registry, PublisherLabels,
        SubscriberLabels, PublisherRest, SubscriberRest, Refreshing
  <1>4. subscription' \in [Subscribers -> Paths]
    BY DEF StepInv, TypeOK, Register
  <1>5. TypeOK'
    BY <1>1, <1>2, <1>3, <1>4 DEF TypeOK, PublisherLabels, SubscriberLabels, Refreshing
  <1>6. \A q \in Publishers : PublisherOK(q)'
    BY AdaptedAssumption
    DEF StepInv, TypeOK, PublisherOK, RefreshOK, Tokens, Owners, Register, Goto, registry,
        PublisherLabels, SubscriberLabels, PublisherRest, SubscriberRest, Refreshing
  <1>7. \A t \in Subscribers : SubscriberOK(t)'
    BY AdaptedAssumption
    DEF StepInv, TypeOK, SubscriberOK, RefreshOK, Tokens, Paths, Owners, Register, Goto,
        registry, PublisherLabels, SubscriberLabels, PublisherRest, SubscriberRest, Refreshing
  <1>8. \A r \in Owners : RefreshOK(r)'
    BY AdaptedAssumption
    DEF StepInv, TypeOK, RefreshOK, Tokens, Owners, Register, Goto, registry, PublisherLabels,
        SubscriberLabels, PublisherRest, SubscriberRest, Refreshing
  <1>9. \A q \in Publishers, t \in Subscribers : guardOwner'[t] = q <=> refreshing'[q].sub = t
    BY AdaptedAssumption
    DEF StepInv, TypeOK, RefreshOK, Owners, Register, Goto, registry, PublisherLabels,
        SubscriberLabels, PublisherRest, SubscriberRest, Refreshing
  <1> QED
    BY <1>1, <1>2, <1>5, <1>6, <1>7, <1>8, <1>9 DEF StepInv

LEMMA UnregisterTypes ==
  ASSUME StepInv, NEW p \in Publishers, Unregister(p) PROVE StepInv'
  <1>1. /\ \A q \in Publishers : pc'[q] \in PublisherLabels
        /\ \A t \in Subscribers : pc'[t] \in SubscriberLabels
        /\ pc' \in [Owners -> PublisherLabels \cup SubscriberLabels]
    BY AdaptedAssumption
    DEF StepInv, TypeOK, Owners, Unregister, Goto, registry, PublisherLabels, SubscriberLabels,
        PublisherRest, SubscriberRest, Refreshing
  <1>2. /\ nextToken' \in 1..(MaxToken + 1) /\ nextInterest' \in Nat /\ nextInterest' # 0
        /\ token' \in [Publishers -> Tokens]
        /\ \A q, r \in Publishers : token'[q] = token'[r] => q = r \/ token'[q] = 0
        /\ publishers' \subseteq Publishers /\ interest' \in [Subscribers -> Nat]
        /\ guards' \in [Publishers -> SUBSET [id : Nat, sub : Subscribers]]
        /\ guardOwner' \in [Subscribers -> Publishers \cup {Nobody}]
        /\ armed' \in [Subscribers -> BOOLEAN]
    BY AdaptedAssumption
    DEF StepInv, TypeOK, PublisherOK, RefreshOK, Tokens, Unregister, Goto, registry,
        PublisherLabels, SubscriberLabels, PublisherRest, SubscriberRest, Refreshing
  <1>3. refreshing' \in [Owners -> [sub : Subscribers \cup {Nobody}, found : Tokens]]
    BY AdaptedAssumption
    DEF StepInv, TypeOK, Tokens, Owners, RefreshOK, Unregister, Goto, registry, PublisherLabels,
        SubscriberLabels, PublisherRest, SubscriberRest, Refreshing
  <1>4. subscription' \in [Subscribers -> Paths]
    BY DEF StepInv, TypeOK, Unregister
  <1>5. TypeOK'
    BY <1>1, <1>2, <1>3, <1>4 DEF TypeOK, PublisherLabels, SubscriberLabels, Refreshing
  <1>6. \A q \in Publishers : PublisherOK(q)'
    BY AdaptedAssumption
    DEF StepInv, TypeOK, PublisherOK, RefreshOK, Tokens, Owners, Unregister, Goto, registry,
        PublisherLabels, SubscriberLabels, PublisherRest, SubscriberRest, Refreshing
  <1>7. \A t \in Subscribers : SubscriberOK(t)'
    BY AdaptedAssumption
    DEF StepInv, TypeOK, SubscriberOK, RefreshOK, Tokens, Paths, Owners, Unregister, Goto,
        registry, PublisherLabels, SubscriberLabels, PublisherRest, SubscriberRest, Refreshing
  <1>8. \A r \in Owners : RefreshOK(r)'
    BY AdaptedAssumption
    DEF StepInv, TypeOK, RefreshOK, Tokens, Owners, Unregister, Goto, registry, PublisherLabels,
        SubscriberLabels, PublisherRest, SubscriberRest, Refreshing
  <1>9. \A q \in Publishers, t \in Subscribers : guardOwner'[t] = q <=> refreshing'[q].sub = t
    BY AdaptedAssumption
    DEF StepInv, TypeOK, RefreshOK, Owners, Unregister, Goto, registry, PublisherLabels,
        SubscriberLabels, PublisherRest, SubscriberRest, Refreshing
  <1> QED
    BY <1>1, <1>2, <1>5, <1>6, <1>7, <1>8, <1>9 DEF StepInv

LEMMA CollectGuardsTypes ==
  ASSUME StepInv, NEW p \in Publishers, CollectGuards(p) PROVE StepInv'
  <1>1. /\ \A q \in Publishers : pc'[q] \in PublisherLabels
        /\ \A t \in Subscribers : pc'[t] \in SubscriberLabels
        /\ pc' \in [Owners -> PublisherLabels \cup SubscriberLabels]
    BY AdaptedAssumption
    DEF StepInv, TypeOK, Owners, CollectGuards, Goto, registry, Matching, GuardOf, Interested,
        PublisherLabels, SubscriberLabels, PublisherRest, SubscriberRest, Refreshing
  <1>2. /\ nextToken' \in 1..(MaxToken + 1) /\ nextInterest' \in Nat /\ nextInterest' # 0
        /\ token' \in [Publishers -> Tokens]
        /\ \A q, r \in Publishers : token'[q] = token'[r] => q = r \/ token'[q] = 0
        /\ publishers' \subseteq Publishers /\ interest' \in [Subscribers -> Nat]
        /\ guards' \in [Publishers -> SUBSET [id : Nat, sub : Subscribers]]
        /\ guardOwner' \in [Subscribers -> Publishers \cup {Nobody}]
        /\ armed' \in [Subscribers -> BOOLEAN]
    BY AdaptedAssumption
    DEF StepInv, TypeOK, PublisherOK, RefreshOK, Tokens, CollectGuards, Goto, registry,
        Matching, GuardOf, Interested, PublisherLabels, SubscriberLabels, PublisherRest,
        SubscriberRest, Refreshing
  <1>3. refreshing' \in [Owners -> [sub : Subscribers \cup {Nobody}, found : Tokens]]
    BY AdaptedAssumption
    DEF StepInv, TypeOK, Tokens, Owners, RefreshOK, CollectGuards, Goto, registry, Matching,
        GuardOf, Interested, PublisherLabels, SubscriberLabels, PublisherRest, SubscriberRest,
        Refreshing
  <1>4. subscription' \in [Subscribers -> Paths]
    BY DEF StepInv, TypeOK, CollectGuards
  <1>5. TypeOK'
    BY <1>1, <1>2, <1>3, <1>4 DEF TypeOK, PublisherLabels, SubscriberLabels, Refreshing
  <1>6. \A q \in Publishers : PublisherOK(q)'
    BY AdaptedAssumption
    DEF StepInv, TypeOK, PublisherOK, RefreshOK, Tokens, Owners, CollectGuards, Goto, registry,
        Matching, GuardOf, Interested, PublisherLabels, SubscriberLabels, PublisherRest,
        SubscriberRest, Refreshing
  <1>7. \A t \in Subscribers : SubscriberOK(t)'
    BY AdaptedAssumption
    DEF StepInv, TypeOK, SubscriberOK, RefreshOK, Tokens, Paths, Owners, CollectGuards, Goto,
        registry, Matching, GuardOf, Interested, PublisherLabels, SubscriberLabels,
        PublisherRest, SubscriberRest, Refreshing
  <1>8. \A r \in Owners : RefreshOK(r)'
    BY AdaptedAssumption
    DEF StepInv, TypeOK, RefreshOK, Tokens, Owners, CollectGuards, Goto, registry, Matching,
        GuardOf, Interested, PublisherLabels, SubscriberLabels, PublisherRest, SubscriberRest,
        Refreshing
  <1>9. \A q \in Publishers, t \in Subscribers : guardOwner'[t] = q <=> refreshing'[q].sub = t
    BY AdaptedAssumption
    DEF StepInv, TypeOK, RefreshOK, Owners, CollectGuards, Goto, registry, Matching, GuardOf,
        Interested, PublisherLabels, SubscriberLabels, PublisherRest, SubscriberRest, Refreshing
  <1> QED
    BY <1>1, <1>2, <1>5, <1>6, <1>7, <1>8, <1>9 DEF StepInv

\* A publisher starts to refresh a subscriber, whose guard condition it holds.
LEMMA TriggerTypes ==
  ASSUME StepInv, NEW p \in Publishers, Trigger(p) PROVE StepInv'
  <1>1. PICK g \in guards[p] :
          /\ GuardFree(g.sub)
          /\ guards' = [guards EXCEPT ![p] = @ \ {g}]
          /\ \/ /\ guardOwner' = [guardOwner EXCEPT ![g.sub] = p]
                /\ refreshing' = [refreshing EXCEPT ![p] = [sub |-> g.sub, found |-> 0]]
                /\ Goto(p, "find")
             \/ UNCHANGED <<guardOwner, refreshing, pc>>
    BY DEF Trigger, FirstOf
  <1>2. UNCHANGED <<nextToken, token, publishers, nextInterest, interest, armed, subscription>>
    BY DEF Trigger, registry
  <1>3. PICK s \in Subscribers : s = g.sub
    BY <1>1 DEF StepInv, TypeOK
  <1>4. pc[p] = "trigger" /\ p \notin Subscribers /\ guardOwner[s] = Nobody
    BY <1>1, <1>3, AdaptedAssumption DEF Trigger, GuardFree
  <1>5. guards' \in [Publishers -> SUBSET [id : Nat, sub : Subscribers]]
        /\ \A q \in Publishers : guards'[q] \subseteq guards[q]
    BY <1>1 DEF StepInv, TypeOK
  <1>6. CASE UNCHANGED <<guardOwner, refreshing, pc>>
    <2>1. TypeOK'
      BY <1>2, <1>5, <1>6 DEF StepInv, TypeOK
    <2>2. \A q \in Publishers : PublisherOK(q)'
      BY <1>2, <1>5, <1>6 DEF StepInv, PublisherOK
    <2> QED
      BY <1>2, <1>6, <2>1, <2>2 DEF StepInv, SubscriberOK, RefreshOK
  <1>7. CASE /\ guardOwner' = [guardOwner EXCEPT ![s] = p]
             /\ refreshing' = [refreshing EXCEPT ![p] = [sub |-> s, found |-> 0]]
             /\ pc' = [pc EXCEPT ![p] = "find"]
    <2>1. /\ pc' \in [Owners -> PublisherLabels \cup SubscriberLabels]
          /\ \A o \in Owners : pc'[o] = IF o = p THEN "find" ELSE pc[o]
      BY <1>7 DEF StepInv, PublisherLabels, Refreshing, Owners
    <2>2. /\ refreshing' \in [Owners -> [sub : Subscribers \cup {Nobody}, found : Tokens]]
          /\ \A o \in Owners : refreshing'[o] =
               IF o = p THEN [sub |-> s, found |-> 0] ELSE refreshing[o]
      BY <1>7, AdaptedAssumption DEF StepInv, TypeOK, Tokens, Owners
    <2>3. /\ guardOwner' \in [Subscribers -> Publishers \cup {Nobody}]
          /\ \A t \in Subscribers : guardOwner'[t] = IF t = s THEN p ELSE guardOwner[t]
      BY <1>7 DEF StepInv, TypeOK
    <2>4. TypeOK'
      BY <1>2, <1>4, <1>5, <2>1, <2>2, <2>3 DEF StepInv, TypeOK, Owners
    <2>5. \A q \in Publishers : PublisherOK(q)'
      BY <1>2, <1>4, <1>5, <2>1 DEF StepInv, PublisherOK, Owners
    <2>6. \A t \in Subscribers : SubscriberOK(t)'
      BY <1>2, <1>4, <2>1 DEF StepInv, SubscriberOK, Owners
    <2>7. \A o \in Owners : RefreshOK(o)'
      BY <1>2, <1>4, <2>1, <2>2, AdaptedAssumption
      DEF StepInv, TypeOK, RefreshOK, Refreshing, Owners
    <2>8. refreshing[p].sub = Nobody
      BY <1>4 DEF StepInv, RefreshOK, Refreshing, Owners
    <2>9. \A q \in Publishers, t \in Subscribers : guardOwner'[t] = q <=> refreshing'[q].sub = t
      BY <1>4, <2>2, <2>3, <2>8, AdaptedAssumption DEF StepInv, Owners
    <2> QED
      BY <1>2, <2>1, <2>4, <2>5, <2>6, <2>7, <2>9 DEF StepInv
  <1> QED
    BY <1>1, <1>3, <1>6, <1>7 DEF Goto

LEMMA TriggersDoneTypes ==
  ASSUME StepInv, NEW p \in Publishers, TriggersDone(p) PROVE StepInv'
  <1>1. /\ \A q \in Publishers : pc'[q] \in PublisherLabels
        /\ \A t \in Subscribers : pc'[t] \in SubscriberLabels
        /\ pc' \in [Owners -> PublisherLabels \cup SubscriberLabels]
    BY AdaptedAssumption
    DEF StepInv, TypeOK, Owners, TriggersDone, Goto, registry, PublisherLabels,
        SubscriberLabels, PublisherRest, SubscriberRest, Refreshing
  <1>2. /\ nextToken' \in 1..(MaxToken + 1) /\ nextInterest' \in Nat /\ nextInterest' # 0
        /\ token' \in [Publishers -> Tokens]
        /\ \A q, r \in Publishers : token'[q] = token'[r] => q = r \/ token'[q] = 0
        /\ publishers' \subseteq Publishers /\ interest' \in [Subscribers -> Nat]
        /\ guards' \in [Publishers -> SUBSET [id : Nat, sub : Subscribers]]
        /\ guardOwner' \in [Subscribers -> Publishers \cup {Nobody}]
        /\ armed' \in [Subscribers -> BOOLEAN]
    BY AdaptedAssumption
    DEF StepInv, TypeOK, PublisherOK, RefreshOK, Tokens, TriggersDone, Goto, registry,
        PublisherLabels, SubscriberLabels, PublisherRest, SubscriberRest, Refreshing
  <1>3. refreshing' \in [Owners -> [sub : Subscribers \cup {Nobody}, found : Tokens]]
    BY AdaptedAssumption
    DEF StepInv, TypeOK, Tokens, Owners, RefreshOK, TriggersDone, Goto, registry,
        PublisherLabels, SubscriberLabels, PublisherRest, SubscriberRest, Refreshing
  <1>4. subscription' \in [Subscribers -> Paths]
    BY DEF StepInv, TypeOK, TriggersDone
  <1>5. TypeOK'
    BY <1>1, <1>2, <1>3, <1>4 DEF TypeOK, PublisherLabels, SubscriberLabels, Refreshing
  <1>6. \A q \in Publishers : PublisherOK(q)'
    BY AdaptedAssumption
    DEF StepInv, TypeOK, PublisherOK, RefreshOK, Tokens, Owners, TriggersDone, Goto, registry,
        PublisherLabels, SubscriberLabels, PublisherRest, SubscriberRest, Refreshing
  <1>7. \A t \in Subscribers : SubscriberOK(t)'
    BY AdaptedAssumption
    DEF StepInv, TypeOK, SubscriberOK, RefreshOK, Tokens, Paths, Owners, TriggersDone, Goto,
        registry, PublisherLabels, SubscriberLabels, PublisherRest, SubscriberRest, Refreshing
  <1>8. \A r \in Owners : RefreshOK(r)'
    BY AdaptedAssumption
    DEF StepInv, TypeOK, RefreshOK, Tokens, Owners, TriggersDone, Goto, registry,
        PublisherLabels, SubscriberLabels, PublisherRest, SubscriberRest, Refreshing
  <1>9. \A q \in Publishers, t \in Subscribers : guardOwner'[t] = q <=> refreshing'[q].sub = t
    BY AdaptedAssumption
    DEF StepInv, TypeOK, RefreshOK, Owners, TriggersDone, Goto, registry, PublisherLabels,
        SubscriberLabels, PublisherRest, SubscriberRest, Refreshing
  <1> QED
    BY <1>1, <1>2, <1>5, <1>6, <1>7, <1>8, <1>9 DEF StepInv

LEMMA FindPublishersTypes ==
  ASSUME StepInv, NEW o \in Owners, FindPublishers(o) PROVE StepInv'
  <1>1. /\ \A q \in Publishers : pc'[q] \in PublisherLabels
        /\ \A t \in Subscribers : pc'[t] \in SubscriberLabels
        /\ pc' \in [Owners -> PublisherLabels \cup SubscriberLabels]
    BY AdaptedAssumption
    DEF StepInv, TypeOK, Owners, FindPublishers, Goto, registry, PublisherLabels,
        SubscriberLabels, PublisherRest, SubscriberRest, Refreshing
  <1>2. /\ nextToken' \in 1..(MaxToken + 1) /\ nextInterest' \in Nat /\ nextInterest' # 0
        /\ token' \in [Publishers -> Tokens]
        /\ \A q, r \in Publishers : token'[q] = token'[r] => q = r \/ token'[q] = 0
        /\ publishers' \subseteq Publishers /\ interest' \in [Subscribers -> Nat]
        /\ guards' \in [Publishers -> SUBSET [id : Nat, sub : Subscribers]]
        /\ guardOwner' \in [Subscribers -> Publishers \cup {Nobody}]
        /\ armed' \in [Subscribers -> BOOLEAN]
    BY AdaptedAssumption
    DEF StepInv, TypeOK, PublisherOK, RefreshOK, Tokens, FindPublishers, Goto, registry,
        PublisherLabels, SubscriberLabels, PublisherRest, SubscriberRest, Refreshing
  <1>3. refreshing' \in [Owners -> [sub : Subscribers \cup {Nobody}, found : Tokens]]
    BY RefreshTypes, FrontOK
    DEF StepInv, TypeOK, Tokens, Owners, RefreshOK, FindPublishers, Goto, registry,
        PublisherLabels, SubscriberLabels, PublisherRest, SubscriberRest, Refreshing
  <1>4. subscription' \in [Subscribers -> Paths]
    BY DEF StepInv, TypeOK, FindPublishers
  <1>5. TypeOK'
    BY <1>1, <1>2, <1>3, <1>4 DEF TypeOK, PublisherLabels, SubscriberLabels, Refreshing
  <1>6. \A q \in Publishers : PublisherOK(q)'
    BY AdaptedAssumption
    DEF StepInv, TypeOK, PublisherOK, RefreshOK, Tokens, Owners, FindPublishers, Goto, registry,
        PublisherLabels, SubscriberLabels, PublisherRest, SubscriberRest, Refreshing
  <1>7. \A t \in Subscribers : SubscriberOK(t)'
    BY AdaptedAssumption
    DEF StepInv, TypeOK, SubscriberOK, RefreshOK, Tokens, Paths, Owners, FindPublishers, Goto,
        registry, PublisherLabels, SubscriberLabels, PublisherRest, SubscriberRest, Refreshing
  <1>8. \A r \in Owners : RefreshOK(r)'
    BY AdaptedAssumption, FrontOK
    DEF StepInv, TypeOK, RefreshOK, Tokens, Owners, FindPublishers, Goto, registry,
        PublisherLabels, SubscriberLabels, PublisherRest, SubscriberRest, Refreshing
  <1>9. \A q \in Publishers, t \in Subscribers : guardOwner'[t] = q <=> refreshing'[q].sub = t
    BY AdaptedAssumption
    DEF StepInv, TypeOK, RefreshOK, Owners, FindPublishers, Goto, registry, PublisherLabels,
        SubscriberLabels, PublisherRest, SubscriberRest, Refreshing
  <1> QED
    BY <1>1, <1>2, <1>5, <1>6, <1>7, <1>8, <1>9 DEF StepInv

LEMMA KeepLocalTypes ==
  ASSUME StepInv, NEW o \in Owners, KeepLocal(o) PROVE StepInv'
  <1>1. /\ \A q \in Publishers : pc'[q] \in PublisherLabels
        /\ \A t \in Subscribers : pc'[t] \in SubscriberLabels
        /\ pc' \in [Owners -> PublisherLabels \cup SubscriberLabels]
    BY AdaptedAssumption
    DEF StepInv, TypeOK, Owners, KeepLocal, Goto, registry, Release, PublisherLabels,
        SubscriberLabels, PublisherRest, SubscriberRest, Refreshing
  <1>2. /\ nextToken' \in 1..(MaxToken + 1) /\ nextInterest' \in Nat /\ nextInterest' # 0
        /\ token' \in [Publishers -> Tokens]
        /\ \A q, r \in Publishers : token'[q] = token'[r] => q = r \/ token'[q] = 0
        /\ publishers' \subseteq Publishers /\ interest' \in [Subscribers -> Nat]
        /\ guards' \in [Publishers -> SUBSET [id : Nat, sub : Subscribers]]
        /\ guardOwner' \in [Subscribers -> Publishers \cup {Nobody}]
        /\ armed' \in [Subscribers -> BOOLEAN]
    BY AdaptedAssumption
    DEF StepInv, TypeOK, PublisherOK, RefreshOK, Tokens, KeepLocal, Goto, registry, Release,
        PublisherLabels, SubscriberLabels, PublisherRest, SubscriberRest, Refreshing
  <1>3. refreshing' \in [Owners -> [sub : Subscribers \cup {Nobody}, found : Tokens]]
    BY AdaptedAssumption
    DEF StepInv, TypeOK, Tokens, Owners, RefreshOK, KeepLocal, Goto, registry, Release,
        PublisherLabels, SubscriberLabels, PublisherRest, SubscriberRest, Refreshing
  <1>4. subscription' \in [Subscribers -> Paths]
    BY DEF StepInv, TypeOK, KeepLocal
  <1>5. TypeOK'
    BY <1>1, <1>2, <1>3, <1>4 DEF TypeOK, PublisherLabels, SubscriberLabels, Refreshing
  <1>6. \A q \in Publishers : PublisherOK(q)'
    BY AdaptedAssumption
    DEF StepInv, TypeOK, PublisherOK, RefreshOK, Tokens, Owners, KeepLocal, Goto, registry,
        Release, PublisherLabels, SubscriberLabels, PublisherRest, SubscriberRest, Refreshing
  <1>7. \A t \in Subscribers : SubscriberOK(t)'
    BY AdaptedAssumption
    DEF StepInv, TypeOK, SubscriberOK, RefreshOK, Tokens, Paths, Owners, KeepLocal, Goto,
        registry, Release, PublisherLabels, SubscriberLabels, PublisherRest, SubscriberRest,
        Refreshing
  <1>8. \A r \in Owners : RefreshOK(r)'
    BY AdaptedAssumption
    DEF StepInv, TypeOK, RefreshOK, Tokens, Owners, KeepLocal, Goto, registry, Release,
        PublisherLabels, SubscriberLabels, PublisherRest, SubscriberRest, Refreshing
  <1>9. \A q \in Publishers, t \in Subscribers : guardOwner'[t] = q <=> refreshing'[q].sub = t
    BY AdaptedAssumption
    DEF StepInv, TypeOK, RefreshOK, Owners, KeepLocal, Goto, registry, Release, PublisherLabels,
        SubscriberLabels, PublisherRest, SubscriberRest, Refreshing
  <1> QED
    BY <1>1, <1>2, <1>5, <1>6, <1>7, <1>8, <1>9 DEF StepInv

LEMMA SubscribeLocalTypes ==
  ASSUME StepInv, NEW o \in Owners, SubscribeLocal(o) PROVE StepInv'
  <1>1. /\ \A q \in Publishers : pc'[q] \in PublisherLabels
        /\ \A t \in Subscribers : pc'[t] \in SubscriberLabels
        /\ pc' \in [Owners -> PublisherLabels \cup SubscriberLabels]
    BY AdaptedAssumption
    DEF StepInv, TypeOK, Owners, SubscribeLocal, Goto, registry, PublisherLabels,
        SubscriberLabels, PublisherRest, SubscriberRest, Refreshing
  <1>2. /\ nextToken' \in 1..(MaxToken + 1) /\ nextInterest' \in Nat /\ nextInterest' # 0
        /\ token' \in [Publishers -> Tokens]
        /\ \A q, r \in Publishers : token'[q] = token'[r] => q = r \/ token'[q] = 0
        /\ publishers' \subseteq Publishers /\ interest' \in [Subscribers -> Nat]
        /\ guards' \in [Publishers -> SUBSET [id : Nat, sub : Subscribers]]
        /\ guardOwner' \in [Subscribers -> Publishers \cup {Nobody}]
        /\ armed' \in [Subscribers -> BOOLEAN]
    BY AdaptedAssumption
    DEF StepInv, TypeOK, PublisherOK, RefreshOK, Tokens, SubscribeLocal, Goto, registry,
        PublisherLabels, SubscriberLabels, PublisherRest, SubscriberRest, Refreshing
  <1>3. refreshing' \in [Owners -> [sub : Subscribers \cup {Nobody}, found : Tokens]]
    BY AdaptedAssumption
    DEF StepInv, TypeOK, Tokens, Owners, RefreshOK, SubscribeLocal, Goto, registry,
        PublisherLabels, SubscriberLabels, PublisherRest, SubscriberRest, Refreshing
  <1>4. subscription' \in [Subscribers -> Paths]
    <2>1. PICK s \in Subscribers : s = refreshing[o].sub
      BY RefreshTypes DEF SubscribeLocal, Refreshing
    <2>2. PICK path : path = [subscription[s] EXCEPT !.local = refreshing[o].found]
      OBVIOUS
    <2>3. subscription[s] \in Paths /\ refreshing[o].found \in Tokens /\ 0 \in Tokens
      BY <2>1, RefreshTypes, AdaptedAssumption
      DEF SubscribeLocal, Refreshing, StepInv, TypeOK, Tokens
    <2>4. path \in Paths
      BY <2>2, <2>3 DEF Paths
    <2> QED
      BY <2>1, <2>2, <2>4 DEF StepInv, TypeOK, SubscribeLocal
  <1>5. TypeOK'
    BY <1>1, <1>2, <1>3, <1>4 DEF TypeOK, PublisherLabels, SubscriberLabels, Refreshing
  <1>6. \A q \in Publishers : PublisherOK(q)'
    BY AdaptedAssumption
    DEF StepInv, TypeOK, PublisherOK, RefreshOK, Tokens, Owners, SubscribeLocal, Goto, registry,
        PublisherLabels, SubscriberLabels, PublisherRest, SubscriberRest, Refreshing
  <1>7. \A t \in Subscribers : SubscriberOK(t)'
    BY AdaptedAssumption
    DEF StepInv, TypeOK, SubscriberOK, RefreshOK, Tokens, Paths, Owners, SubscribeLocal, Goto,
        registry, PublisherLabels, SubscriberLabels, PublisherRest, SubscriberRest, Refreshing
  <1>8. \A r \in Owners : RefreshOK(r)'
    BY AdaptedAssumption
    DEF StepInv, TypeOK, RefreshOK, Tokens, Owners, SubscribeLocal, Goto, registry,
        PublisherLabels, SubscriberLabels, PublisherRest, SubscriberRest, Refreshing
  <1>9. \A q \in Publishers, t \in Subscribers : guardOwner'[t] = q <=> refreshing'[q].sub = t
    BY AdaptedAssumption
    DEF StepInv, TypeOK, RefreshOK, Owners, SubscribeLocal, Goto, registry, PublisherLabels,
        SubscriberLabels, PublisherRest, SubscriberRest, Refreshing
  <1> QED
    BY <1>1, <1>2, <1>5, <1>6, <1>7, <1>8, <1>9 DEF StepInv

LEMMA AdoptLocalTypes ==
  ASSUME StepInv, NEW o \in Owners, AdoptLocal(o) PROVE StepInv'
  <1>1. /\ \A q \in Publishers : pc'[q] \in PublisherLabels
        /\ \A t \in Subscribers : pc'[t] \in SubscriberLabels
        /\ pc' \in [Owners -> PublisherLabels \cup SubscriberLabels]
    BY AdaptedAssumption
    DEF StepInv, TypeOK, Owners, AdoptLocal, Goto, registry, Release, Adopted, PublisherLabels,
        SubscriberLabels, PublisherRest, SubscriberRest, Refreshing
  <1>2. /\ nextToken' \in 1..(MaxToken + 1) /\ nextInterest' \in Nat /\ nextInterest' # 0
        /\ token' \in [Publishers -> Tokens]
        /\ \A q, r \in Publishers : token'[q] = token'[r] => q = r \/ token'[q] = 0
        /\ publishers' \subseteq Publishers /\ interest' \in [Subscribers -> Nat]
        /\ guards' \in [Publishers -> SUBSET [id : Nat, sub : Subscribers]]
        /\ guardOwner' \in [Subscribers -> Publishers \cup {Nobody}]
        /\ armed' \in [Subscribers -> BOOLEAN]
    BY AdaptedAssumption
    DEF StepInv, TypeOK, PublisherOK, RefreshOK, Tokens, AdoptLocal, Goto, registry, Release,
        Adopted, PublisherLabels, SubscriberLabels, PublisherRest, SubscriberRest, Refreshing
  <1>3. refreshing' \in [Owners -> [sub : Subscribers \cup {Nobody}, found : Tokens]]
    BY AdaptedAssumption
    DEF StepInv, TypeOK, Tokens, Owners, RefreshOK, AdoptLocal, Goto, registry, Release,
        Adopted, PublisherLabels, SubscriberLabels, PublisherRest, SubscriberRest, Refreshing
  <1>4. subscription' \in [Subscribers -> Paths]
    <2>1. PICK s \in Subscribers : s = refreshing[o].sub
      BY RefreshTypes DEF AdoptLocal, Refreshing
    <2>2. PICK path : path = Adopted(subscription[s], refreshing[o].found)
      OBVIOUS
    <2>3. subscription[s] \in Paths /\ refreshing[o].found \in Tokens /\ 0 \in Tokens
      BY <2>1, RefreshTypes, AdaptedAssumption DEF AdoptLocal, Refreshing, StepInv, TypeOK, Tokens
    <2>4. path \in Paths
      BY <2>2, <2>3 DEF Paths, Adopted
    <2> QED
      BY <2>1, <2>2, <2>4 DEF StepInv, TypeOK, AdoptLocal
  <1>5. TypeOK'
    BY <1>1, <1>2, <1>3, <1>4 DEF TypeOK, PublisherLabels, SubscriberLabels, Refreshing
  <1>6. \A q \in Publishers : PublisherOK(q)'
    BY AdaptedAssumption
    DEF StepInv, TypeOK, PublisherOK, RefreshOK, Tokens, Owners, AdoptLocal, Goto, registry,
        Release, Adopted, PublisherLabels, SubscriberLabels, PublisherRest, SubscriberRest,
        Refreshing
  <1>7. \A t \in Subscribers : SubscriberOK(t)'
    BY AdaptedAssumption
    DEF StepInv, TypeOK, SubscriberOK, RefreshOK, Tokens, Paths, Owners, AdoptLocal, Goto,
        registry, Release, Adopted, PublisherLabels, SubscriberLabels, PublisherRest,
        SubscriberRest, Refreshing
  <1>8. \A r \in Owners : RefreshOK(r)'
    BY AdaptedAssumption
    DEF StepInv, TypeOK, RefreshOK, Tokens, Owners, AdoptLocal, Goto, registry, Release,
        Adopted, PublisherLabels, SubscriberLabels, PublisherRest, SubscriberRest, Refreshing
  <1>9. \A q \in Publishers, t \in Subscribers : guardOwner'[t] = q <=> refreshing'[q].sub = t
    BY AdaptedAssumption
    DEF StepInv, TypeOK, RefreshOK, Owners, AdoptLocal, Goto, registry, Release, Adopted,
        PublisherLabels, SubscriberLabels, PublisherRest, SubscriberRest, Refreshing
  <1> QED
    BY <1>1, <1>2, <1>5, <1>6, <1>7, <1>8, <1>9 DEF StepInv

LEMMA DropLocalTypes ==
  ASSUME StepInv, NEW o \in Owners, DropLocal(o) PROVE StepInv'
  <1>1. /\ \A q \in Publishers : pc'[q] \in PublisherLabels
        /\ \A t \in Subscribers : pc'[t] \in SubscriberLabels
        /\ pc' \in [Owners -> PublisherLabels \cup SubscriberLabels]
    BY AdaptedAssumption
    DEF StepInv, TypeOK, Owners, DropLocal, Goto, registry, PublisherLabels, SubscriberLabels,
        PublisherRest, SubscriberRest, Refreshing
  <1>2. /\ nextToken' \in 1..(MaxToken + 1) /\ nextInterest' \in Nat /\ nextInterest' # 0
        /\ token' \in [Publishers -> Tokens]
        /\ \A q, r \in Publishers : token'[q] = token'[r] => q = r \/ token'[q] = 0
        /\ publishers' \subseteq Publishers /\ interest' \in [Subscribers -> Nat]
        /\ guards' \in [Publishers -> SUBSET [id : Nat, sub : Subscribers]]
        /\ guardOwner' \in [Subscribers -> Publishers \cup {Nobody}]
        /\ armed' \in [Subscribers -> BOOLEAN]
    BY AdaptedAssumption
    DEF StepInv, TypeOK, PublisherOK, RefreshOK, Tokens, DropLocal, Goto, registry,
        PublisherLabels, SubscriberLabels, PublisherRest, SubscriberRest, Refreshing
  <1>3. refreshing' \in [Owners -> [sub : Subscribers \cup {Nobody}, found : Tokens]]
    BY AdaptedAssumption
    DEF StepInv, TypeOK, Tokens, Owners, RefreshOK, DropLocal, Goto, registry, PublisherLabels,
        SubscriberLabels, PublisherRest, SubscriberRest, Refreshing
  <1>4. subscription' \in [Subscribers -> Paths]
    <2>1. PICK s \in Subscribers : s = refreshing[o].sub
      BY RefreshTypes DEF DropLocal, Refreshing
    <2>2. PICK path : path = [subscription[s] EXCEPT !.local = 0, !.current = 0]
      OBVIOUS
    <2>3. subscription[s] \in Paths /\ refreshing[o].found \in Tokens /\ 0 \in Tokens
      BY <2>1, RefreshTypes, AdaptedAssumption DEF DropLocal, Refreshing, StepInv, TypeOK, Tokens
    <2>4. path \in Paths
      BY <2>2, <2>3 DEF Paths
    <2> QED
      BY <2>1, <2>2, <2>4 DEF StepInv, TypeOK, DropLocal
  <1>5. TypeOK'
    BY <1>1, <1>2, <1>3, <1>4 DEF TypeOK, PublisherLabels, SubscriberLabels, Refreshing
  <1>6. \A q \in Publishers : PublisherOK(q)'
    BY AdaptedAssumption
    DEF StepInv, TypeOK, PublisherOK, RefreshOK, Tokens, Owners, DropLocal, Goto, registry,
        PublisherLabels, SubscriberLabels, PublisherRest, SubscriberRest, Refreshing
  <1>7. \A t \in Subscribers : SubscriberOK(t)'
    BY AdaptedAssumption
    DEF StepInv, TypeOK, SubscriberOK, RefreshOK, Tokens, Paths, Owners, DropLocal, Goto,
        registry, PublisherLabels, SubscriberLabels, PublisherRest, SubscriberRest, Refreshing
  <1>8. \A r \in Owners : RefreshOK(r)'
    BY AdaptedAssumption
    DEF StepInv, TypeOK, RefreshOK, Tokens, Owners, DropLocal, Goto, registry, PublisherLabels,
        SubscriberLabels, PublisherRest, SubscriberRest, Refreshing
  <1>9. \A q \in Publishers, t \in Subscribers : guardOwner'[t] = q <=> refreshing'[q].sub = t
    BY AdaptedAssumption
    DEF StepInv, TypeOK, RefreshOK, Owners, DropLocal, Goto, registry, PublisherLabels,
        SubscriberLabels, PublisherRest, SubscriberRest, Refreshing
  <1> QED
    BY <1>1, <1>2, <1>5, <1>6, <1>7, <1>8, <1>9 DEF StepInv

LEMMA FallBackTypes ==
  ASSUME StepInv, NEW o \in Owners, FallBack(o) PROVE StepInv'
  <1>1. /\ \A q \in Publishers : pc'[q] \in PublisherLabels
        /\ \A t \in Subscribers : pc'[t] \in SubscriberLabels
        /\ pc' \in [Owners -> PublisherLabels \cup SubscriberLabels]
    BY AdaptedAssumption
    DEF StepInv, TypeOK, Owners, FallBack, Goto, registry, Release, PublisherLabels,
        SubscriberLabels, PublisherRest, SubscriberRest, Refreshing
  <1>2. /\ nextToken' \in 1..(MaxToken + 1) /\ nextInterest' \in Nat /\ nextInterest' # 0
        /\ token' \in [Publishers -> Tokens]
        /\ \A q, r \in Publishers : token'[q] = token'[r] => q = r \/ token'[q] = 0
        /\ publishers' \subseteq Publishers /\ interest' \in [Subscribers -> Nat]
        /\ guards' \in [Publishers -> SUBSET [id : Nat, sub : Subscribers]]
        /\ guardOwner' \in [Subscribers -> Publishers \cup {Nobody}]
        /\ armed' \in [Subscribers -> BOOLEAN]
    BY AdaptedAssumption
    DEF StepInv, TypeOK, PublisherOK, RefreshOK, Tokens, FallBack, Goto, registry, Release,
        PublisherLabels, SubscriberLabels, PublisherRest, SubscriberRest, Refreshing
  <1>3. refreshing' \in [Owners -> [sub : Subscribers \cup {Nobody}, found : Tokens]]
    BY AdaptedAssumption
    DEF StepInv, TypeOK, Tokens, Owners, RefreshOK, FallBack, Goto, registry, Release,
        PublisherLabels, SubscriberLabels, PublisherRest, SubscriberRest, Refreshing
  <1>4. subscription' \in [Subscribers -> Paths]
    <2>1. PICK s \in Subscribers : s = refreshing[o].sub
      BY RefreshTypes DEF FallBack, Refreshing
    <2>2. PICK path : path = [subscription[s] EXCEPT !.public = TRUE, !.usingLocal = FALSE]
      OBVIOUS
    <2>3. subscription[s] \in Paths /\ refreshing[o].found \in Tokens /\ 0 \in Tokens
      BY <2>1, RefreshTypes, AdaptedAssumption DEF FallBack, Refreshing, StepInv, TypeOK, Tokens
    <2>4. path \in Paths
      BY <2>2, <2>3 DEF Paths
    <2> QED
      BY <2>1, <2>2, <2>4 DEF StepInv, TypeOK, FallBack
  <1>5. TypeOK'
    BY <1>1, <1>2, <1>3, <1>4 DEF TypeOK, PublisherLabels, SubscriberLabels, Refreshing
  <1>6. \A q \in Publishers : PublisherOK(q)'
    BY AdaptedAssumption
    DEF StepInv, TypeOK, PublisherOK, RefreshOK, Tokens, Owners, FallBack, Goto, registry,
        Release, PublisherLabels, SubscriberLabels, PublisherRest, SubscriberRest, Refreshing
  <1>7. \A t \in Subscribers : SubscriberOK(t)'
    BY AdaptedAssumption
    DEF StepInv, TypeOK, SubscriberOK, RefreshOK, Tokens, Paths, Owners, FallBack, Goto,
        registry, Release, PublisherLabels, SubscriberLabels, PublisherRest, SubscriberRest,
        Refreshing
  <1>8. \A r \in Owners : RefreshOK(r)'
    BY AdaptedAssumption
    DEF StepInv, TypeOK, RefreshOK, Tokens, Owners, FallBack, Goto, registry, Release,
        PublisherLabels, SubscriberLabels, PublisherRest, SubscriberRest, Refreshing
  <1>9. \A q \in Publishers, t \in Subscribers : guardOwner'[t] = q <=> refreshing'[q].sub = t
    BY AdaptedAssumption
    DEF StepInv, TypeOK, RefreshOK, Owners, FallBack, Goto, registry, Release, PublisherLabels,
        SubscriberLabels, PublisherRest, SubscriberRest, Refreshing
  <1> QED
    BY <1>1, <1>2, <1>5, <1>6, <1>7, <1>8, <1>9 DEF StepInv

LEMMA ConstructSubscriberTypes ==
  ASSUME StepInv, NEW s \in Subscribers, ConstructSubscriber(s) PROVE StepInv'
  <1>1. /\ \A q \in Publishers : pc'[q] \in PublisherLabels
        /\ \A t \in Subscribers : pc'[t] \in SubscriberLabels
        /\ pc' \in [Owners -> PublisherLabels \cup SubscriberLabels]
    BY AdaptedAssumption
    DEF StepInv, TypeOK, Owners, ConstructSubscriber, Goto, registry, PublisherLabels,
        SubscriberLabels, PublisherRest, SubscriberRest, Refreshing
  <1>2. /\ nextToken' \in 1..(MaxToken + 1) /\ nextInterest' \in Nat /\ nextInterest' # 0
        /\ token' \in [Publishers -> Tokens]
        /\ \A q, r \in Publishers : token'[q] = token'[r] => q = r \/ token'[q] = 0
        /\ publishers' \subseteq Publishers /\ interest' \in [Subscribers -> Nat]
        /\ guards' \in [Publishers -> SUBSET [id : Nat, sub : Subscribers]]
        /\ guardOwner' \in [Subscribers -> Publishers \cup {Nobody}]
        /\ armed' \in [Subscribers -> BOOLEAN]
    BY AdaptedAssumption
    DEF StepInv, TypeOK, PublisherOK, RefreshOK, Tokens, ConstructSubscriber, Goto, registry,
        PublisherLabels, SubscriberLabels, PublisherRest, SubscriberRest, Refreshing
  <1>3. refreshing' \in [Owners -> [sub : Subscribers \cup {Nobody}, found : Tokens]]
    BY AdaptedAssumption
    DEF StepInv, TypeOK, Tokens, Owners, RefreshOK, ConstructSubscriber, Goto, registry,
        PublisherLabels, SubscriberLabels, PublisherRest, SubscriberRest, Refreshing
  <1>4. subscription' \in [Subscribers -> Paths]
    BY DEF StepInv, TypeOK, ConstructSubscriber
  <1>5. TypeOK'
    BY <1>1, <1>2, <1>3, <1>4 DEF TypeOK, PublisherLabels, SubscriberLabels, Refreshing
  <1>6. \A q \in Publishers : PublisherOK(q)'
    BY AdaptedAssumption
    DEF StepInv, TypeOK, PublisherOK, RefreshOK, Tokens, Owners, ConstructSubscriber, Goto,
        registry, PublisherLabels, SubscriberLabels, PublisherRest, SubscriberRest, Refreshing
  <1>7. \A t \in Subscribers : SubscriberOK(t)'
    BY AdaptedAssumption
    DEF StepInv, TypeOK, SubscriberOK, RefreshOK, Tokens, Paths, Owners, ConstructSubscriber,
        Goto, registry, PublisherLabels, SubscriberLabels, PublisherRest, SubscriberRest,
        Refreshing
  <1>8. \A r \in Owners : RefreshOK(r)'
    BY AdaptedAssumption
    DEF StepInv, TypeOK, RefreshOK, Tokens, Owners, ConstructSubscriber, Goto, registry,
        PublisherLabels, SubscriberLabels, PublisherRest, SubscriberRest, Refreshing
  <1>9. \A q \in Publishers, t \in Subscribers : guardOwner'[t] = q <=> refreshing'[q].sub = t
    BY AdaptedAssumption
    DEF StepInv, TypeOK, RefreshOK, Owners, ConstructSubscriber, Goto, registry,
        PublisherLabels, SubscriberLabels, PublisherRest, SubscriberRest, Refreshing
  <1> QED
    BY <1>1, <1>2, <1>5, <1>6, <1>7, <1>8, <1>9 DEF StepInv

LEMMA RemoveInterestTypes ==
  ASSUME StepInv, NEW s \in Subscribers, RemoveInterest(s) PROVE StepInv'
  <1>1. /\ \A q \in Publishers : pc'[q] \in PublisherLabels
        /\ \A t \in Subscribers : pc'[t] \in SubscriberLabels
        /\ pc' \in [Owners -> PublisherLabels \cup SubscriberLabels]
    BY AdaptedAssumption
    DEF StepInv, TypeOK, Owners, RemoveInterest, Goto, registry, PublisherLabels,
        SubscriberLabels, PublisherRest, SubscriberRest, Refreshing
  <1>2. /\ nextToken' \in 1..(MaxToken + 1) /\ nextInterest' \in Nat /\ nextInterest' # 0
        /\ token' \in [Publishers -> Tokens]
        /\ \A q, r \in Publishers : token'[q] = token'[r] => q = r \/ token'[q] = 0
        /\ publishers' \subseteq Publishers /\ interest' \in [Subscribers -> Nat]
        /\ guards' \in [Publishers -> SUBSET [id : Nat, sub : Subscribers]]
        /\ guardOwner' \in [Subscribers -> Publishers \cup {Nobody}]
        /\ armed' \in [Subscribers -> BOOLEAN]
    BY AdaptedAssumption
    DEF StepInv, TypeOK, PublisherOK, RefreshOK, Tokens, RemoveInterest, Goto, registry,
        PublisherLabels, SubscriberLabels, PublisherRest, SubscriberRest, Refreshing
  <1>3. refreshing' \in [Owners -> [sub : Subscribers \cup {Nobody}, found : Tokens]]
    BY AdaptedAssumption
    DEF StepInv, TypeOK, Tokens, Owners, RefreshOK, RemoveInterest, Goto, registry,
        PublisherLabels, SubscriberLabels, PublisherRest, SubscriberRest, Refreshing
  <1>4. subscription' \in [Subscribers -> Paths]
    BY DEF StepInv, TypeOK, RemoveInterest
  <1>5. TypeOK'
    BY <1>1, <1>2, <1>3, <1>4 DEF TypeOK, PublisherLabels, SubscriberLabels, Refreshing
  <1>6. \A q \in Publishers : PublisherOK(q)'
    BY AdaptedAssumption
    DEF StepInv, TypeOK, PublisherOK, RefreshOK, Tokens, Owners, RemoveInterest, Goto, registry,
        PublisherLabels, SubscriberLabels, PublisherRest, SubscriberRest, Refreshing
  <1>7. \A t \in Subscribers : SubscriberOK(t)'
    BY AdaptedAssumption
    DEF StepInv, TypeOK, SubscriberOK, RefreshOK, Tokens, Paths, Owners, RemoveInterest, Goto,
        registry, PublisherLabels, SubscriberLabels, PublisherRest, SubscriberRest, Refreshing
  <1>8. \A r \in Owners : RefreshOK(r)'
    BY AdaptedAssumption
    DEF StepInv, TypeOK, RefreshOK, Tokens, Owners, RemoveInterest, Goto, registry,
        PublisherLabels, SubscriberLabels, PublisherRest, SubscriberRest, Refreshing
  <1>9. \A q \in Publishers, t \in Subscribers : guardOwner'[t] = q <=> refreshing'[q].sub = t
    BY AdaptedAssumption
    DEF StepInv, TypeOK, RefreshOK, Owners, RemoveInterest, Goto, registry, PublisherLabels,
        SubscriberLabels, PublisherRest, SubscriberRest, Refreshing
  <1> QED
    BY <1>1, <1>2, <1>5, <1>6, <1>7, <1>8, <1>9 DEF StepInv

LEMMA DropSubscriptionsTypes ==
  ASSUME StepInv, NEW s \in Subscribers, DropSubscriptions(s) PROVE StepInv'
  <1>1. /\ \A q \in Publishers : pc'[q] \in PublisherLabels
        /\ \A t \in Subscribers : pc'[t] \in SubscriberLabels
        /\ pc' \in [Owners -> PublisherLabels \cup SubscriberLabels]
    BY AdaptedAssumption
    DEF StepInv, TypeOK, Owners, DropSubscriptions, Goto, registry, Dropped, PublisherLabels,
        SubscriberLabels, PublisherRest, SubscriberRest, Refreshing
  <1>2. /\ nextToken' \in 1..(MaxToken + 1) /\ nextInterest' \in Nat /\ nextInterest' # 0
        /\ token' \in [Publishers -> Tokens]
        /\ \A q, r \in Publishers : token'[q] = token'[r] => q = r \/ token'[q] = 0
        /\ publishers' \subseteq Publishers /\ interest' \in [Subscribers -> Nat]
        /\ guards' \in [Publishers -> SUBSET [id : Nat, sub : Subscribers]]
        /\ guardOwner' \in [Subscribers -> Publishers \cup {Nobody}]
        /\ armed' \in [Subscribers -> BOOLEAN]
    BY AdaptedAssumption
    DEF StepInv, TypeOK, PublisherOK, RefreshOK, Tokens, DropSubscriptions, Goto, registry,
        Dropped, PublisherLabels, SubscriberLabels, PublisherRest, SubscriberRest, Refreshing
  <1>3. refreshing' \in [Owners -> [sub : Subscribers \cup {Nobody}, found : Tokens]]
    BY AdaptedAssumption
    DEF StepInv, TypeOK, Tokens, Owners, RefreshOK, DropSubscriptions, Goto, registry, Dropped,
        PublisherLabels, SubscriberLabels, PublisherRest, SubscriberRest, Refreshing
  <1>4. subscription' \in [Subscribers -> Paths]
    <2>2. PICK path : path = Dropped(subscription[s])
      OBVIOUS
    <2>3. subscription[s] \in Paths /\ 0 \in Tokens
      BY AdaptedAssumption DEF StepInv, TypeOK, Tokens
    <2>4. path \in Paths
      BY <2>2, <2>3 DEF Paths, Dropped
    <2> QED
      BY <2>2, <2>4 DEF StepInv, TypeOK, DropSubscriptions
  <1>5. TypeOK'
    BY <1>1, <1>2, <1>3, <1>4 DEF TypeOK, PublisherLabels, SubscriberLabels, Refreshing
  <1>6. \A q \in Publishers : PublisherOK(q)'
    BY AdaptedAssumption
    DEF StepInv, TypeOK, PublisherOK, RefreshOK, Tokens, Owners, DropSubscriptions, Goto,
        registry, Dropped, PublisherLabels, SubscriberLabels, PublisherRest, SubscriberRest,
        Refreshing
  <1>7. \A t \in Subscribers : SubscriberOK(t)'
    BY AdaptedAssumption
    DEF StepInv, TypeOK, SubscriberOK, RefreshOK, Tokens, Paths, Owners, DropSubscriptions,
        Goto, registry, Dropped, PublisherLabels, SubscriberLabels, PublisherRest,
        SubscriberRest, Refreshing
  <1>8. \A r \in Owners : RefreshOK(r)'
    BY AdaptedAssumption
    DEF StepInv, TypeOK, RefreshOK, Tokens, Owners, DropSubscriptions, Goto, registry, Dropped,
        PublisherLabels, SubscriberLabels, PublisherRest, SubscriberRest, Refreshing
  <1>9. \A q \in Publishers, t \in Subscribers : guardOwner'[t] = q <=> refreshing'[q].sub = t
    BY AdaptedAssumption
    DEF StepInv, TypeOK, RefreshOK, Owners, DropSubscriptions, Goto, registry, Dropped,
        PublisherLabels, SubscriberLabels, PublisherRest, SubscriberRest, Refreshing
  <1> QED
    BY <1>1, <1>2, <1>5, <1>6, <1>7, <1>8, <1>9 DEF StepInv

LEMMA DisarmTypes ==
  ASSUME StepInv, NEW s \in Subscribers, Disarm(s) PROVE StepInv'
  <1>1. /\ \A q \in Publishers : pc'[q] \in PublisherLabels
        /\ \A t \in Subscribers : pc'[t] \in SubscriberLabels
        /\ pc' \in [Owners -> PublisherLabels \cup SubscriberLabels]
    BY AdaptedAssumption
    DEF StepInv, TypeOK, Owners, Disarm, Goto, registry, GuardFree, PublisherLabels,
        SubscriberLabels, PublisherRest, SubscriberRest, Refreshing
  <1>2. /\ nextToken' \in 1..(MaxToken + 1) /\ nextInterest' \in Nat /\ nextInterest' # 0
        /\ token' \in [Publishers -> Tokens]
        /\ \A q, r \in Publishers : token'[q] = token'[r] => q = r \/ token'[q] = 0
        /\ publishers' \subseteq Publishers /\ interest' \in [Subscribers -> Nat]
        /\ guards' \in [Publishers -> SUBSET [id : Nat, sub : Subscribers]]
        /\ guardOwner' \in [Subscribers -> Publishers \cup {Nobody}]
        /\ armed' \in [Subscribers -> BOOLEAN]
    BY AdaptedAssumption
    DEF StepInv, TypeOK, PublisherOK, RefreshOK, Tokens, Disarm, Goto, registry, GuardFree,
        PublisherLabels, SubscriberLabels, PublisherRest, SubscriberRest, Refreshing
  <1>3. refreshing' \in [Owners -> [sub : Subscribers \cup {Nobody}, found : Tokens]]
    BY AdaptedAssumption
    DEF StepInv, TypeOK, Tokens, Owners, RefreshOK, Disarm, Goto, registry, GuardFree,
        PublisherLabels, SubscriberLabels, PublisherRest, SubscriberRest, Refreshing
  <1>4. subscription' \in [Subscribers -> Paths]
    BY DEF StepInv, TypeOK, Disarm
  <1>5. TypeOK'
    BY <1>1, <1>2, <1>3, <1>4 DEF TypeOK, PublisherLabels, SubscriberLabels, Refreshing
  <1>6. \A q \in Publishers : PublisherOK(q)'
    BY AdaptedAssumption
    DEF StepInv, TypeOK, PublisherOK, RefreshOK, Tokens, Owners, Disarm, Goto, registry,
        GuardFree, PublisherLabels, SubscriberLabels, PublisherRest, SubscriberRest, Refreshing
  <1>7. \A t \in Subscribers : SubscriberOK(t)'
    BY AdaptedAssumption
    DEF StepInv, TypeOK, SubscriberOK, RefreshOK, Tokens, Paths, Owners, Disarm, Goto, registry,
        GuardFree, PublisherLabels, SubscriberLabels, PublisherRest, SubscriberRest, Refreshing
  <1>8. \A r \in Owners : RefreshOK(r)'
    BY AdaptedAssumption
    DEF StepInv, TypeOK, RefreshOK, Tokens, Owners, Disarm, Goto, registry, GuardFree,
        PublisherLabels, SubscriberLabels, PublisherRest, SubscriberRest, Refreshing
  <1>9. \A q \in Publishers, t \in Subscribers : guardOwner'[t] = q <=> refreshing'[q].sub = t
    BY AdaptedAssumption
    DEF StepInv, TypeOK, RefreshOK, Owners, Disarm, Goto, registry, GuardFree, PublisherLabels,
        SubscriberLabels, PublisherRest, SubscriberRest, Refreshing
  <1> QED
    BY <1>1, <1>2, <1>5, <1>6, <1>7, <1>8, <1>9 DEF StepInv

LEMMA StepsAreTyped ==
  ASSUME StepInv, [Next]_vars PROVE StepInv'
  <1>1. ASSUME NEW p \in Publishers, ConstructPublisher(p) \/ Unregister(p) \/ PublisherStep(p)
        PROVE  StepInv'
    BY <1>1, ConstructPublisherTypes, UnregisterTypes, RegisterTypes, CollectGuardsTypes,
       TriggerTypes, TriggersDoneTypes
    DEF PublisherStep
  <1>2. ASSUME NEW s \in Subscribers, ConstructSubscriber(s) \/ RemoveInterest(s) \/ ShutdownStep(s)
        PROVE  StepInv'
    BY <1>2, ConstructSubscriberTypes, RemoveInterestTypes, DropSubscriptionsTypes, DisarmTypes
    DEF ShutdownStep
  <1>3. ASSUME NEW o \in Owners, Refresh(o) PROVE StepInv'
    BY <1>3, FindPublishersTypes, KeepLocalTypes, SubscribeLocalTypes, AdoptLocalTypes,
       DropLocalTypes, FallBackTypes
    DEF Refresh
  <1>4. CASE UNCHANGED vars
    BY <1>4 DEF vars, StepInv, TypeOK, PublisherOK, SubscriberOK, RefreshOK
  <1> QED
    BY <1>1, <1>2, <1>3, <1>4 DEF Next

LEMMA StepInductive == Spec => []StepInv
  <1>1. Init => StepInv
    <2> SUFFICES ASSUME Init PROVE StepInv
      OBVIOUS
    <2>1. /\ NoPath \in Paths /\ NoPath.local = 0 /\ NoPath.current = 0
          /\ 0 \in Tokens /\ MaxToken \in Nat
      BY AdaptedAssumption DEF NoPath, Paths, Tokens
    <2>2. TypeOK
      BY <2>1 DEF Init, TypeOK, Owners, PublisherRest, SubscriberRest
    <2>3. /\ pc \in [Owners -> PublisherLabels \cup SubscriberLabels]
          /\ \A o \in Owners : pc[o] = "absent"
      BY DEF Init, PublisherLabels, PublisherRest
    <2>4. \A p \in Publishers : PublisherOK(p)
      BY <2>3 DEF Init, PublisherOK, Owners
    <2>5. \A s \in Subscribers : SubscriberOK(s)
      BY <2>1, <2>3 DEF Init, SubscriberOK, Owners, Refreshing
    <2>6. \A o \in Owners : RefreshOK(o)
      BY <2>3 DEF Init, RefreshOK, Refreshing
    <2>7. \A p \in Publishers, s \in Subscribers : guardOwner[s] = p <=> refreshing[p].sub = s
      BY AdaptedAssumption DEF Init, Owners
    <2> QED
      BY <2>2, <2>3, <2>4, <2>5, <2>6, <2>7 DEF StepInv, Init
  <1> QED
    BY <1>1, StepsAreTyped, PTL DEF Spec

\* Every variable has its type, and no two publishers ever have one token, however
\* constructors, destructors and refreshes of all threads interleave.
THEOREM TypeCorrect == Spec => []TypeOK
  <1>1. StepInv => TypeOK
    BY DEF StepInv
  <1> QED
    BY <1>1, StepInductive, PTL

--------------------------------------------------------------------------------
(* The path of a subscriber                                                 *)

LEMMA PathFields ==
  ASSUME NEW t
  PROVE  /\ PathOf(t).local = t /\ PathOf(t).current = t
         /\ PathOf(t).usingLocal <=> t # 0
         /\ PathOf(t).public <=> t = 0
  BY Zenon DEF PathOf

\* The front topic is what the registered publishers of the stream make it.
LEMMA FrontStays ==
  ASSUME UNCHANGED <<token, publishers>>
  PROVE  \A stream : FrontTopic(stream)' = FrontTopic(stream)
  BY DEF FrontTopic

\* Nobody else refreshes a subscriber that is being refreshed.
LEMMA OneRefresher ==
  ASSUME StepInv, PathInv, NEW s \in Subscribers, NEW o \in Owners, NEW r \in Owners,
         refreshing[o].sub = s, refreshing[r].sub = s
  PROVE  o = r
  <1>1. pc[o] \in Refreshing /\ pc[r] \in Refreshing /\ s # Nobody
    BY AdaptedAssumption DEF StepInv, RefreshOK, Owners
  <1>2. pc[o] \notin PublisherRest \cup SubscriberRest /\ pc[r] \notin PublisherRest \cup SubscriberRest
    BY <1>1 DEF Refreshing, PublisherRest, SubscriberRest
  <1>3. (o \in Publishers /\ r \in Publishers) \/ (o \in Subscribers /\ r \in Subscribers)
    BY <1>2 DEF PathInv, Apart, PublishersAtRest, SubscribersAtRest, Owners
  <1>4. CASE o \in Publishers /\ r \in Publishers
    BY <1>4 DEF StepInv
  <1>5. CASE o \in Subscribers /\ r \in Subscribers
    BY <1>1, <1>5, AdaptedAssumption DEF StepInv, RefreshOK, Owners
  <1> QED
    BY <1>3, <1>4, <1>5

\* What publishers do between refreshes leaves the paths alone.
LEMMA PathBetween ==
  ASSUME StepInv, PathInv, ~SubscribersOverlap, NEW p \in Publishers,
         \/ ConstructPublisher(p) \/ Register(p) \/ Unregister(p)
         \/ CollectGuards(p) \/ TriggersDone(p)
  PROVE  PathInv'
  <1>1. /\ pc[p] \notin Refreshing /\ p \notin Subscribers
        /\ \A o \in Owners : o # p => pc'[o] = pc[o]
        /\ UNCHANGED <<refreshing, guardOwner, subscription>>
    BY AdaptedAssumption
    DEF ConstructPublisher, Register, Unregister, CollectGuards, TriggersDone, Goto,
        Refreshing, StepInv
  <1>2. SubscribersAtRest
    BY DEF ConstructPublisher, Register, Unregister, CollectGuards, TriggersDone,
           PathInv, Apart, PublishersAtRest, PublisherRest
  <1>3. \A s \in Subscribers : pc'[s] = pc[s]
    BY <1>1 DEF Owners
  <1>4. refreshing[p].sub = Nobody
    BY <1>1 DEF StepInv, RefreshOK, Owners
  <1>5. Apart'
    BY <1>2, <1>3 DEF Apart, SubscribersAtRest
  <1>6. \A s \in Subscribers : PathOK(s)'
    BY <1>1, <1>3 DEF PathInv, PathOK, OnePath
  <1>7. ASSUME NEW o \in Owners, NEW s \in Subscribers, refreshing[o].sub = s
        PROVE  MoveOK(o, s)'
    <2>1. o # p /\ MoveOK(o, s) /\ pc[o] \in Refreshing
      BY <1>4, <1>7, AdaptedAssumption DEF PathInv, StepInv, RefreshOK, Owners
    <2>2. o # s
      BY <1>2, <2>1 DEF SubscribersAtRest, SubscriberRest, Refreshing
    <2> QED
      BY <1>1, <1>3, <2>1, <2>2 DEF MoveOK, OnePath
  <1> QED
    BY <1>1, <1>5, <1>6, <1>7 DEF PathInv

LEMMA PathTrigger ==
  ASSUME StepInv, PathInv, NEW p \in Publishers, Trigger(p) PROVE PathInv'
  <1>1. PICK g \in guards[p] :
          /\ GuardFree(g.sub)
          /\ \/ /\ armed[g.sub]
                /\ guardOwner' = [guardOwner EXCEPT ![g.sub] = p]
                /\ refreshing' = [refreshing EXCEPT ![p] = [sub |-> g.sub, found |-> 0]]
                /\ pc' = [pc EXCEPT ![p] = "find"]
             \/ UNCHANGED <<guardOwner, refreshing, pc>>
    BY DEF Trigger, FirstOf, Goto
  <1>2. UNCHANGED <<token, publishers, subscription>> /\ pc[p] = "trigger"
    BY DEF Trigger, registry
  <1>3. PICK s \in Subscribers : s = g.sub
    BY <1>1 DEF StepInv, TypeOK
  <1>4. SubscribersAtRest
    BY <1>2 DEF PathInv, Apart, PublishersAtRest, PublisherRest
  <1>5. \A stream : FrontTopic(stream)' = FrontTopic(stream)
    BY <1>2, FrontStays
  <1>6. CASE UNCHANGED <<guardOwner, refreshing, pc>>
    BY <1>2, <1>5, <1>6
    DEF PathInv, Apart, PublishersAtRest, SubscribersAtRest, PathOK, MoveOK, OnePath
  <1>7. CASE /\ armed[s]
             /\ guardOwner' = [guardOwner EXCEPT ![s] = p]
             /\ refreshing' = [refreshing EXCEPT ![p] = [sub |-> s, found |-> 0]]
             /\ pc' = [pc EXCEPT ![p] = "find"]
    <2>1. \A t \in Subscribers : pc'[t] = pc[t]
      BY <1>7, AdaptedAssumption DEF StepInv, Owners
    <2>2. pc[s] = "live" /\ OnePath(s)
      <3>1. pc[s] = "live"
        BY <1>4, <1>7 DEF StepInv, SubscriberOK, SubscribersAtRest, SubscriberRest
      <3> QED
        BY <1>1, <1>3, <3>1 DEF GuardFree, PathInv, PathOK
    <2>3. Apart'
      BY <1>4, <2>1 DEF Apart, SubscribersAtRest
    <2>4. \A t \in Subscribers : guardOwner'[t] = IF t = s THEN p ELSE guardOwner[t]
      BY <1>7 DEF StepInv, TypeOK
    <2>5. p # Nobody
      BY AdaptedAssumption DEF Owners
    <2>6. \A t \in Subscribers : PathOK(t)'
      BY <1>2, <2>1, <2>2, <2>4, <2>5 DEF PathInv, PathOK, OnePath
    <2>7. ASSUME NEW o \in Owners, NEW t \in Subscribers, refreshing'[o].sub = t
          PROVE  MoveOK(o, t)'
      <3>1. CASE o = p
        <4>1. t = s /\ pc'[o] = "find"
          BY <1>7, <2>7, <3>1 DEF StepInv, TypeOK, Owners
        <4> QED
          BY <1>2, <2>1, <2>2, <4>1 DEF MoveOK, OnePath, Decided
      <3>2. CASE o # p
        <4>1. refreshing[o].sub = t /\ refreshing'[o] = refreshing[o] /\ pc'[o] = pc[o]
          BY <1>7, <2>7, <3>2 DEF StepInv, TypeOK
        <4> QED
          BY <1>2, <1>5, <2>1, <4>1 DEF PathInv, MoveOK, OnePath
      <3> QED
        BY <3>1, <3>2
    <2> QED
      BY <2>3, <2>6, <2>7 DEF PathInv
  <1> QED
    BY <1>1, <1>3, <1>6, <1>7

\* Who else there is when o refreshes s.
LEMMA AtRefresh ==
  ASSUME StepInv, PathInv, NEW o \in Owners, pc[o] \in Refreshing,
         NEW s \in Subscribers, s = refreshing[o].sub
  PROVE  /\ MoveOK(o, s)
         /\ o \in Subscribers => o = s /\ PublishersAtRest
         /\ o \in Publishers => SubscribersAtRest /\ guardOwner[s] = o /\ pc[s] = "live" /\ o # s
         /\ \A r \in Owners : refreshing[r].sub = s => r = o
  <1>1. MoveOK(o, s)
    BY DEF PathInv
  <1>2. o \in Subscribers => o = s
    BY AdaptedAssumption DEF StepInv, RefreshOK, Owners
  <1>3. pc[o] \notin PublisherRest \cup SubscriberRest
    BY DEF Refreshing, PublisherRest, SubscriberRest
  <1>4. /\ o \in Subscribers => PublishersAtRest
        /\ o \in Publishers => SubscribersAtRest
    BY <1>3 DEF PathInv, Apart, PublishersAtRest, SubscribersAtRest
  <1>5. o \in Publishers => guardOwner[s] = o /\ o # s
    BY AdaptedAssumption DEF StepInv
  <1> QED
    BY <1>1, <1>2, <1>4, <1>5, OneRefresher DEF MoveOK

\* A refresh of s by o goes on, or ends with s on one path.
LEMMA PathRefresh ==
  ASSUME StepInv, PathInv, NEW o \in Owners, pc[o] \in Refreshing,
         NEW s \in Subscribers, s = refreshing[o].sub,
         UNCHANGED <<token, publishers>>,
         \A r \in Owners : r # o => pc'[r] = pc[r] /\ refreshing'[r] = refreshing[r],
         \A t \in Subscribers : t # s =>
           guardOwner'[t] = guardOwner[t] /\ subscription'[t] = subscription[t],
         \/ /\ refreshing'[o].sub = s /\ pc'[o] \in Decided /\ guardOwner'[s] = guardOwner[s]
            /\ MoveOK(o, s)'
         \/ /\ refreshing'[o].sub = Nobody
            /\ pc'[o] = IF o \in Publishers THEN "trigger" ELSE "live"
            /\ OnePath(s)'
  PROVE  PathInv'
  <1>1. /\ MoveOK(o, s)
        /\ o \in Subscribers => o = s /\ PublishersAtRest
        /\ o \in Publishers => SubscribersAtRest /\ guardOwner[s] = o /\ pc[s] = "live" /\ o # s
        /\ \A r \in Owners : refreshing[r].sub = s => r = o
    BY AtRefresh
  <1>2. /\ \A t \in Subscribers : t # s => t # o /\ pc'[t] = pc[t]
        /\ s # o => pc'[s] = pc[s]
    BY <1>1 DEF Owners
  <1>3. \A stream : FrontTopic(stream)' = FrontTopic(stream)
    BY FrontStays
  <1>4. Nobody \notin Owners /\ (o \in Publishers => o \notin Subscribers)
    BY AdaptedAssumption
  <1>5. Apart'
    <2>1. CASE o \in Publishers
      <3>1. \A t \in Subscribers : pc'[t] = pc[t]
        BY <1>4, <2>1 DEF Owners
      <3> QED
        BY <1>1, <2>1, <3>1 DEF Apart, SubscribersAtRest
    <2>2. CASE o \in Subscribers
      <3>1. \A q \in Publishers : pc'[q] = pc[q]
        BY <1>4, <2>2 DEF Owners
      <3> QED
        BY <1>1, <2>2, <3>1 DEF Apart, PublishersAtRest
    <2> QED
      BY <2>1, <2>2 DEF Owners
  <1>6. ASSUME NEW t \in Subscribers PROVE PathOK(t)'
    <2>1. CASE t # s
      BY <1>2, <2>1 DEF PathInv, PathOK, OnePath
    <2>2. CASE t = s /\ o \in Publishers
      BY <1>1, <1>2, <1>4, <2>2 DEF PathOK, Owners
    <2>3. CASE t = s /\ o \in Subscribers
      BY <1>1, <1>4, <2>3 DEF PathOK, Decided
    <2> QED
      BY <2>1, <2>2, <2>3 DEF Owners
  <1>7. ASSUME NEW r \in Owners, NEW t \in Subscribers, refreshing'[r].sub = t
        PROVE  MoveOK(r, t)'
    <2>1. CASE r = o
      BY <1>4, <1>7, <2>1 DEF Owners
    <2>2. CASE r # o
      <3>1. refreshing[r].sub = t /\ refreshing'[r] = refreshing[r] /\ pc'[r] = pc[r] /\ t # s
        BY <1>1, <1>7, <2>2
      <3>2. MoveOK(r, t) /\ subscription'[t] = subscription[t] /\ pc'[t] = pc[t]
        BY <1>2, <3>1 DEF PathInv
      <3> QED
        BY <1>3, <3>1, <3>2 DEF MoveOK, OnePath
    <2> QED
      BY <2>1, <2>2
  <1> QED
    BY <1>5, <1>6, <1>7 DEF PathInv

\* What a step of a refresh leaves alone.
LEMMA RefreshFrame ==
  ASSUME StepInv, NEW o \in Owners, Refresh(o)
  PROVE  /\ pc[o] \in Refreshing /\ refreshing[o].sub \in Subscribers
         /\ UNCHANGED <<registry, guards, armed>>
         /\ \A r \in Owners : r # o => pc'[r] = pc[r] /\ refreshing'[r] = refreshing[r]
         /\ \A t \in Subscribers : t # refreshing[o].sub =>
              guardOwner'[t] = guardOwner[t] /\ subscription'[t] = subscription[t]
  <1>1. pc[o] \in Refreshing
    BY DEF Refresh, FindPublishers, KeepLocal, SubscribeLocal, AdoptLocal, DropLocal, FallBack,
           Refreshing
  <1>2. PICK s \in Subscribers : s = refreshing[o].sub
    BY <1>1, RefreshTypes
  <1>3. UNCHANGED <<registry, guards, armed>>
    BY DEF Refresh, FindPublishers, KeepLocal, SubscribeLocal, AdoptLocal, DropLocal, FallBack
  <1>4. \A r \in Owners : r # o => pc'[r] = pc[r] /\ refreshing'[r] = refreshing[r]
    BY DEF Refresh, FindPublishers, KeepLocal, SubscribeLocal, AdoptLocal, DropLocal, FallBack,
           Release, Goto, StepInv, TypeOK
  <1>5. \A t \in Subscribers : t # s =>
          guardOwner'[t] = guardOwner[t] /\ subscription'[t] = subscription[t]
    BY <1>2
    DEF Refresh, FindPublishers, KeepLocal, SubscribeLocal, AdoptLocal, DropLocal, FallBack,
        Release, StepInv, TypeOK
  <1> QED
    BY <1>1, <1>2, <1>3, <1>4, <1>5

\* A refresh that ends.
LEMMA Released ==
  ASSUME StepInv, NEW o \in Owners, Release(o)
  PROVE  /\ refreshing'[o].sub = Nobody
         /\ pc'[o] = IF o \in Publishers THEN "trigger" ELSE "live"
  BY DEF Release, Goto, StepInv, TypeOK

\* What each step of a refresh makes of the subscription.
LEMMA Moved ==
  ASSUME StepInv, PathInv, NEW o \in Owners, Refresh(o), NEW s \in Subscribers,
         s = refreshing[o].sub
  PROVE  \/ FindPublishers(o) /\ pc'[o] = "switch" /\ subscription' = subscription
            /\ guardOwner'[s] = guardOwner[s]
            /\ refreshing'[o] = [sub |-> s, found |-> FrontTopic(StreamOf[s])]
         \/ SubscribeLocal(o) /\ pc'[o] = "adopt" /\ refreshing' = refreshing
            /\ refreshing[o].found # 0 /\ guardOwner'[s] = guardOwner[s]
            /\ subscription'[s] = [subscription[s] EXCEPT !.local = refreshing[o].found]
         \/ DropLocal(o) /\ pc'[o] = "fall_back" /\ refreshing' = refreshing
            /\ refreshing[o].found = 0 /\ guardOwner'[s] = guardOwner[s]
            /\ subscription'[s] = [subscription[s] EXCEPT !.local = 0, !.current = 0]
         \/ (KeepLocal(o) \/ AdoptLocal(o) \/ FallBack(o)) /\ Release(o)
            /\ subscription'[s] = PathOf(refreshing[o].found)
            /\ pc[o] \in Decided
  <1>1. pc[o] \in Refreshing /\ MoveOK(o, s)
    BY RefreshFrame DEF PathInv
  <1>2. subscription[s] \in Paths /\ refreshing[o] \in [sub : Subscribers \cup {Nobody}, found : Tokens]
    BY <1>1, RefreshTypes DEF StepInv, TypeOK
  <1>3. CASE FindPublishers(o)
    BY <1>2, <1>3 DEF FindPublishers, Goto, StepInv, TypeOK
  <1>4. CASE SubscribeLocal(o)
    BY <1>4 DEF SubscribeLocal, Goto, StepInv, TypeOK
  <1>5. CASE DropLocal(o)
    <2>1. PICK path : path = [subscription[s] EXCEPT !.local = 0, !.current = 0]
      OBVIOUS
    <2>2. subscription'[s] = path
      BY <1>5, <2>1 DEF DropLocal, StepInv, TypeOK
    <2> QED
      BY <1>5, <2>1, <2>2 DEF DropLocal, Goto, StepInv, TypeOK
  <1>6. CASE KeepLocal(o)
    <2>1. /\ pc[o] = "switch" /\ Release(o) /\ subscription' = subscription
          /\ subscription[s].usingLocal /\ subscription[s].current = refreshing[o].found
      BY <1>6 DEF KeepLocal, AlreadyOn
    <2>2. ~NoPath.usingLocal
      BY DEF NoPath
    <2>3. subscription[s] = PathOf(refreshing[o].found)
      BY <1>1, <2>1, <2>2 DEF MoveOK, OnePath
    <2> QED
      BY <1>6, <2>1, <2>3 DEF Decided
  <1>7. CASE AdoptLocal(o)
    <2>1. PICK path : path = Adopted(subscription[s], refreshing[o].found)
      OBVIOUS
    <2>2. pc[o] = "adopt" /\ Release(o) /\ subscription'[s] = path
      BY <1>7, <2>1 DEF AdoptLocal, StepInv, TypeOK
    <2>3. refreshing[o].found # 0 /\ subscription[s].local = refreshing[o].found
      BY <1>1, <2>2 DEF MoveOK
    <2>4. path = PathOf(refreshing[o].found)
      BY <1>2, <2>1, <2>3 DEF Adopted, PathOf, Paths
    <2> QED
      BY <1>7, <2>2, <2>4 DEF Decided
  <1>8. CASE FallBack(o)
    <2>1. PICK path : path = [subscription[s] EXCEPT !.public = TRUE, !.usingLocal = FALSE]
      OBVIOUS
    <2>2. pc[o] = "fall_back" /\ Release(o) /\ subscription'[s] = path
      BY <1>8, <2>1 DEF FallBack, StepInv, TypeOK
    <2>3. refreshing[o].found = 0 /\ subscription[s].local = 0 /\ subscription[s].current = 0
      BY <1>1, <2>2 DEF MoveOK
    <2>4. path = PathOf(refreshing[o].found)
      BY <1>2, <2>1, <2>3 DEF PathOf, Paths
    <2> QED
      BY <1>8, <2>2, <2>4 DEF Decided
  <1> QED
    BY <1>3, <1>4, <1>5, <1>6, <1>7, <1>8 DEF Refresh

LEMMA PathMoves ==
  ASSUME StepInv, PathInv, NEW o \in Owners, Refresh(o) PROVE PathInv'
  <1>1. PICK s \in Subscribers : s = refreshing[o].sub
    BY RefreshFrame
  <1>2. /\ pc[o] \in Refreshing
        /\ UNCHANGED <<token, publishers>>
        /\ \A r \in Owners : r # o => pc'[r] = pc[r] /\ refreshing'[r] = refreshing[r]
        /\ \A t \in Subscribers : t # s =>
             guardOwner'[t] = guardOwner[t] /\ subscription'[t] = subscription[t]
    BY <1>1, RefreshFrame DEF registry
  <1>3. /\ MoveOK(o, s) /\ (o # s => pc'[s] = pc[s])
        /\ \A stream : FrontTopic(stream)' = FrontTopic(stream)
    BY <1>1, <1>2, FrontStays DEF PathInv, Owners
  <1>4. subscription[s] \in Paths
    BY DEF StepInv, TypeOK
  <1>5. CASE FindPublishers(o) /\ pc'[o] = "switch" /\ subscription' = subscription
             /\ guardOwner'[s] = guardOwner[s]
             /\ refreshing'[o] = [sub |-> s, found |-> FrontTopic(StreamOf[s])]
    <2>1. pc[o] = "find"
      BY <1>5 DEF FindPublishers
    <2>2. MoveOK(o, s)'
      BY <1>3, <1>5, <2>1 DEF MoveOK, OnePath
    <2> QED
      BY <1>1, <1>2, <1>5, <2>2, PathRefresh DEF Decided
  <1>6. CASE SubscribeLocal(o) /\ pc'[o] = "adopt" /\ refreshing' = refreshing
             /\ refreshing[o].found # 0 /\ guardOwner'[s] = guardOwner[s]
             /\ subscription'[s] = [subscription[s] EXCEPT !.local = refreshing[o].found]
    <2>1. pc[o] = "switch" /\ subscription'[s].local = refreshing[o].found
      BY <1>4, <1>6 DEF SubscribeLocal, Paths
    <2>2. MoveOK(o, s)'
      BY <1>3, <1>6, <2>1 DEF MoveOK, Decided
    <2> QED
      BY <1>1, <1>2, <1>6, <2>2, PathRefresh DEF Decided
  <1>7. CASE DropLocal(o) /\ pc'[o] = "fall_back" /\ refreshing' = refreshing
             /\ refreshing[o].found = 0 /\ guardOwner'[s] = guardOwner[s]
             /\ subscription'[s] = [subscription[s] EXCEPT !.local = 0, !.current = 0]
    <2>1. pc[o] = "switch" /\ subscription'[s].local = 0 /\ subscription'[s].current = 0
      BY ZenonT(60), <1>4, <1>7 DEF DropLocal, Paths
    <2>2. MoveOK(o, s)'
      BY SMTT(20), <1>3, <1>7, <2>1 DEF MoveOK, Decided
    <2> QED
      BY <1>1, <1>2, <1>7, <2>2, PathRefresh DEF Decided
  <1>8. CASE Release(o) /\ subscription'[s] = PathOf(refreshing[o].found)
    <2>1. OnePath(s)'
      BY <1>8 DEF OnePath, PathOf
    <2> QED
      BY <1>1, <1>2, <1>8, <2>1, Released, PathRefresh
  <1> QED
    BY <1>1, <1>5, <1>6, <1>7, <1>8, Moved

\* A subscriber comes or goes while no publisher does.
LEMMA PathSubscriber ==
  ASSUME StepInv, PathInv, ~SubscribersOverlap, NEW s \in Subscribers,
         \/ ConstructSubscriber(s) \/ RemoveInterest(s)
         \/ DropSubscriptions(s) \/ Disarm(s)
  PROVE  PathInv'
  <1>1. /\ pc[s] \notin Refreshing /\ s \notin Publishers /\ s # Nobody
        /\ \A o \in Owners : o # s => pc'[o] = pc[o]
        /\ UNCHANGED <<token, publishers, guardOwner>>
        /\ \A o \in Owners : o # s => refreshing'[o] = refreshing[o]
        /\ \A t \in Subscribers : t # s => subscription'[t] = subscription[t]
    BY AdaptedAssumption
    DEF ConstructSubscriber, RemoveInterest, DropSubscriptions, Disarm, Goto, Refreshing,
        StepInv, TypeOK, Owners, registry
  <1>2. PublishersAtRest
    BY DEF ConstructSubscriber, RemoveInterest, DropSubscriptions, Disarm,
           PathInv, Apart, SubscribersAtRest, SubscriberRest
  <1>3. Apart'
    <2>1. \A p \in Publishers : pc'[p] = pc[p]
      BY <1>1 DEF Owners
    <2> QED
      BY <1>2, <2>1 DEF Apart, PublishersAtRest
  <1>4. \A stream : FrontTopic(stream)' = FrontTopic(stream)
    BY <1>1, FrontStays
  <1>5. \A o \in Owners : refreshing[o].sub # s
    <2>1. \A p \in Publishers : refreshing[p].sub = Nobody
      BY <1>2 DEF PublishersAtRest, PublisherRest, StepInv, RefreshOK, Refreshing, Owners
    <2>2. \A t \in Subscribers : refreshing[t].sub = s => t = s
      BY <1>1 DEF StepInv, RefreshOK, Owners
    <2>3. refreshing[s].sub # s
      BY <1>1 DEF StepInv, RefreshOK, Owners
    <2> QED
      BY <1>1, <2>1, <2>2, <2>3 DEF Owners
  <1>6. ASSUME NEW o \in Owners, NEW t \in Subscribers, o # s, refreshing'[o].sub = t
        PROVE  MoveOK(o, t)'
    <2>1. refreshing[o].sub = t /\ refreshing'[o] = refreshing[o] /\ pc'[o] = pc[o] /\ t # s
      BY <1>1, <1>5, <1>6
    <2>2. MoveOK(o, t) /\ subscription'[t] = subscription[t] /\ pc'[t] = pc[t]
      BY <1>1, <2>1 DEF PathInv, Owners
    <2> QED
      BY <1>4, <2>1, <2>2 DEF MoveOK, OnePath
  <1>7. ASSUME NEW t \in Subscribers, t # s PROVE PathOK(t)'
    BY <1>1, <1>7 DEF PathInv, PathOK, OnePath, Owners
  <1>8. CASE ConstructSubscriber(s)
    <2>1. /\ pc'[s] = "find" /\ subscription' = subscription
          /\ subscription[s] = NoPath
      BY <1>8 DEF ConstructSubscriber, Goto, StepInv, PathInv, PathOK, Owners
    <2>2. PathOK(s)' /\ MoveOK(s, s)'
      BY <2>1 DEF PathOK, MoveOK, Decided
    <2>3. refreshing'[s].sub = s
      BY <1>8 DEF ConstructSubscriber, StepInv, TypeOK, Owners
    <2> QED
      BY <1>3, <1>6, <1>7, <2>2, <2>3 DEF PathInv
  <1>9. CASE RemoveInterest(s) \/ DropSubscriptions(s) \/ Disarm(s)
    <2>1. refreshing' = refreshing
      BY <1>9 DEF RemoveInterest, DropSubscriptions, Disarm
    <2>2. PathOK(s)'
      <3>1. CASE RemoveInterest(s)
        BY <3>1 DEF RemoveInterest, Goto, StepInv, PathOK, Owners
      <3>2. CASE DropSubscriptions(s)
        <4>1. PICK path : path = Dropped(subscription[s])
          OBVIOUS
        <4>2. pc'[s] = "disarm" /\ subscription'[s] = path
          BY <3>2, <4>1 DEF DropSubscriptions, Goto, StepInv, TypeOK, Owners
        <4>3. path.local = 0 /\ ~path.public
          BY <4>1 DEF Dropped, StepInv, TypeOK, Paths
        <4> QED
          BY <4>2, <4>3 DEF PathOK
      <3>3. CASE Disarm(s)
        BY <3>3 DEF Disarm, Goto, StepInv, PathInv, PathOK, Owners
      <3> QED
        BY <1>9, <3>1, <3>2, <3>3
    <2>3. \A t \in Subscribers : refreshing[s].sub # t
      BY <1>5, AdaptedAssumption DEF StepInv, RefreshOK, Owners
    <2> QED
      BY <1>3, <1>6, <1>7, <2>1, <2>2, <2>3 DEF PathInv
  <1> QED
    BY <1>8, <1>9

LEMMA PathInductive == ASSUME ~SubscribersOverlap PROVE Spec => []PathInv
  <1>1. Init => PathInv
    <2> SUFFICES ASSUME Init PROVE PathInv
      OBVIOUS
    <2>1. \A o \in Owners : pc[o] = "absent" /\ refreshing[o].sub = Nobody
      BY DEF Init
    <2>2. Apart
      BY <2>1 DEF Apart, PublishersAtRest, PublisherRest, Owners
    <2>3. \A s \in Subscribers : PathOK(s)
      BY <2>1 DEF Init, PathOK, Owners
    <2> QED
      BY <2>1, <2>2, <2>3, AdaptedAssumption DEF PathInv, Owners
  <1>2. StepInv /\ PathInv /\ [Next]_vars => PathInv'
    <2> SUFFICES ASSUME StepInv, PathInv, [Next]_vars PROVE PathInv'
      OBVIOUS
    <2>1. ASSUME NEW p \in Publishers,
                 ConstructPublisher(p) \/ Unregister(p) \/ PublisherStep(p)
          PROVE  PathInv'
      BY <2>1, PathBetween, PathTrigger DEF PublisherStep
    <2>2. ASSUME NEW s \in Subscribers,
                 ConstructSubscriber(s) \/ RemoveInterest(s) \/ ShutdownStep(s)
          PROVE  PathInv'
      BY <2>2, PathSubscriber DEF ShutdownStep
    <2>3. ASSUME NEW o \in Owners, Refresh(o) PROVE PathInv'
      BY <2>3, PathMoves
    <2>4. CASE UNCHANGED vars
      <3>1. UNCHANGED <<pc, token, publishers, refreshing, guardOwner, subscription>>
        BY <2>4 DEF vars
      <3>2. \A stream : FrontTopic(stream)' = FrontTopic(stream)
        BY <3>1, FrontStays
      <3>3. Apart'
        BY <3>1 DEF PathInv, Apart, PublishersAtRest, SubscribersAtRest
      <3>4. \A s \in Subscribers : PathOK(s)'
        BY <3>1 DEF PathInv, PathOK, OnePath
      <3>5. \A o \in Owners, s \in Subscribers : refreshing'[o].sub = s => MoveOK(o, s)'
        BY <3>1, <3>2 DEF PathInv, MoveOK, OnePath
      <3> QED
        BY <3>3, <3>4, <3>5 DEF PathInv
    <2> QED
      BY <2>1, <2>2, <2>3, <2>4 DEF Next
  <1> QED
    BY <1>1, <1>2, StepInductive, PTL DEF Spec

\* A subscriber that returned from shutdown has no subscription, when publishers
\* and subscribers of the process do not come and go at once.
THEOREM ShutdownEnds == ASSUME ~SubscribersOverlap PROVE Spec => []ShutdownIsFinal
  <1>1. PathInv => ShutdownIsFinal
    BY DEF PathInv, PathOK, ShutdownIsFinal
  <1> QED
    BY <1>1, PathInductive, PTL

--------------------------------------------------------------------------------
(* Following the registry                                                   *)

LEMMA FrontOfOthers ==
  ASSUME NEW stream, publishers \subseteq Publishers, publishers' \subseteq Publishers,
         \A p \in Publishers : StreamOf[p] = stream =>
           (p \in publishers' <=> p \in publishers) /\ (p \in publishers => token'[p] = token[p])
  PROVE  FrontTopic(stream)' = FrontTopic(stream)
  <1>1. PICK here : here = {q \in publishers : StreamOf[q] = stream}
    OBVIOUS
  <1>2. {q \in publishers' : StreamOf[q] = stream} = here
    BY <1>1
  <1>3. \A q \in here : token'[q] = token[q]
    BY <1>1
  <1>4. {token'[q] : q \in here} = {token[q] : q \in here}
    BY <1>3
  <1> QED
    BY <1>1, <1>2, <1>4 DEF FrontTopic

\* A new publisher is in front, or the front is as it was.
LEMMA FrontAfterRegister ==
  ASSUME StepInv, NEW p \in Publishers, publishers' = publishers \cup {p}, token' = token
  PROVE  \/ FrontTopic(StreamOf[p])' = token[p]
         \/ FrontTopic(StreamOf[p])' = FrontTopic(StreamOf[p])
  <1>1. PICK found : found = {token[r] : r \in {q \in publishers : StreamOf[q] = StreamOf[p]}}
    OBVIOUS
  <1>2. found \cup {token[p]} =
          {token'[r] : r \in {q \in publishers' : StreamOf[q] = StreamOf[p]}}
    BY <1>1
  <1>3. found \in SUBSET Nat /\ token[p] \in Nat
    BY <1>1 DEF StepInv, TypeOK, Tokens
  <1>4. FrontTopic(StreamOf[p]) = FrontOf(found)
    BY <1>1 DEF FrontTopic
  <1>5. FrontTopic(StreamOf[p])' = FrontOf(found \cup {token[p]})
    BY <1>2 DEF FrontTopic
  <1>6. PICK both : both = found \cup {token[p]}
    OBVIOUS
  <1>7. both \in SUBSET Nat /\ both # {}
    BY <1>3, <1>6
  <1>8. FrontOf(both) \in both /\ \A u \in both : FrontOf(both) <= u
    BY <1>7, FrontIsLeast
  <1>9. found # {} => FrontOf(found) \in found /\ \A u \in found : FrontOf(found) <= u
    BY <1>3, FrontIsLeast
  <1>10. FrontOf(both) = token[p] \/ FrontOf(both) = FrontOf(found)
    BY <1>3, <1>6, <1>7, <1>8, <1>9
  <1> QED
    BY <1>4, <1>5, <1>6, <1>10

\* A subscriber that a step of x does not refresh stays as it was, and so do those
\* who still have to refresh it.
LEMMA FollowKept ==
  ASSUME NEW t \in Subscribers, FollowOK(t), NEW x \in Owners,
         FrontTopic(StreamOf[t])' = FrontTopic(StreamOf[t]),
         subscription'[t] = subscription[t], pc'[t] = pc[t],
         \A o \in Owners : o # x => pc'[o] = pc[o] /\ refreshing'[o] = refreshing[o],
         refreshing'[x].sub # t,
         \A q \in Publishers : Moves(q) /\ Untold(q, t) => (Moves(q) /\ Untold(q, t))'
  PROVE  FollowOK(t)'
  <1>1. OnFront(t) => OnFront(t)'
    BY DEF OnFront
  <1>2. \A o \in Owners : refreshing'[o].sub = t =>
          refreshing'[o] = refreshing[o] /\ pc'[o] = pc[o]
    OBVIOUS
  <1>3. Settled(t) => Settled(t)'
    BY <1>1, <1>2 DEF Settled
  <1> QED
    BY <1>3 DEF FollowOK

\* Nobody but its own stream is touched by a publisher that comes or goes.
LEMMA FollowBetween ==
  ASSUME StepInv, FollowInv, NEW p \in Publishers,
         \/ ConstructPublisher(p) \/ Register(p) \/ Unregister(p)
         \/ CollectGuards(p) \/ TriggersDone(p)
  PROVE  FollowInv'
  <1>1. /\ \A o \in Owners : o # p => pc'[o] = pc[o]
        /\ UNCHANGED <<refreshing, subscription, interest>>
        /\ \A q \in Publishers : q # p => guards'[q] = guards[q] /\ token'[q] = token[q]
        /\ publishers \subseteq Publishers /\ publishers' \subseteq Publishers
        /\ \A q \in Publishers : q # p => (q \in publishers' <=> q \in publishers)
        /\ p \in publishers => token'[p] = token[p]
    BY DEF ConstructPublisher, Register, Unregister, CollectGuards, TriggersDone, Goto,
           registry, StepInv, TypeOK, PublisherOK
  <1>2. pc[p] \notin Refreshing /\ refreshing[p].sub = Nobody /\ p \notin Subscribers
    BY AdaptedAssumption
    DEF ConstructPublisher, Register, Unregister, CollectGuards, TriggersDone, Refreshing,
        StepInv, RefreshOK, Owners
  <1>3. \A t \in Subscribers : pc'[t] = pc[t] /\ t # Nobody
    BY <1>1, <1>2, AdaptedAssumption DEF Owners
  <1> SUFFICES ASSUME NEW t \in Subscribers PROVE FollowOK(t)'
    BY DEF FollowInv
  <1>4. FollowOK(t) /\ refreshing'[p].sub # t
    BY <1>1, <1>2, <1>3 DEF FollowInv
  <1>5. ASSUME NEW q \in Publishers, q # p, Moves(q), Untold(q, t),
               FrontTopic(StreamOf[t])' = FrontTopic(StreamOf[t])
        PROVE  (Moves(q) /\ Untold(q, t))'
    <2>1. StreamOf[q] = StreamOf[t] /\ pc'[q] = pc[q]
      BY <1>1, <1>5 DEF Untold, Owners
    <2> QED
      BY <1>1, <1>5, <2>1 DEF Moves, Untold, WillSettle
  <1>6. CASE (Register(p) \/ Unregister(p)) /\ StreamOf[p] = StreamOf[t]
    <2>1. Untold(p, t)'
      BY <1>6 DEF Register, Unregister, Goto, Untold, StepInv, Owners
    <2>2. CASE Moves(p)'
      BY <2>1, <2>2 DEF FollowOK
    <2>3. CASE ~Moves(p)'
      <3>1. Register(p)
        BY <1>6, <2>3 DEF Unregister, Goto, Moves, StepInv, Owners
      <3>2. publishers' = publishers \cup {p} /\ token' = token /\ pc[p] = "register"
        BY <3>1 DEF Register
      <3>3. FrontTopic(StreamOf[t])' # token[p]
        BY <1>6, <2>3, <3>2 DEF Moves
      <3>4. FrontTopic(StreamOf[t])' = FrontTopic(StreamOf[t])
        BY <1>6, <3>2, <3>3, FrontAfterRegister
      <3>5. ~Moves(p)
        BY <3>2 DEF Moves, StepInv, PublisherOK
      <3> QED
        BY <1>1, <1>3, <1>4, <1>5, <3>4, <3>5, FollowKept DEF Owners
    <2> QED
      BY <2>2, <2>3
  <1>7. CASE (Register(p) \/ Unregister(p)) /\ StreamOf[p] # StreamOf[t]
    <2>1. FrontTopic(StreamOf[t])' = FrontTopic(StreamOf[t])
      BY <1>1, <1>7, FrontOfOthers
    <2>2. ~Untold(p, t)
      BY <1>7 DEF Untold
    <2> QED
      BY <1>1, <1>3, <1>4, <1>5, <2>1, <2>2, FollowKept DEF Owners
  <1>8. CASE ConstructPublisher(p) \/ TriggersDone(p)
    <2>1. FrontTopic(StreamOf[t])' = FrontTopic(StreamOf[t])
      <3>1. publishers' = publishers
        BY <1>8 DEF ConstructPublisher, TriggersDone
      <3> QED
        BY <1>1, <3>1, FrontOfOthers
    <2>2. ~Untold(p, t)
      <3>1. pc[p] \in {"absent", "trigger"} /\ guards[p] = {}
        BY <1>8 DEF ConstructPublisher, TriggersDone, StepInv, PublisherOK
      <3> QED
        BY <1>2, <1>3, <3>1 DEF Untold, WillSettle
    <2> QED
      BY <1>1, <1>3, <1>4, <1>5, <2>1, <2>2, FollowKept DEF Owners
  <1>9. CASE CollectGuards(p) /\ pc[t] = "live"
    <2>1. UNCHANGED <<token, publishers>> /\ pc[p] = "collect" /\ pc'[p] = "trigger"
          /\ guards'[p] = Matching(p)
      BY <1>9 DEF CollectGuards, Goto, registry, StepInv, TypeOK, Owners
    <2>2. FrontTopic(StreamOf[t])' = FrontTopic(StreamOf[t])
      BY <2>1, FrontStays
    <2>3. ASSUME Moves(p), Untold(p, t) PROVE (Moves(p) /\ Untold(p, t))'
      <3>1. StreamOf[p] = StreamOf[t] /\ interest[t] # 0
        BY <1>9, <2>3 DEF Untold, StepInv, SubscriberOK
      <3>2. GuardOf(t) \in Matching(p) /\ GuardOf(t).sub = t
        BY <3>1 DEF Matching, Interested, GuardOf
      <3>3. Untold(p, t)'
        BY <2>1, <3>1, <3>2 DEF Untold
      <3>4. Moves(p)'
        BY <2>1, <2>2, <2>3, <3>1 DEF Moves
      <3> QED
        BY <3>3, <3>4
    <2> QED
      BY <1>1, <1>3, <1>4, <1>5, <2>2, <2>3, FollowKept DEF Owners
  <1>10. CASE pc[t] # "live"
    BY <1>3, <1>10 DEF FollowOK
  <1> QED
    BY <1>6, <1>7, <1>8, <1>9, <1>10

LEMMA FollowTrigger ==
  ASSUME StepInv, FollowInv, NEW p \in Publishers, Trigger(p) PROVE FollowInv'
  <1>1. PICK g \in guards[p] :
          /\ guards' = [guards EXCEPT ![p] = @ \ {g}]
          /\ \/ /\ armed[g.sub]
                /\ refreshing' = [refreshing EXCEPT ![p] = [sub |-> g.sub, found |-> 0]]
                /\ pc' = [pc EXCEPT ![p] = "find"]
             \/ ~armed[g.sub] /\ UNCHANGED <<guardOwner, refreshing, pc>>
    BY DEF Trigger, FirstOf, Goto
  <1>2. UNCHANGED <<token, publishers, subscription>> /\ pc[p] = "trigger"
    BY DEF Trigger, registry
  <1>3. PICK s \in Subscribers : s = g.sub
    BY <1>1 DEF StepInv, TypeOK
  <1>4. \A stream : FrontTopic(stream)' = FrontTopic(stream)
    BY <1>2, FrontStays
  <1>5. /\ refreshing[p].sub = Nobody /\ p \notin Subscribers /\ Nobody \notin Subscribers
        /\ \A q \in Publishers : q # p => guards'[q] = guards[q]
        /\ guards'[p] = guards[p] \ {g}
        /\ \A o \in Owners : o # p => pc'[o] = pc[o] /\ refreshing'[o] = refreshing[o]
        /\ pc'[p] \in {"trigger", "find"}
        /\ refreshing'[p].sub \in {Nobody, s}
    <2>1. refreshing[p].sub = Nobody /\ p \notin Subscribers /\ Nobody \notin Subscribers
      BY <1>2, AdaptedAssumption DEF StepInv, RefreshOK, Refreshing, Owners
    <2>2. \A q \in Publishers : guards'[q] = IF q = p THEN guards[p] \ {g} ELSE guards[q]
      BY <1>1 DEF StepInv, TypeOK
    <2>3. /\ \A o \in Owners : o # p => pc'[o] = pc[o] /\ refreshing'[o] = refreshing[o]
          /\ pc'[p] \in {"trigger", "find"} /\ refreshing'[p].sub \in {Nobody, s}
      BY <1>1, <1>2, <1>3, <2>1 DEF StepInv, TypeOK, Owners
    <2> QED
      BY <2>1, <2>2, <2>3
  <1>6. \A t \in Subscribers : pc'[t] = pc[t] /\ FollowOK(t)
    BY <1>5 DEF Owners, FollowInv
  <1>7. \A q \in Publishers : Moves(q) => Moves(q)'
    BY <1>2, <1>4, <1>5 DEF Moves, Owners
  <1>8. ASSUME NEW t \in Subscribers, NEW q \in Publishers, Untold(q, t), t # s \/ q # p
        PROVE  Untold(q, t)'
    <2>1. CASE q # p
      <3>1. pc'[q] = pc[q] /\ refreshing'[q] = refreshing[q] /\ guards'[q] = guards[q]
        BY <1>5, <2>1 DEF Owners
      <3> QED
        BY <1>4, <1>8, <3>1 DEF Untold, WillSettle
    <2>2. CASE q = p
      <3>1. PICK h \in guards[p] : h.sub = t
        BY <1>2, <1>5, <1>8, <2>2 DEF Untold, WillSettle
      <3>2. h \in guards'[p]
        BY <1>3, <1>5, <1>8, <2>2, <3>1
      <3> QED
        BY <1>8, <2>2, <3>1, <3>2 DEF Untold
    <2> QED
      BY <2>1, <2>2
  <1>9. ASSUME NEW t \in Subscribers, t # s PROVE FollowOK(t)'
    BY <1>2, <1>4, <1>5, <1>6, <1>7, <1>8, <1>9, FollowKept DEF Owners
  <1>10. ASSUME armed[s], pc[s] = "live" PROVE FollowOK(s)'
    <2>1. pc'[p] = "find" /\ refreshing'[p].sub = s
      BY <1>1, <1>3, <1>10 DEF StepInv, TypeOK, Owners
    <2>2. Untold(p, s) => Untold(p, s)'
      BY <2>1 DEF Untold, WillSettle
    <2>3. Settled(s) => Settled(s)'
      <3>1. OnFront(s) => OnFront(s)'
        BY <1>2, <1>4 DEF OnFront
      <3>2. \A o \in Owners : refreshing'[o].sub = s /\ pc'[o] \in Decided =>
              refreshing[o] = refreshing'[o] /\ pc[o] = pc'[o]
        BY <1>5, <2>1 DEF Decided
      <3> QED
        BY <1>4, <3>1, <3>2 DEF Settled
    <2>4. \A q \in Publishers : Moves(q) /\ Untold(q, s) => Moves(q)' /\ Untold(q, s)'
      BY <1>7, <1>8, <2>2
    <2> QED
      BY <1>6, <2>3, <2>4 DEF FollowOK
  <1>11. ASSUME ~(armed[s] /\ pc[s] = "live") PROVE FollowOK(s)'
    <2>1. pc[s] # "live"
      BY <1>11 DEF StepInv, SubscriberOK
    <2> QED
      BY <1>6, <2>1 DEF FollowOK
  <1> QED
    BY <1>9, <1>10, <1>11 DEF FollowInv

LEMMA FollowMoves ==
  ASSUME StepInv, PathInv, FollowInv, NEW o \in Owners, Refresh(o) PROVE FollowInv'
  <1>1. PICK s \in Subscribers : s = refreshing[o].sub
    BY RefreshFrame
  <1>2. /\ pc[o] \in Refreshing
        /\ UNCHANGED <<token, publishers, guards>>
        /\ \A r \in Owners : r # o => pc'[r] = pc[r] /\ refreshing'[r] = refreshing[r]
        /\ \A t \in Subscribers : t # s => subscription'[t] = subscription[t]
    BY <1>1, RefreshFrame DEF registry
  <1>3. /\ MoveOK(o, s)
        /\ o \in Subscribers => o = s
        /\ o \in Publishers => pc[s] = "live" /\ o # s
        /\ \A r \in Owners : refreshing[r].sub = s => r = o
    BY <1>1, <1>2, AtRefresh
  <1>4. \A stream : FrontTopic(stream)' = FrontTopic(stream)
    BY <1>2, FrontStays
  <1>5. /\ refreshing'[o].sub \in {s, Nobody}
        /\ pc'[o] \in Decided \cup {"trigger", "live"}
    <2>1. CASE pc'[o] = "switch"
               /\ refreshing'[o] = [sub |-> s, found |-> FrontTopic(StreamOf[s])]
      BY <2>1 DEF Decided
    <2>2. CASE pc'[o] \in {"adopt", "fall_back"} /\ refreshing' = refreshing
      BY <1>1, <2>2 DEF Decided
    <2>3. CASE Release(o)
      BY <2>3, Released
    <2> QED
      BY <1>1, <2>1, <2>2, <2>3, Moved
  <1>6. \A q \in Publishers : Moves(q) => Moves(q)'
    BY <1>2, <1>4, <1>5 DEF Moves, Owners, Decided
  <1>7. ASSUME NEW t \in Subscribers, t # s PROVE FollowOK(t)'
    <2>1. pc'[t] = pc[t] /\ t # Nobody /\ FollowOK(t)
      BY <1>2, <1>3, <1>7, AdaptedAssumption DEF Owners, FollowInv
    <2>2. ASSUME NEW q \in Publishers, Untold(q, t) PROVE Untold(q, t)'
      <3>1. CASE q = o
        BY <1>1, <1>2, <1>7, <2>2, <3>1 DEF Untold, WillSettle, Refreshing
      <3>2. CASE q # o
        BY <1>2, <1>4, <2>2, <3>2 DEF Untold, WillSettle, Owners
      <3> QED
        BY <3>1, <3>2
    <2> QED
      BY <1>2, <1>4, <1>5, <1>6, <1>7, <2>1, <2>2, FollowKept
  <1>8. FollowOK(s)'
    <2>1. ASSUME NEW q \in Publishers, q # o, Untold(q, s) PROVE Untold(q, s)'
      BY <1>2, <1>4, <2>1 DEF Untold, WillSettle, Owners
    <2>2. FollowOK(s)
      BY DEF FollowInv
    <2>3. CASE FindPublishers(o) /\ pc'[o] = "switch" /\ subscription' = subscription
               /\ refreshing'[o] = [sub |-> s, found |-> FrontTopic(StreamOf[s])]
      <3>1. CASE o = s
        BY <2>3, <3>1 DEF FollowOK
      <3>2. CASE o # s
        <4>1. o \in Publishers /\ pc'[s] = pc[s] /\ pc[o] = "find"
          BY <1>2, <1>3, <2>3, <3>2 DEF Owners, FindPublishers
        <4>2. Untold(o, s) => Untold(o, s)'
          BY <1>1, <1>2, <1>4, <2>3, <4>1 DEF Untold, WillSettle
        <4>3. Settled(s) => Settled(s)'
          <5>1. OnFront(s) => OnFront(s)'
            BY <1>4, <2>3 DEF OnFront
          <5>2. \A r \in Owners : refreshing'[r].sub = s => r = o
            BY <1>2, <1>3
          <5> QED
            BY <1>4, <2>3, <5>1, <5>2 DEF Settled
        <4> QED
          BY <1>6, <2>1, <2>2, <4>1, <4>2, <4>3 DEF FollowOK
      <3> QED
        BY <3>1, <3>2
    <2>4. CASE /\ SubscribeLocal(o) \/ DropLocal(o)
               /\ pc'[o] \in {"adopt", "fall_back"} /\ refreshing' = refreshing
      <3>1. CASE o = s
        BY <2>4, <3>1 DEF FollowOK
      <3>2. CASE o # s
        <4>1. o \in Publishers /\ pc'[s] = pc[s] /\ pc[o] = "switch" /\ pc[s] = "live"
          BY <1>2, <1>3, <2>4, <3>2 DEF Owners, SubscribeLocal, DropLocal
        <4>2. Untold(o, s) => Untold(o, s)'
          BY <1>2, <1>4, <2>4, <4>1 DEF Untold, WillSettle
        <4>3. ASSUME Settled(s) PROVE Settled(s)'
          <5>1. refreshing[o].found = FrontTopic(StreamOf[s]) /\ OnFront(s)
            BY <1>1, <4>1, <4>3 DEF Settled, Decided
          <5>2. subscription[s] = PathOf(refreshing[o].found)
            BY <5>1 DEF OnFront
          <5>3. CASE SubscribeLocal(o)
            <6>1. refreshing[o].found # 0 /\ ~AlreadyOn(s, refreshing[o].found)
              BY <1>1, <5>3 DEF SubscribeLocal
            <6>2. subscription[s].usingLocal /\ subscription[s].current = refreshing[o].found
              BY <5>2, <6>1, PathFields
            <6> QED
              BY <6>1, <6>2 DEF AlreadyOn
          <5>4. CASE DropLocal(o)
            <6>1. PICK path : path = [subscription[s] EXCEPT !.local = 0, !.current = 0]
              OBVIOUS
            <6>2. refreshing[o].found = 0 /\ subscription'[s] = path
              BY <1>1, <5>4, <6>1 DEF DropLocal, StepInv, TypeOK
            <6>3. path = subscription[s]
              <7>1. subscription[s] \in Paths
                BY DEF StepInv, TypeOK
              <7>2. subscription[s].local = 0 /\ subscription[s].current = 0
                BY <5>2, <6>2 DEF PathOf
              <7> QED
                BY <6>1, <7>1, <7>2 DEF Paths
            <6>4. OnFront(s)'
              BY <1>4, <5>1, <6>2, <6>3 DEF OnFront
            <6>5. \A r \in Owners : refreshing'[r].sub = s => r = o
              BY <1>3, <2>4
            <6> QED
              BY <1>4, <2>4, <5>1, <6>4, <6>5 DEF Settled
          <5> QED
            BY <2>4, <5>3, <5>4
        <4> QED
          BY <1>6, <2>1, <2>2, <4>1, <4>2, <4>3 DEF FollowOK
      <3> QED
        BY <3>1, <3>2
    <2>5. CASE /\ Release(o) /\ subscription'[s] = PathOf(refreshing[o].found)
               /\ pc[o] \in Decided
      <3>1. /\ refreshing'[o].sub = Nobody /\ pc'[o] # "find" /\ s # Nobody
            /\ o # s => pc'[s] = pc[s]
        BY <1>2, <2>5, Released, AdaptedAssumption DEF Owners
      <3>2. \A r \in Owners : refreshing'[r].sub # s
        BY <1>2, <1>3, <3>1
      <3>3. CASE refreshing[o].found = FrontTopic(StreamOf[s])
        <4>1. Settled(s)'
          BY <1>4, <2>5, <3>2, <3>3 DEF Settled, OnFront
        <4> QED
          BY <4>1 DEF FollowOK
      <3>4. CASE refreshing[o].found # FrontTopic(StreamOf[s])
        <4>1. o \in Publishers /\ pc'[s] = pc[s] /\ pc[s] = "live"
          BY <1>2, <1>3, <2>5, <3>1, <3>4 DEF MoveOK, Owners
        <4>2. ~Settled(s)
          BY <1>1, <2>5, <3>4 DEF Settled
        <4>3. Untold(o, s) => Untold(o, s)'
          BY <1>2, <2>5, <3>4 DEF Untold, WillSettle, Decided
        <4> QED
          BY <1>6, <2>1, <2>2, <4>1, <4>2, <4>3 DEF FollowOK
      <3> QED
        BY <3>3, <3>4
    <2> QED
      BY <1>1, <2>3, <2>4, <2>5, Moved
  <1> QED
    BY <1>7, <1>8 DEF FollowInv

LEMMA FollowSubscriber ==
  ASSUME StepInv, StepInv', FollowInv, NEW s \in Subscribers,
         \/ ConstructSubscriber(s) \/ RemoveInterest(s)
         \/ DropSubscriptions(s) \/ Disarm(s)
  PROVE  FollowInv'
  <1>1. /\ UNCHANGED <<token, publishers, guards>> /\ pc'[s] # "live"
        /\ \A o \in Owners : o # s => pc'[o] = pc[o] /\ refreshing'[o] = refreshing[o]
        /\ \A t \in Subscribers : t # s => subscription'[t] = subscription[t]
    BY DEF ConstructSubscriber, RemoveInterest, DropSubscriptions, Disarm, Goto, registry,
           StepInv, TypeOK, Owners
  <1>2. refreshing'[s].sub \in {Nobody, s} /\ s \notin Publishers /\ Nobody \notin Subscribers
    BY AdaptedAssumption DEF StepInv, RefreshOK, Owners
  <1>3. \A stream : FrontTopic(stream)' = FrontTopic(stream)
    BY <1>1, FrontStays
  <1>4. ASSUME NEW t \in Subscribers, t # s PROVE FollowOK(t)'
    <2>1. \A q \in Publishers : pc'[q] = pc[q] /\ refreshing'[q] = refreshing[q]
      BY <1>1, <1>2 DEF Owners
    <2>2. ASSUME NEW q \in Publishers, Moves(q), Untold(q, t) PROVE (Moves(q) /\ Untold(q, t))'
      BY <1>1, <1>3, <2>1, <2>2 DEF Moves, Untold, WillSettle
    <2>3. FollowOK(t) /\ refreshing'[s].sub # t /\ pc'[t] = pc[t]
      BY <1>1, <1>2, <1>4 DEF FollowInv, Owners
    <2> QED
      BY <1>1, <1>3, <1>4, <2>2, <2>3, FollowKept DEF Owners
  <1> QED
    BY <1>1, <1>4 DEF FollowInv, FollowOK

LEMMA FollowInductive == ASSUME ~SubscribersOverlap PROVE Spec => []FollowInv
  <1>1. Init => FollowInv
    BY DEF Init, FollowInv, FollowOK, Owners
  <1>2. StepInv /\ StepInv' /\ PathInv /\ FollowInv /\ [Next]_vars => FollowInv'
    <2> SUFFICES ASSUME StepInv, StepInv', PathInv, FollowInv, [Next]_vars PROVE FollowInv'
      OBVIOUS
    <2>1. ASSUME NEW p \in Publishers,
                 ConstructPublisher(p) \/ Unregister(p) \/ PublisherStep(p)
          PROVE  FollowInv'
      BY <2>1, FollowBetween, FollowTrigger DEF PublisherStep
    <2>2. ASSUME NEW s \in Subscribers,
                 ConstructSubscriber(s) \/ RemoveInterest(s) \/ ShutdownStep(s)
          PROVE  FollowInv'
      BY <2>2, FollowSubscriber DEF ShutdownStep
    <2>3. ASSUME NEW o \in Owners, Refresh(o) PROVE FollowInv'
      BY <2>3, FollowMoves
    <2>4. CASE UNCHANGED vars
      <3>1. UNCHANGED <<pc, token, publishers, guards, refreshing, subscription>>
        BY <2>4 DEF vars
      <3>2. \A stream : FrontTopic(stream)' = FrontTopic(stream)
        BY <3>1, FrontStays
      <3>3. \A s \in Subscribers : Settled(s) => Settled(s)'
        BY <3>1, <3>2 DEF Settled, OnFront
      <3>4. \A q \in Publishers : Moves(q) => Moves(q)'
        BY <3>1, <3>2 DEF Moves
      <3>5. \A q \in Publishers, s \in Subscribers : Untold(q, s) => Untold(q, s)'
        BY <3>1, <3>2 DEF Untold, WillSettle
      <3> QED
        BY <3>1, <3>3, <3>4, <3>5 DEF FollowInv, FollowOK
    <2> QED
      BY <2>1, <2>2, <2>3, <2>4 DEF Next
  <1> QED
    BY <1>1, <1>2, StepInductive, PathInductive, PTL DEF Spec

\* A subscriber that is not on the front topic has still to be refreshed by somebody
\* who changed the registry: no notification is lost, whatever publishers come and
\* go in whatever threads, as long as no subscriber does at the same time.
THEOREM MismatchesArePending == ASSUME ~SubscribersOverlap PROVE Spec => []MismatchIsPending
  <1>1. FollowInv => MismatchIsPending
    BY DEF FollowInv, FollowOK, Settled, Untold, MismatchIsPending
  <1> QED
    BY <1>1, FollowInductive, PTL

\* Between constructors and destructors every subscriber follows the registry.
THEOREM SettledFollows == ASSUME ~SubscribersOverlap PROVE Spec => []SettledFollowsRegistry
  <1>1. StepInv /\ FollowInv => SettledFollowsRegistry
    <2> SUFFICES ASSUME StepInv, FollowInv, PublishersAtRest, NEW s \in Subscribers,
                        pc[s] = "live"
                 PROVE  OnFront(s)
      BY DEF SettledFollowsRegistry
    <2>1. \A q \in Publishers : pc[q] \in {"absent", "up"} /\ guards[q] = {}
      BY DEF PublishersAtRest, PublisherRest, StepInv, PublisherOK
    <2>2. \A q \in Publishers : refreshing[q].sub = Nobody
      BY <2>1 DEF StepInv, RefreshOK, Refreshing, Owners
    <2>3. \A q \in Publishers : ~Untold(q, s)
      BY <2>1, <2>2, AdaptedAssumption DEF Untold, WillSettle, Owners
    <2> QED
      BY <2>3 DEF FollowInv, FollowOK, Settled
  <1> QED
    BY <1>1, StepInductive, FollowInductive, PTL

--------------------------------------------------------------------------------
(* Who may be on the public transport                                       *)

\* A subscriber without an interest has no subscription and no refresh, while
\* publishers come and go.
LEMMA NotInterested ==
  ASSUME StepInv, PathInv, SubscribersAtRest, NEW s \in Subscribers, interest[s] = 0
  PROVE  /\ ~subscription[s].public /\ pc[s] \in {"absent", "down"}
         /\ \A o \in Owners : refreshing[o].sub # s
  <1>1. pc[s] \in {"absent", "down"}
    BY DEF StepInv, SubscriberOK, SubscribersAtRest, SubscriberRest
  <1>2. ~NoPath.public
    BY DEF NoPath
  <1>3. ~subscription[s].public
    BY <1>1, <1>2 DEF PathInv, PathOK
  <1>4. ASSUME NEW o \in Owners, refreshing[o].sub = s PROVE FALSE
    <2>1. pc[o] \in Refreshing
      BY <1>4, AdaptedAssumption DEF StepInv, RefreshOK, Owners
    <2> QED
      BY <1>1, <1>4, <2>1 DEF PathInv, MoveOK, Refreshing
  <1> QED
    BY <1>1, <1>3, <1>4

LEMMA ToldBetween ==
  ASSUME StepInv, PathInv, ToldInv, NEW x \in Publishers,
         \/ ConstructPublisher(x) \/ Register(x) \/ Unregister(x)
         \/ CollectGuards(x) \/ TriggersDone(x)
  PROVE  ToldInv'
  <1>1. /\ \A o \in Owners : o # x => pc'[o] = pc[o]
        /\ UNCHANGED <<refreshing, subscription>>
        /\ \A q \in Publishers : q # x => guards'[q] = guards[q]
        /\ \A q \in Publishers : q # x => (q \in publishers' <=> q \in publishers)
    BY DEF ConstructPublisher, Register, Unregister, CollectGuards, TriggersDone, Goto,
           registry, StepInv, TypeOK
  <1>2. refreshing[x].sub = Nobody /\ Nobody \notin Subscribers
    BY AdaptedAssumption
    DEF ConstructPublisher, Register, Unregister, CollectGuards, TriggersDone, Refreshing,
        StepInv, RefreshOK, Owners
  <1> SUFFICES ASSUME NEW p \in Publishers, NEW s \in Subscribers, Told(p, s)' PROVE ToldOK(p, s)'
    BY DEF ToldInv, ToldOK
  <1>3. ASSUME Told(p, s) PROVE ToldOK(p, s)'
    <2>1. \A o \in Owners : refreshing'[o].sub = s => pc'[o] = pc[o]
      BY <1>1, <1>2
    <2> QED
      BY <1>1, <1>3, <2>1 DEF ToldInv, ToldOK
  <1>4. CASE p # x
    BY <1>1, <1>3, <1>4 DEF Told, Owners
  <1>5. CASE p = x /\ (ConstructPublisher(x) \/ Register(x) \/ Unregister(x))
    <2>1. p \notin publishers' \/ pc'[p] = "collect"
      BY <1>5 DEF ConstructPublisher, Register, Unregister, Goto, StepInv, PublisherOK, Owners
    <2> QED
      BY <2>1 DEF Told
  <1>6. CASE p = x /\ TriggersDone(x)
    <2>1. Told(p, s)
      BY <1>6 DEF TriggersDone, Told
    <2> QED
      BY <1>3, <2>1
  <1>7. CASE p = x /\ CollectGuards(x)
    <2>1. pc[p] = "collect" /\ guards'[p] = Matching(p)
      BY <1>7 DEF CollectGuards, StepInv, TypeOK
    <2>2. SubscribersAtRest
      BY <2>1 DEF PathInv, Apart, PublishersAtRest, PublisherRest
    <2>3. interest[s] = 0
      <3>1. GuardOf(s).sub = s
        BY DEF GuardOf
      <3> QED
        BY <2>1, <3>1 DEF Told, Matching, Interested
    <2> QED
      BY <1>1, <2>2, <2>3, NotInterested DEF ToldOK
  <1> QED
    BY <1>4, <1>5, <1>6, <1>7

LEMMA ToldTrigger ==
  ASSUME StepInv, PathInv, ToldInv, NEW x \in Publishers, Trigger(x) PROVE ToldInv'
  <1>1. PICK g \in guards[x] :
          /\ GuardFree(g.sub)
          /\ guards' = [guards EXCEPT ![x] = @ \ {g}]
          /\ \/ /\ armed[g.sub]
                /\ refreshing' = [refreshing EXCEPT ![x] = [sub |-> g.sub, found |-> 0]]
                /\ pc' = [pc EXCEPT ![x] = "find"]
             \/ ~armed[g.sub] /\ UNCHANGED <<guardOwner, refreshing, pc>>
    BY DEF Trigger, FirstOf, Goto
  <1>2. UNCHANGED <<publishers, subscription>> /\ pc[x] = "trigger"
    BY DEF Trigger, registry
  <1>3. PICK t \in Subscribers : t = g.sub
    BY <1>1 DEF StepInv, TypeOK
  <1>4. SubscribersAtRest
    BY <1>2 DEF PathInv, Apart, PublishersAtRest, PublisherRest
  <1>5. /\ refreshing[x].sub = Nobody /\ Nobody \notin Subscribers
        /\ \A q \in Publishers : guards'[q] = IF q = x THEN guards[x] \ {g} ELSE guards[q]
        /\ \A o \in Owners : o # x => pc'[o] = pc[o] /\ refreshing'[o] = refreshing[o]
        /\ pc'[x] \in {"trigger", "find"}
    <2>1. refreshing[x].sub = Nobody /\ Nobody \notin Subscribers
      BY <1>2, AdaptedAssumption DEF StepInv, RefreshOK, Refreshing, Owners
    <2>2. \A q \in Publishers : guards'[q] = IF q = x THEN guards[x] \ {g} ELSE guards[q]
      BY <1>1 DEF StepInv, TypeOK
    <2>3. /\ \A o \in Owners : o # x => pc'[o] = pc[o] /\ refreshing'[o] = refreshing[o]
          /\ pc'[x] \in {"trigger", "find"}
      BY <1>1, <1>2 DEF StepInv, TypeOK, Owners
    <2> QED
      BY <2>1, <2>2, <2>3
  <1>6. refreshing'[x].sub = (IF armed[t] THEN t ELSE Nobody)
    BY <1>1, <1>3, <1>5 DEF StepInv, TypeOK, Owners
  <1> SUFFICES ASSUME NEW p \in Publishers, NEW s \in Subscribers, Told(p, s)' PROVE ToldOK(p, s)'
    BY DEF ToldInv, ToldOK
  <1>7. \A o \in Owners : refreshing'[o].sub = s /\ pc'[o] \in Decided =>
          refreshing'[o] = refreshing[o] /\ pc[o] \in Decided
    BY <1>5 DEF Decided
  <1>8. CASE p # x \/ s # t
    <2>1. Told(p, s)
      BY <1>2, <1>3, <1>5, <1>8 DEF Told, Owners
    <2>2. refreshing'[p].sub # s => refreshing[p].sub # s
      BY <1>5 DEF Owners
    <2> QED
      BY <1>2, <1>7, <2>1, <2>2 DEF ToldInv, ToldOK
  <1>9. CASE p = x /\ s = t /\ armed[t]
    <2>1. \A o \in Owners : refreshing[o].sub # s
      <3>1. \A q \in Publishers : refreshing[q].sub # s
        BY <1>1, <1>3, <1>9, AdaptedAssumption DEF GuardFree, StepInv, Owners
      <3>2. \A r \in Subscribers : refreshing[r].sub = Nobody
        BY <1>4 DEF SubscribersAtRest, SubscriberRest, StepInv, RefreshOK, Refreshing, Owners
      <3> QED
        BY <1>5, <3>1, <3>2 DEF Owners
    <2> QED
      BY <1>6, <1>7, <1>9, <2>1 DEF ToldOK
  <1>10. CASE p = x /\ s = t /\ ~armed[t]
    <2>1. interest[s] = 0
      BY <1>10 DEF StepInv, SubscriberOK, Refreshing
    <2> QED
      BY <1>2, <1>4, <1>7, <2>1, NotInterested DEF ToldOK
  <1> QED
    BY <1>8, <1>9, <1>10

LEMMA ToldMoves ==
  ASSUME StepInv, PathInv, ToldInv, NEW o \in Owners, Refresh(o) PROVE ToldInv'
  <1>1. PICK s \in Subscribers : s = refreshing[o].sub
    BY RefreshFrame
  <1>2. /\ pc[o] \in Refreshing
        /\ UNCHANGED <<publishers, guards>>
        /\ \A r \in Owners : r # o => pc'[r] = pc[r] /\ refreshing'[r] = refreshing[r]
        /\ \A t \in Subscribers : t # s => subscription'[t] = subscription[t]
    BY <1>1, RefreshFrame DEF registry
  <1>3. \A r \in Owners : refreshing[r].sub = s => r = o
    BY <1>1, <1>2, AtRefresh
  <1>4. refreshing'[o].sub \in {s, Nobody} /\ Nobody \notin Subscribers
    <2>1. CASE refreshing'[o] = [sub |-> s, found |-> FrontTopic(StreamOf[s])]
      BY <2>1, AdaptedAssumption DEF Owners
    <2>2. CASE refreshing' = refreshing \/ Release(o)
      BY <1>1, <2>2, Released, AdaptedAssumption DEF Owners
    <2> QED
      BY <1>1, <2>1, <2>2, Moved
  <1> SUFFICES ASSUME NEW p \in Publishers, NEW t \in Subscribers, Told(p, t)' PROVE ToldOK(p, t)'
    BY DEF ToldInv, ToldOK
  <1>5. Told(p, t) /\ ToldOK(p, t)
    BY <1>2 DEF Told, ToldInv, Refreshing, Owners
  <1>6. CASE t # s
    <2>1. \A r \in Owners : refreshing'[r].sub = t =>
            refreshing'[r] = refreshing[r] /\ pc'[r] = pc[r]
      BY <1>2, <1>4, <1>6
    <2>2. refreshing'[p].sub # t => refreshing[p].sub # t
      BY <1>1, <1>2, <1>6 DEF Owners
    <2> QED
      BY <1>2, <1>5, <1>6, <2>1, <2>2 DEF ToldOK
  <1>7. CASE t = s
    <2>1. \A r \in Owners : refreshing'[r].sub = s => r = o
      BY <1>2, <1>3
    <2>2. pc[o] \in Decided => refreshing[o].found # 0
      BY <1>1, <1>5, <1>7 DEF ToldOK
    <2>3. CASE /\ subscription' = subscription
               /\ refreshing'[o] = [sub |-> s, found |-> FrontTopic(StreamOf[s])]
      <3>1. FrontTopic(StreamOf[s]) # 0
        BY <1>5, <1>7, FrontOK DEF Told
      <3>2. refreshing'[p].sub # s => refreshing[p].sub # s
        BY <1>2, <2>3 DEF Owners
      <3> QED
        BY <1>5, <1>7, <2>1, <2>3, <3>1, <3>2 DEF ToldOK
    <2>4. CASE SubscribeLocal(o) /\ refreshing' = refreshing
               /\ subscription'[s] = [subscription[s] EXCEPT !.local = refreshing[o].found]
      <3>1. subscription'[s].public = subscription[s].public
        BY <2>4 DEF StepInv, TypeOK, Paths
      <3>2. pc[o] \in Decided
        BY <2>4 DEF SubscribeLocal, Decided
      <3> QED
        BY <1>5, <1>7, <2>1, <2>2, <2>4, <3>1, <3>2 DEF ToldOK
    <2>5. CASE DropLocal(o) /\ refreshing[o].found = 0
      BY <2>2, <2>5 DEF DropLocal, Decided
    <2>6. CASE Release(o) /\ subscription'[s] = PathOf(refreshing[o].found) /\ pc[o] \in Decided
      <3>1. ~subscription'[s].public
        BY <2>2, <2>6, PathFields
      <3>2. refreshing'[o].sub # s
        BY <1>4, <2>6, Released
      <3> QED
        BY <1>7, <2>1, <3>1, <3>2 DEF ToldOK
    <2> QED
      BY <1>1, <2>3, <2>4, <2>5, <2>6, Moved
  <1> QED
    BY <1>6, <1>7

LEMMA ToldSubscriber ==
  ASSUME StepInv, PathInv, PathInv', ToldInv, ~SubscribersOverlap, NEW s \in Subscribers,
         \/ ConstructSubscriber(s) \/ RemoveInterest(s)
         \/ DropSubscriptions(s) \/ Disarm(s)
  PROVE  ToldInv'
  <1>1. /\ UNCHANGED <<publishers, guards>> /\ s \notin Publishers /\ Nobody \notin Subscribers
        /\ \A o \in Owners : o # s => pc'[o] = pc[o] /\ refreshing'[o] = refreshing[o]
        /\ \A t \in Subscribers : t # s => subscription'[t] = subscription[t]
    BY AdaptedAssumption
    DEF ConstructSubscriber, RemoveInterest, DropSubscriptions, Disarm, Goto, registry,
        StepInv, TypeOK, Owners
  <1>2. pc'[s] \notin Decided /\ refreshing'[s].sub \in {Nobody, s}
    <2>1. refreshing[s].sub \in {Nobody, s}
      BY DEF StepInv, RefreshOK, Owners
    <2> QED
      BY <2>1 DEF ConstructSubscriber, RemoveInterest, DropSubscriptions, Disarm, Goto,
                  StepInv, TypeOK, Decided, Owners
  <1>3. PublishersAtRest
    BY DEF ConstructSubscriber, RemoveInterest, DropSubscriptions, Disarm,
           PathInv, Apart, SubscribersAtRest, SubscriberRest
  <1>4. \A q \in Publishers : refreshing[q].sub = Nobody
    BY <1>3 DEF PublishersAtRest, PublisherRest, StepInv, RefreshOK, Refreshing, Owners
  <1> SUFFICES ASSUME NEW p \in Publishers, NEW t \in Subscribers, Told(p, t)' PROVE ToldOK(p, t)'
    BY DEF ToldInv, ToldOK
  <1>5. Told(p, t) /\ ToldOK(p, t) /\ refreshing[p].sub # t
    BY <1>1, <1>4 DEF Told, ToldInv, Owners
  <1>6. \A o \in Owners : refreshing'[o].sub = t /\ pc'[o] \in Decided => refreshing'[o].found # 0
    BY <1>1, <1>2, <1>5 DEF ToldOK
  <1>7. ~subscription'[t].public
    <2>1. CASE t # s \/ subscription' = subscription
      BY <1>1, <1>5, <2>1 DEF ToldOK
    <2>2. CASE t = s /\ DropSubscriptions(s)
      <3>1. pc'[s] = "disarm"
        BY <2>2 DEF DropSubscriptions, Goto, StepInv, Owners
      <3> QED
        BY <2>2, <3>1 DEF PathInv, PathOK
    <2> QED
      BY <2>1, <2>2 DEF ConstructSubscriber, RemoveInterest, Disarm
  <1> QED
    BY <1>6, <1>7 DEF ToldOK

LEMMA ToldInductive == ASSUME ~SubscribersOverlap PROVE Spec => []ToldInv
  <1>1. Init => ToldInv
    BY DEF Init, ToldInv, ToldOK, Told
  <1>2. StepInv /\ PathInv /\ PathInv' /\ ToldInv /\ [Next]_vars => ToldInv'
    <2> SUFFICES ASSUME StepInv, PathInv, PathInv', ToldInv, [Next]_vars PROVE ToldInv'
      OBVIOUS
    <2>1. ASSUME NEW p \in Publishers,
                 ConstructPublisher(p) \/ Unregister(p) \/ PublisherStep(p)
          PROVE  ToldInv'
      BY <2>1, ToldBetween, ToldTrigger DEF PublisherStep
    <2>2. ASSUME NEW s \in Subscribers,
                 ConstructSubscriber(s) \/ RemoveInterest(s) \/ ShutdownStep(s)
          PROVE  ToldInv'
      BY <2>2, ToldSubscriber DEF ShutdownStep
    <2>3. ASSUME NEW o \in Owners, Refresh(o) PROVE ToldInv'
      BY <2>3, ToldMoves
    <2>4. CASE UNCHANGED vars
      BY <2>4 DEF vars, ToldInv, ToldOK, Told
    <2> QED
      BY <2>1, <2>2, <2>3, <2>4 DEF Next
  <1> QED
    BY <1>1, <1>2, StepInductive, PathInductive, PTL DEF Spec
================================================================================
