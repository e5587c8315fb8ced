-------------------------- MODULE AdaptedSubscription --------------------------
(***************************************************************************)
(* How an adapted subscriber chooses between the private topic of a        *)
(* publisher of its own process and the public transport: the Registry of  *)
(* a context, the guard conditions it triggers, and                        *)
(* Subscriber::refresh_subscription, which runs in whatever thread         *)
(* triggers.                                                               *)
(*                                                                         *)
(* Every publisher and every subscriber object is owned by a thread of its *)
(* own; an owner is named by its object.  A step of an owner is what it    *)
(* does under one lock, or one write to the subscription of a subscriber.  *)
(***************************************************************************)
EXTENDS Integers, FiniteSets

CONSTANTS
  Publishers, Subscribers,
  Streams,            \* pairs of base topic and adapter type
  StreamOf,           \* the stream of each publisher and subscriber
  SubscribersOverlap, \* a subscriber may be constructed or shut down while
                      \* publishers of the process come and go
  MaxToken            \* bound: publishers ever constructed

Owners == Publishers \cup Subscribers
Nobody == "Nobody"

ASSUME AdaptedAssumption ==
  /\ IsFiniteSet(Publishers) /\ IsFiniteSet(Subscribers)
  /\ Publishers \cap Subscribers = {} /\ Nobody \notin Owners
  /\ StreamOf \in [Owners -> Streams]
  /\ SubscribersOverlap \in BOOLEAN
  /\ MaxToken \in Nat

VARIABLES
  pc,            \* what each owner does next
  nextToken,     \* Registry::next_token_
  token,         \* Publisher::token_, also the number in its private topic
  publishers,    \* Registry::publishers_
  nextInterest,  \* Registry::next_interest_
  interest,      \* Subscriber::interest_id_, 0 if not in Registry::interests_
  guards,        \* what a publisher has still to trigger: subscribers whose guard
                 \* conditions it collected, with the ids of their interests
  refreshing,    \* the subscriber an owner is refreshing, and the topic it found
  guardOwner,    \* who holds the mutex of a subscriber's guard condition
  armed,         \* the on-trigger callback of a guard condition is set
  subscription   \* the subscriptions and the flags of each Subscriber

vars == <<pc, nextToken, token, publishers, nextInterest, interest, guards,
          refreshing, guardOwner, armed, subscription>>
registry == <<nextToken, token, publishers, nextInterest, interest>>

Tokens == 0..MaxToken

\* The state refresh_subscription leaves behind when it found topic t.
PathOf(t) == [local |-> t, public |-> t = 0, usingLocal |-> t # 0, current |-> t]
NoPath == [local |-> 0, public |-> FALSE, usingLocal |-> FALSE, current |-> 0]

PublisherRest == {"absent", "up"}
SubscriberRest == {"absent", "live", "down"}

PublishersAtRest == \A p \in Publishers : pc[p] \in PublisherRest
SubscribersAtRest == \A s \in Subscribers : pc[s] \in SubscriberRest

\* find_publishers().front(): the map is ordered by token.
FrontOf(found) ==
  IF found = {} THEN 0 ELSE CHOOSE t \in found : \A u \in found : t <= u

FrontTopic(stream) ==
  FrontOf({token[p] : p \in {q \in publishers : StreamOf[q] = stream}})

Goto(o, label) == pc' = [pc EXCEPT ![o] = label]

--------------------------------------------------------------------------------
Init ==
  /\ pc = [o \in Owners |-> "absent"]
  /\ nextToken = 1 /\ nextInterest = 1
  /\ token = [p \in Publishers |-> 0]
  /\ publishers = {}
  /\ interest = [s \in Subscribers |-> 0]
  /\ guards = [p \in Publishers |-> {}]
  /\ refreshing = [o \in Owners |-> [sub |-> Nobody, found |-> 0]]
  /\ guardOwner = [s \in Subscribers |-> Nobody]
  /\ armed = [s \in Subscribers |-> FALSE]
  /\ subscription = [s \in Subscribers |-> NoPath]

RegisteredPlusOne == Cardinality(publishers) + 1
FollowingToken == nextToken + 1

\* The constructor up to register_publisher: the token and the private publisher.
ConstructPublisher(p) ==
  /\ pc[p] = "absent" /\ nextToken <= MaxToken
  /\ SubscribersOverlap \/ SubscribersAtRest
  /\ token' = [token EXCEPT ![p] = nextToken]
  /\ nextToken' = FollowingToken
  /\ Goto(p, "register")
  /\ UNCHANGED <<publishers, nextInterest, interest, guards, refreshing,
                 guardOwner, armed, subscription>>

Register(p) ==
  /\ pc[p] = "register"
  /\ publishers' = publishers \cup {p}
  /\ Goto(p, "collect")
  /\ UNCHANGED <<nextToken, token, nextInterest, interest, guards, refreshing,
                 guardOwner, armed, subscription>>

\* Publisher::shutdown up to the erasure; the private publisher goes last.
Unregister(p) ==
  /\ pc[p] = "up"
  /\ SubscribersOverlap \/ SubscribersAtRest
  /\ publishers' = publishers \ {p}
  /\ Goto(p, "collect")
  /\ UNCHANGED <<nextToken, token, nextInterest, interest, guards, refreshing,
                 guardOwner, armed, subscription>>

\* trigger_matching: Registry::interests_ is ordered by id.
Interested(p) == {s \in Subscribers : interest[s] # 0 /\ StreamOf[s] = StreamOf[p]}

GuardOf(s) == [id |-> interest[s], sub |-> s]
FirstOf(gs) == {g \in gs : \A h \in gs : g.id <= h.id}

OldestInterest(p) == FirstOf({GuardOf(s) : s \in Interested(p)})
Matching(p) == {GuardOf(s) : s \in Interested(p)}

CollectGuards(p) ==
  /\ pc[p] = "collect"
  /\ guards' = [guards EXCEPT ![p] = Matching(p)]
  /\ Goto(p, "trigger")
  /\ UNCHANGED <<registry, refreshing, guardOwner, armed, subscription>>

\* GuardCondition::trigger calls the callback under the guard's own mutex and in
\* the triggering thread.  Without a callback it only marks the guard.
GuardFree(s) == guardOwner[s] = Nobody

Trigger(p) ==
  /\ pc[p] = "trigger"
  /\ \E g \in FirstOf(guards[p]) :
       /\ GuardFree(g.sub)
       /\ guards' = [guards EXCEPT ![p] = @ \ {g}]
       /\ \/ /\ armed[g.sub]
             /\ guardOwner' = [guardOwner EXCEPT ![g.sub] = p]
             /\ refreshing' = [refreshing EXCEPT ![p] = [sub |-> g.sub, found |-> 0]]
             /\ Goto(p, "find")
          \/ /\ ~armed[g.sub]
             /\ UNCHANGED <<guardOwner, refreshing, pc>>
  /\ UNCHANGED <<registry, armed, subscription>>

TriggersDone(p) ==
  /\ pc[p] = "trigger" /\ guards[p] = {}
  /\ token' = [token EXCEPT ![p] = IF p \in publishers THEN @ ELSE 0]
  /\ Goto(p, IF p \in publishers THEN "up" ELSE "absent")
  /\ UNCHANGED <<nextToken, publishers, nextInterest, interest, guards,
                 refreshing, guardOwner, armed, subscription>>

--------------------------------------------------------------------------------
\* refresh_subscription, called by the constructor of the subscriber, which holds
\* no lock, or by a publisher that holds the mutex of the guard condition.
Release(o) ==
  LET s == refreshing[o].sub IN
  /\ guardOwner' = [guardOwner EXCEPT ![s] = IF @ = o THEN Nobody ELSE @]
  /\ refreshing' = [refreshing EXCEPT ![o] = [sub |-> Nobody, found |-> 0]]
  /\ Goto(o, IF o \in Publishers THEN "trigger" ELSE "live")

FindPublishers(o) ==
  /\ pc[o] = "find"
  /\ refreshing' = [refreshing EXCEPT ![o].found = FrontTopic(StreamOf[refreshing[o].sub])]
  /\ Goto(o, "switch")
  /\ UNCHANGED <<registry, guards, guardOwner, armed, subscription>>

AlreadyLocal(s, t) == subscription[s].usingLocal
AlreadyOn(s, t) == subscription[s].usingLocal /\ subscription[s].current = t

KeepLocal(o) ==
  LET s == refreshing[o].sub
      t == refreshing[o].found IN
  /\ pc[o] = "switch" /\ t # 0
  /\ AlreadyOn(s, t)
  /\ Release(o)
  /\ UNCHANGED <<registry, guards, armed, subscription>>

\* create_local_subscription replaces the subscription of another topic.
SubscribeLocal(o) ==
  LET s == refreshing[o].sub
      t == refreshing[o].found IN
  /\ pc[o] = "switch" /\ t # 0
  /\ ~AlreadyOn(s, t)
  /\ subscription' = [subscription EXCEPT ![s].local = t]
  /\ Goto(o, "adopt")
  /\ UNCHANGED <<registry, guards, refreshing, guardOwner, armed>>

BesidePublic(path, t) == [path EXCEPT !.usingLocal = TRUE, !.current = t]
Adopted(path, t) == [path EXCEPT !.public = FALSE, !.usingLocal = TRUE, !.current = t]

AdoptLocal(o) ==
  LET s == refreshing[o].sub
      t == refreshing[o].found IN
  /\ pc[o] = "adopt"
  /\ subscription' = [subscription EXCEPT ![s] = Adopted(@, t)]
  /\ Release(o)
  /\ UNCHANGED <<registry, guards, armed>>

DropLocal(o) ==
  LET s == refreshing[o].sub IN
  /\ pc[o] = "switch" /\ refreshing[o].found = 0
  /\ subscription' = [subscription EXCEPT ![s].local = 0, ![s].current = 0]
  /\ Goto(o, "fall_back")
  /\ UNCHANGED <<registry, guards, refreshing, guardOwner, armed>>

FallBack(o) ==
  LET s == refreshing[o].sub IN
  /\ pc[o] = "fall_back"
  /\ subscription' = [subscription EXCEPT ![s].public = TRUE,
                                          ![s].usingLocal = FALSE]
  /\ Release(o)
  /\ UNCHANGED <<registry, guards, armed>>

--------------------------------------------------------------------------------
\* The constructor: the callback is set before the interest is added, so nobody
\* triggers in between.
ConstructSubscriber(s) ==
  /\ pc[s] = "absent"
  /\ SubscribersOverlap \/ PublishersAtRest
  /\ armed' = [armed EXCEPT ![s] = TRUE]
  /\ interest' = [interest EXCEPT ![s] = nextInterest]
  /\ nextInterest' = nextInterest + 1
  /\ refreshing' = [refreshing EXCEPT ![s] = [sub |-> s, found |-> 0]]
  /\ Goto(s, "find")
  /\ UNCHANGED <<nextToken, token, publishers, guards, guardOwner, subscription>>

RemoveInterest(s) ==
  /\ pc[s] = "live"
  /\ SubscribersOverlap \/ PublishersAtRest
  /\ interest' = [interest EXCEPT ![s] = 0]
  /\ Goto(s, "drop")
  /\ UNCHANGED <<nextToken, token, publishers, nextInterest, guards, refreshing,
                 guardOwner, armed, subscription>>

Dropped(path) == [path EXCEPT !.local = 0, !.public = FALSE]

DropSubscriptions(s) ==
  /\ pc[s] = "drop"
  /\ subscription' = [subscription EXCEPT ![s] = Dropped(@)]
  /\ Goto(s, "disarm")
  /\ UNCHANGED <<registry, guards, refreshing, guardOwner, armed>>

\* set_on_trigger_callback(nullptr) takes the mutex of the guard condition.
Disarm(s) ==
  /\ pc[s] = "disarm"
  /\ GuardFree(s)
  /\ armed' = [armed EXCEPT ![s] = FALSE]
  /\ Goto(s, "down")
  /\ UNCHANGED <<registry, guards, refreshing, guardOwner, subscription>>

--------------------------------------------------------------------------------
Refresh(o) ==
  \/ FindPublishers(o) \/ KeepLocal(o) \/ SubscribeLocal(o)
  \/ AdoptLocal(o) \/ DropLocal(o) \/ FallBack(o)

PublisherStep(p) ==
  \/ Register(p) \/ CollectGuards(p) \/ Trigger(p) \/ TriggersDone(p)

ShutdownStep(s) == DropSubscriptions(s) \/ Disarm(s)

Next ==
  \/ \E p \in Publishers : ConstructPublisher(p) \/ Unregister(p) \/ PublisherStep(p)
  \/ \E s \in Subscribers : ConstructSubscriber(s) \/ RemoveInterest(s) \/ ShutdownStep(s)
  \/ \E o \in Owners : Refresh(o)

Spec == Init /\ [][Next]_vars

\* A thread that is inside a constructor or a shutdown goes on.
Fairness ==
  /\ \A o \in Owners : WF_vars(Refresh(o))
  /\ \A p \in Publishers : WF_vars(PublisherStep(p))
  /\ \A s \in Subscribers : WF_vars(ShutdownStep(s))

FairSpec == Spec /\ Fairness

--------------------------------------------------------------------------------
Paths == [local : Tokens, public : BOOLEAN, usingLocal : BOOLEAN, current : Tokens]

\* Every variable has its type, and no two publishers have one token, which is
\* their key in the registry and the name of their private topic.
TypeOK ==
  /\ \A p \in Publishers : pc[p] \in PublisherRest \cup
       {"register", "collect", "trigger", "find", "switch", "adopt", "fall_back"}
  /\ \A s \in Subscribers : pc[s] \in SubscriberRest \cup
       {"find", "switch", "adopt", "fall_back", "drop", "disarm"}
  /\ nextToken \in 1..(MaxToken + 1) /\ nextInterest \in Nat
  /\ token \in [Publishers -> Tokens]
  /\ \A p, q \in Publishers : token[p] = token[q] => p = q \/ token[p] = 0
  /\ publishers \subseteq Publishers
  /\ interest \in [Subscribers -> Nat]
  /\ guards \in [Publishers -> SUBSET [id : Nat, sub : Subscribers]]
  /\ refreshing \in [Owners -> [sub : Subscribers \cup {Nobody}, found : Tokens]]
  /\ guardOwner \in [Subscribers -> Publishers \cup {Nobody}]
  /\ armed \in [Subscribers -> BOOLEAN]
  /\ subscription \in [Subscribers -> Paths]

OnFront(s) == subscription[s] = PathOf(FrontTopic(StreamOf[s]))

\* The refresh of s by o has not read the registry yet, or has read it as it is.
WillSettle(o, s) ==
  /\ refreshing[o].sub = s
  /\ pc[o] = "find" \/ refreshing[o].found = FrontTopic(StreamOf[s])

\* A subscriber is on the private topic of the oldest registered publisher of its
\* stream, or on the public transport if there is none; when it is not, somebody
\* who changed the registry has still to refresh it.  Publishers of several
\* threads come and go at once, and a refresh may use what it read before the
\* last change.
MismatchIsPending ==
  \A s \in Subscribers : pc[s] = "live" /\ ~OnFront(s) =>
    \E p \in Publishers :
      \/ StreamOf[p] = StreamOf[s] /\ pc[p] = "collect"
      \/ \E g \in guards[p] : g.sub = s
      \/ WillSettle(p, s)

\* Once every constructor, destructor and refresh has ended, every subscriber is
\* on a live private topic if its stream has one and on the public transport
\* otherwise.
SettledFollowsRegistry ==
  PublishersAtRest /\ SubscribersAtRest =>
    \A s \in Subscribers : pc[s] = "live" => OnFront(s)

\* A subscriber that returned from shutdown has no subscription: no callback of
\* the user is called any more.
ShutdownIsFinal ==
  \A s \in Subscribers : pc[s] = "down" =>
    subscription[s].local = 0 /\ ~subscription[s].public

\* A live subscriber that lost its publisher falls back, and one that can be
\* local becomes local, unless it is shut down: notifications are not lost and
\* the guard mutexes do not hold everyone up.
Settles ==
  \A s \in Subscribers :
    (pc[s] = "live" /\ ~OnFront(s)) ~> (pc[s] # "live" \/ OnFront(s))
================================================================================
