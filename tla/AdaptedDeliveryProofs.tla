-------------------------- MODULE AdaptedDeliveryProofs --------------------------
(***************************************************************************)
(* Theorems about the messages of adapted publishers while subscribers     *)
(* switch between the two paths, for any number of publishers, subscribers *)
(* and streams, and any bounds on constructions and messages.              *)
(***************************************************************************)
EXTENDS AdaptedDelivery, AdaptedSubscriptionProofs

--------------------------------------------------------------------------------
(* The inductive invariants                                                 *)

Steps == {"idle", "count_public", "send_public", "send_local"}
Messages == [from : Publishers, number : Nat]

DeliveryTypes ==
  /\ matched \subseteq Publishers \X Subscribers
  /\ dropped \subseteq Publishers \X Subscribers
  /\ next \in Nat
  /\ pending \in [Publishers -> Nat]
  /\ sending \in [Publishers -> [step : Steps, number : Nat, local : BOOLEAN, public : BOOLEAN]]
  /\ queue \in [Subscribers -> [Ways -> Seq(Messages)]]
  /\ heard \in [Subscribers -> [Publishers -> Nat]]
  /\ owed \in [Publishers -> [number : Nat, to : SUBSET Subscribers]]

Busy(p) == sending[p].step # "idle"

\* A publisher publishes while it is up only, and the public subscriptions that it
\* has discovered are there.
MatchInv ==
  /\ \A p \in Publishers, s \in Subscribers : <<p, s>> \in matched => subscription[s].public
  /\ \A p \in Publishers : Busy(p) => pc[p] = "up"

\* A token that a subscriber has read or uses belongs to its stream, or to nobody
\* any more.
TokenIsOf(t, stream) == \A p \in Publishers : t # 0 /\ token[p] = t => StreamOf[p] = stream

StreamInv ==
  \A s \in Subscribers :
    /\ TokenIsOf(subscription[s].local, StreamOf[s])
    /\ \A o \in Owners : refreshing[o].sub = s => TokenIsOf(refreshing[o].found, StreamOf[s])

\* The last message of p is the newest; it is pending, or p sends it or an older one.
NumbersOK(p) ==
  /\ owed[p].number < next
  /\ pending[p] # 0 => pending[p] = owed[p].number
  /\ Busy(p) => sending[p].number <= owed[p].number
  /\ Busy(p) /\ pending[p] # 0 => sending[p].number < pending[p]

\* What a subscriber was given by p, or is waiting in its queues, is older than n.
Before(given, queues, p, n) ==
  /\ given[p] < n
  /\ \A path \in Ways : \A i \in DOMAIN queues[path] :
       queues[path][i].from = p => queues[path][i].number < n

\* The message that p is sending has still to reach s, if it ever does: what is sent
\* to the public topic is for other streams, and the private topic comes last.
Ahead(p, s) ==
  \/ sending[p].step \in {"count_public", "send_public"}
  \/ sending[p].step = "send_local" /\ StreamOf[s] = StreamOf[p]

AgeOK(p, s) ==
  /\ Before(heard[s], queue[s], p, owed[p].number + 1)
  /\ pending[p] # 0 => Before(heard[s], queue[s], p, pending[p])
  /\ Ahead(p, s) => Before(heard[s], queue[s], p, sending[p].number)

\* Messages of a stream wait in the private subscriptions of that stream and in the
\* public ones of others, in the order of their publisher, and none that was heard.
Waiting(given, waiting, path, stream) ==
  /\ \A i \in DOMAIN waiting :
       /\ given[waiting[i].from] < waiting[i].number
       /\ path = "local" <=> StreamOf[waiting[i].from] = stream
  /\ \A i, j \in DOMAIN waiting :
       i < j /\ waiting[i].from = waiting[j].from => waiting[i].number < waiting[j].number

QueueOK(s, path) == Waiting(heard[s], queue[s][path], path, StreamOf[s])

OrderInv ==
  /\ \A p \in Publishers : NumbersOK(p)
  /\ \A p \in Publishers, s \in Subscribers : AgeOK(p, s)
  /\ \A s \in Subscribers, path \in Ways : QueueOK(s, path)

\* The last message of p has arrived at s, is pending, or is being sent on the path
\* that leads to s.
Arrived(p, s) ==
  \/ heard[s][p] = owed[p].number
  \/ \E path \in Ways : \E i \in DOMAIN queue[s][path] :
       queue[s][path][i] = [from |-> p, number |-> owed[p].number]

OnItsWay(p, s) ==
  /\ sending[p].number = owed[p].number
  /\ IF StreamOf[s] = StreamOf[p]
     THEN Busy(p) /\ sending[p].local
     ELSE \/ sending[p].step = "count_public"
          \/ sending[p].step = "send_public" /\ sending[p].public

OwedOK(p, s) ==
  s \in owed[p].to => Reachable(p, s) /\ (pending[p] # 0 \/ OnItsWay(p, s) \/ Arrived(p, s))

OwedInv == \A p \in Publishers, s \in Subscribers : OwedOK(p, s)

--------------------------------------------------------------------------------
(* Switching                                                                *)

\* Messages do not influence the choice of the path.
THEOREM DeliveryIsSwitching == DeliverySpec => Spec
  <1>1. DeliveryInit => Init
    BY DEF DeliveryInit
  <1>2. [DeliveryNext]_deliveryVars => [Next]_vars
    <2>1. DeliveryNext => Next \/ UNCHANGED vars
      BY DEF DeliveryNext, Switch, Match, Unmatch, Publish, Drain, CountPublic, SendPublic, SendLocal,
             HearLocal, HearPublic, Hear
    <2>2. UNCHANGED deliveryVars => UNCHANGED vars
      BY DEF deliveryVars
    <2> QED
      BY <2>1, <2>2
  <1> QED
    BY <1>1, <1>2, PTL DEF DeliverySpec, Spec

\* What is true of all tokens stays true when tokens are given back.
LEMMA TokensGoAway ==
  ASSUME StepInv, NEW t, NEW stream, TokenIsOf(t, stream),
         \A p \in Publishers : token'[p] \in {token[p], 0}
  PROVE  \A p \in Publishers : t # 0 /\ token'[p] = t => StreamOf[p] = stream
  BY DEF TokenIsOf

LEMMA StreamMoves ==
  ASSUME StepInv, PathInv, StreamInv, NEW o \in Owners, Refresh(o) PROVE StreamInv'
  <1>1. PICK s \in Subscribers : s = refreshing[o].sub
    BY RefreshFrame
  <1>2. /\ UNCHANGED token /\ Nobody \notin Subscribers
        /\ \A r \in Owners : r # o => refreshing'[r] = refreshing[r]
        /\ \A t \in Subscribers : t # s => subscription'[t] = subscription[t]
    BY <1>1, RefreshFrame, AdaptedAssumption DEF registry, Owners
  <1>3. TokenIsOf(0, StreamOf[s]) /\ TokenIsOf(refreshing[o].found, StreamOf[s])
        /\ TokenIsOf(subscription[s].local, StreamOf[s])
    BY <1>1 DEF StreamInv, TokenIsOf
  <1>4. TokenIsOf(FrontTopic(StreamOf[s]), StreamOf[s])
    BY FrontOK DEF StepInv, TypeOK, TokenIsOf
  <1>5. subscription[s] \in Paths
    BY DEF StepInv, TypeOK
  <1>6. \/ /\ refreshing'[o] = [sub |-> s, found |-> FrontTopic(StreamOf[s])]
           /\ subscription' = subscription
        \/ /\ refreshing' = refreshing
           /\ \/ subscription'[s] = [subscription[s] EXCEPT !.local = refreshing[o].found]
              \/ subscription'[s] = [subscription[s] EXCEPT !.local = 0, !.current = 0]
        \/ /\ refreshing'[o].sub = Nobody
           /\ subscription'[s] = PathOf(refreshing[o].found)
    BY <1>1, Moved, Released
  <1>7. TokenIsOf(subscription'[s].local, StreamOf[s])
    <2>1. subscription'[s].local \in {subscription[s].local, refreshing[o].found, 0}
      BY <1>5, <1>6, PathFields DEF Paths
    <2> QED
      BY <1>3, <2>1
  <1>8. /\ refreshing'[o].sub \in {s, Nobody}
        /\ refreshing'[o].sub = s => TokenIsOf(refreshing'[o].found, StreamOf[s])
    BY <1>1, <1>2, <1>3, <1>4, <1>6
  <1>9. ASSUME NEW t \in Subscribers PROVE TokenIsOf(subscription'[t].local, StreamOf[t])
    BY <1>2, <1>7 DEF StreamInv
  <1>10. ASSUME NEW t \in Subscribers, NEW r \in Owners, refreshing'[r].sub = t
         PROVE  TokenIsOf(refreshing'[r].found, StreamOf[t])
    BY <1>2, <1>8, <1>10 DEF StreamInv
  <1> QED
    BY <1>2, <1>9, <1>10 DEF StreamInv, TokenIsOf

LEMMA StreamOthers ==
  ASSUME StepInv, StreamInv,
         \/ \E p \in Publishers : ConstructPublisher(p) \/ Unregister(p) \/ PublisherStep(p)
         \/ \E s \in Subscribers : ConstructSubscriber(s) \/ RemoveInterest(s) \/ ShutdownStep(s)
  PROVE  StreamInv'
  <1>1. ASSUME NEW p \in Publishers, ConstructPublisher(p) PROVE StreamInv'
    <2>1. /\ token' = [token EXCEPT ![p] = nextToken]
          /\ UNCHANGED <<refreshing, subscription>>
      BY <1>1 DEF ConstructPublisher
    <2>2. /\ \A s \in Subscribers : subscription[s].local < nextToken
          /\ \A o \in Owners : refreshing[o].found < nextToken
          /\ token \in [Publishers -> Tokens]
          /\ nextToken \in Nat
      BY DEF StepInv, TypeOK, SubscriberOK, RefreshOK
    <2>3. \A s \in Subscribers : subscription[s].local # nextToken
      BY <2>2 DEF StepInv, TypeOK, Paths, Tokens
    <2>4. \A o \in Owners : refreshing[o].found # nextToken
      BY <2>2 DEF StepInv, TypeOK, Tokens
    <2> QED
      BY <2>1, <2>2, <2>3, <2>4 DEF StreamInv, TokenIsOf
  <1>2. ASSUME NEW p \in Publishers, Register(p) \/ Unregister(p) \/ CollectGuards(p)
        PROVE  StreamInv'
    BY <1>2 DEF Register, Unregister, CollectGuards, registry, StreamInv, TokenIsOf
  <1>3. ASSUME NEW p \in Publishers, Trigger(p) PROVE StreamInv'
    <2>1. UNCHANGED <<token, subscription>>
      BY <1>3 DEF Trigger, registry
    <2>2. \A o \in Owners : refreshing'[o] = refreshing[o] \/ refreshing'[o].found = 0
      BY <1>3 DEF Trigger, StepInv, TypeOK
    <2> QED
      BY <2>1, <2>2 DEF StreamInv, TokenIsOf
  <1>4. ASSUME NEW p \in Publishers, TriggersDone(p) PROVE StreamInv'
    <2>1. UNCHANGED <<refreshing, subscription>>
      BY <1>4 DEF TriggersDone
    <2>2. \A q \in Publishers : token'[q] \in {token[q], 0}
      BY <1>4 DEF TriggersDone, StepInv, TypeOK
    <2> QED
      BY <2>1, <2>2 DEF StreamInv, TokenIsOf
  <1>5. ASSUME NEW s \in Subscribers, ConstructSubscriber(s) PROVE StreamInv'
    <2>1. UNCHANGED <<token, subscription>>
      BY <1>5 DEF ConstructSubscriber
    <2>2. \A o \in Owners : refreshing'[o] = refreshing[o] \/ refreshing'[o].found = 0
      BY <1>5 DEF ConstructSubscriber, StepInv, TypeOK
    <2> QED
      BY <2>1, <2>2 DEF StreamInv, TokenIsOf
  <1>6. ASSUME NEW s \in Subscribers, RemoveInterest(s) \/ Disarm(s) PROVE StreamInv'
    BY <1>6 DEF RemoveInterest, Disarm, registry, StreamInv, TokenIsOf
  <1>7. ASSUME NEW s \in Subscribers, DropSubscriptions(s) PROVE StreamInv'
    <2>1. UNCHANGED <<token, refreshing>>
      BY <1>7 DEF DropSubscriptions, registry
    <2>2. PICK path : path = Dropped(subscription[s])
      OBVIOUS
    <2>3. path.local = 0
      BY <2>2 DEF Dropped, StepInv, TypeOK, Paths
    <2>4. subscription' = [subscription EXCEPT ![s] = path]
      BY <1>7, <2>2 DEF DropSubscriptions
    <2>5. \A t \in Subscribers : subscription'[t].local \in {subscription[t].local, 0}
      BY <2>3, <2>4 DEF StepInv, TypeOK
    <2> QED
      BY <2>1, <2>5 DEF StreamInv, TokenIsOf
  <1> QED
    BY <1>1, <1>2, <1>3, <1>4, <1>5, <1>6, <1>7 DEF PublisherStep, ShutdownStep

LEMMA StreamInductive == ASSUME ~SubscribersOverlap PROVE Spec => []StreamInv
  <1>1. Init => StreamInv
    <2> SUFFICES ASSUME Init PROVE StreamInv
      OBVIOUS
    <2>1. \A s \in Subscribers : subscription[s].local = 0
      BY DEF Init, NoPath
    <2>2. \A o \in Owners : refreshing[o].found = 0
      BY DEF Init
    <2> QED
      BY <2>1, <2>2 DEF StreamInv, TokenIsOf
  <1>2. StepInv /\ PathInv /\ StreamInv /\ [Next]_vars => StreamInv'
    <2> SUFFICES ASSUME StepInv, PathInv, StreamInv, [Next]_vars PROVE StreamInv'
      OBVIOUS
    <2>1. CASE UNCHANGED vars
      BY <2>1 DEF vars, StreamInv, TokenIsOf
    <2>2. CASE \E o \in Owners : Refresh(o)
      BY <2>2, StreamMoves
    <2> QED
      BY <2>1, <2>2, StreamOthers DEF Next
  <1> QED
    BY <1>1, <1>2, StepInductive, PathInductive, PTL DEF Spec

--------------------------------------------------------------------------------
(* What each step does                                                      *)

LEMMA SwitchDoes ==
  ASSUME DeliveryTypes, Switch
  PROVE  /\ DeliveryTypes'
         /\ UNCHANGED <<next, sending, heard>>
         /\ \A p \in Publishers : pending'[p] = IF pc'[p] = "up" THEN pending[p] ELSE 0
         /\ \A s \in Subscribers, path \in Ways :
              queue'[s][path] = IF Keeps(s, path) THEN queue[s][path] ELSE <<>>
         /\ \A p \in Publishers, s \in Subscribers :
              <<p, s>> \in matched' => <<p, s>> \in matched /\ subscription'[s].public
         /\ \A p \in Publishers, s \in Subscribers :
              <<p, s>> \in dropped' => <<p, s>> \in dropped \/ subscription[s].public
         /\ \A p \in Publishers : /\ owed'[p].number = owed[p].number
                                  /\ owed'[p].to = {s \in owed[p].to : Reachable(p, s)'}
         /\ \A p \in Publishers : Busy(p) => pc'[p] = "up"
  <1>1. /\ UNCHANGED <<next, sending, heard>>
        /\ pending' = [p \in Publishers |-> IF pc'[p] = "up" THEN pending[p] ELSE 0]
        /\ queue' = [s \in Subscribers |-> KeptQueue(s)]
        /\ matched' = {ps \in matched : pc'[ps[1]] # "absent" /\ KeepsPublic(ps[2])}
        /\ dropped' = dropped \cup Unmatched
        /\ owed' = StillOwed
    BY DEF Switch
  <1>2. /\ pending' \in [Publishers -> Nat]
        /\ \A p \in Publishers : pending'[p] = IF pc'[p] = "up" THEN pending[p] ELSE 0
    BY <1>1 DEF DeliveryTypes
  <1>3. ASSUME NEW s \in Subscribers, NEW path \in Ways
        PROVE  queue'[s][path] = IF Keeps(s, path) THEN queue[s][path] ELSE <<>>
    BY <1>1 DEF KeptQueue
  <1>4. queue' \in [Subscribers -> [Ways -> Seq(Messages)]]
    <2>1. ASSUME NEW s \in Subscribers PROVE KeptQueue(s) \in [Ways -> Seq(Messages)]
      BY DEF KeptQueue, DeliveryTypes
    <2> QED
      BY <1>1, <2>1
  <1>5. /\ matched' \subseteq matched
        /\ \A p \in Publishers, s \in Subscribers : <<p, s>> \in matched' => subscription'[s].public
    BY <1>1 DEF KeepsPublic
  <1>6. /\ dropped' \subseteq dropped \cup (Publishers \X Subscribers)
         /\ \A p \in Publishers, s \in Subscribers :
              <<p, s>> \in dropped' => <<p, s>> \in dropped \/ subscription[s].public
    BY <1>1 DEF Unmatched
  <1>7. ASSUME NEW p \in Publishers
        PROVE  /\ owed'[p].number = owed[p].number
               /\ owed'[p].to = {s \in owed[p].to : Reachable(p, s)'}
               /\ owed'[p] \in [number : Nat, to : SUBSET Subscribers]
    <2>1. PICK to : to = {s \in owed[p].to : Reachable(p, s)'}
      OBVIOUS
    <2>2. owed'[p] = [owed[p] EXCEPT !.to = to]
      BY <1>1, <2>1 DEF StillOwed
    <2>3. owed[p] \in [number : Nat, to : SUBSET Subscribers] /\ to \in SUBSET Subscribers
      BY <2>1 DEF DeliveryTypes
    <2> QED
      BY <2>1, <2>2, <2>3
  <1>8. owed' \in [Publishers -> [number : Nat, to : SUBSET Subscribers]]
    <2>1. owed' = [p \in Publishers |-> owed'[p]]
      BY <1>1 DEF StillOwed
    <2> QED
      BY <1>7, <2>1
  <1>9. ASSUME NEW p \in Publishers, Busy(p) PROVE pc'[p] = "up"
    <2>1. sending[p] # Idle
      BY <1>9 DEF Busy, Idle
    <2> QED
      BY <2>1 DEF Switch
  <1>10. DeliveryTypes'
    BY <1>1, <1>2, <1>4, <1>5, <1>8, <1>6 DEF DeliveryTypes
  <1> QED
    BY <1>1, <1>2, <1>3, <1>5, <1>7, <1>9, <1>10, <1>6

LEMMA PublishDoes ==
  ASSUME DeliveryTypes, NEW p \in Publishers, Publish(p)
  PROVE  /\ DeliveryTypes' /\ next' = next + 1
         /\ pending'[p] = next /\ owed'[p].number = next
         /\ owed'[p].to = {s \in Subscribers : Reachable(p, s)}
         /\ \A q \in Publishers : q # p => pending'[q] = pending[q] /\ owed'[q] = owed[q]
         /\ UNCHANGED <<vars, matched, dropped, sending, queue, heard>>
         /\ pc[p] = "up"
  <1>1. PICK o : o = [number |-> next, to |-> {s \in Subscribers : Reachable(p, s)}]
    OBVIOUS
  <1>2. /\ pc[p] = "up" /\ next' = next + 1
        /\ pending' = [pending EXCEPT ![p] = next]
        /\ owed' = [owed EXCEPT ![p] = o]
        /\ UNCHANGED <<vars, matched, dropped, sending, queue, heard>>
    BY <1>1 DEF Publish
  <1>3. o \in [number : Nat, to : SUBSET Subscribers]
    BY <1>1 DEF DeliveryTypes
  <1>4. DeliveryTypes'
    BY <1>2, <1>3 DEF DeliveryTypes
  <1> QED
    BY <1>1, <1>2, <1>4 DEF DeliveryTypes

LEMMA DrainDoes ==
  ASSUME DeliveryTypes, NEW p \in Publishers, Drain(p)
  PROVE  /\ DeliveryTypes'
         /\ pc[p] = "up" /\ ~Busy(p) /\ pending[p] # 0
         /\ pending'[p] = 0
         /\ sending'[p].step = "count_public" /\ sending'[p].number = pending[p]
         /\ sending'[p].local <=> HasLocal(p)
         /\ ~sending'[p].public
         /\ \A q \in Publishers : q # p => pending'[q] = pending[q] /\ sending'[q] = sending[q]
         /\ UNCHANGED <<vars, matched, dropped, next, queue, heard, owed>>
  <1>1. PICK x : x = [step |-> "count_public", number |-> pending[p], local |-> HasLocal(p),
                      public |-> FALSE]
    OBVIOUS
  <1>2. /\ pc[p] = "up" /\ sending[p] = Idle /\ pending[p] # 0
        /\ pending' = [pending EXCEPT ![p] = 0]
        /\ sending' = [sending EXCEPT ![p] = x]
        /\ UNCHANGED <<vars, matched, dropped, next, queue, heard, owed>>
    BY <1>1 DEF Drain, MovedOut
  <1>3. x \in [step : Steps, number : Nat, local : BOOLEAN, public : BOOLEAN]
    BY <1>1 DEF DeliveryTypes, Steps, HasLocal
  <1>4. DeliveryTypes'
    BY <1>2, <1>3 DEF DeliveryTypes
  <1>5. ~Busy(p)
    BY <1>2 DEF Busy, Idle
  <1>6. /\ x.step = "count_public" /\ x.number = pending[p]
        /\ x.local <=> HasLocal(p)
        /\ ~x.public
    BY <1>1, Zenon
  <1>7. sending'[p] = x
    BY <1>2 DEF DeliveryTypes
  <1> QED
    BY <1>2, <1>4, <1>5, <1>6, <1>7 DEF DeliveryTypes

LEMMA CountPublicDoes ==
  ASSUME DeliveryTypes, NEW p \in Publishers, CountPublic(p)
  PROVE  /\ DeliveryTypes'
         /\ sending[p].step = "count_public" /\ sending'[p].step = "send_public"
         /\ sending'[p].number = sending[p].number /\ sending'[p].local = sending[p].local
         /\ HasPublic(p) => sending'[p].public
         /\ sending'[p].public => HasPublic(p) \/ HasDropped(p)
         /\ \A q \in Publishers : q # p => sending'[q] = sending[q]
         /\ UNCHANGED <<vars, matched, dropped, next, pending, queue, heard, owed>>
  <1>1. PICK b \in {HasPublic(p), HasPublic(p) \/ HasDropped(p)} :
          sending' = [sending EXCEPT ![p].step = "send_public", ![p].public = b]
    BY DEF CountPublic
  <1>2. b \in BOOLEAN /\ (HasPublic(p) => b) /\ (b => HasPublic(p) \/ HasDropped(p))
    BY Zenon DEF HasPublic, HasDropped
  <1>3. PICK x : x = [sending[p] EXCEPT !.step = "send_public", !.public = b]
    OBVIOUS
  <1>4. sending[p] \in [step : Steps, number : Nat, local : BOOLEAN, public : BOOLEAN]
    BY DEF DeliveryTypes
  <1>5. /\ x \in [step : Steps, number : Nat, local : BOOLEAN, public : BOOLEAN]
        /\ x.step = "send_public" /\ x.number = sending[p].number
        /\ x.local = sending[p].local /\ x.public = b
    BY <1>3, <1>4, <1>2 DEF Steps
  <1>6. /\ sending[p].step = "count_public" /\ sending' = [sending EXCEPT ![p] = x]
        /\ UNCHANGED <<vars, matched, dropped, next, pending, queue, heard, owed>>
    BY <1>1, <1>3, <1>4 DEF CountPublic, DeliveryTypes
  <1>7. DeliveryTypes'
    BY <1>5, <1>6 DEF DeliveryTypes
  <1> QED
    BY <1>5, <1>6, <1>7, <1>2 DEF DeliveryTypes

\* A message joins the queues of some subscribers.
LEMMA SendDoes ==
  ASSUME DeliveryTypes, NEW p \in Publishers, NEW path \in Ways, NEW to, Send(p, path, to)
  PROVE  /\ queue' \in [Subscribers -> [Ways -> Seq(Messages)]]
         /\ \A t \in Subscribers, w \in Ways :
              queue'[t][w] = IF t \in to /\ w = path
                             THEN Append(queue[t][w], [from |-> p, number |-> sending[p].number])
                             ELSE queue[t][w]
  <1>1. PICK m : m = [from |-> p, number |-> sending[p].number]
    OBVIOUS
  <1>2. m \in Messages
    BY <1>1 DEF Messages, DeliveryTypes
  <1>3. queue' = [t \in Subscribers |->
                    IF t \in to THEN [queue[t] EXCEPT ![path] = Append(@, m)] ELSE queue[t]]
    BY <1>1 DEF Send
  <1>4. ASSUME NEW t \in Subscribers, NEW w \in Ways
        PROVE  queue'[t][w] = IF t \in to /\ w = path THEN Append(queue[t][w], m) ELSE queue[t][w]
    BY <1>3 DEF DeliveryTypes
  <1>5. ASSUME NEW t \in Subscribers PROVE queue'[t] \in [Ways -> Seq(Messages)]
    <2>1. queue[t] \in [Ways -> Seq(Messages)] /\ Append(queue[t][path], m) \in Seq(Messages)
      BY <1>2 DEF DeliveryTypes
    <2> QED
      BY <1>3, <2>1
  <1>6. queue' = [t \in Subscribers |-> queue'[t]]
    BY <1>3
  <1> QED
    BY <1>1, <1>4, <1>5, <1>6

LEMMA SendPublicDoes ==
  ASSUME DeliveryTypes, NEW p \in Publishers, SendPublic(p)
  PROVE  /\ DeliveryTypes'
         /\ sending[p].step = "send_public" /\ sending'[p].step = "send_local"
         /\ sending'[p].number = sending[p].number /\ sending'[p].local = sending[p].local
         /\ \A q \in Publishers : q # p => sending'[q] = sending[q]
         /\ UNCHANGED <<vars, matched, dropped, next, pending, heard, owed>>
         /\ \A t \in Subscribers, w \in Ways :
              queue'[t][w] = IF w = "public" /\ sending[p].public /\ <<p, t>> \in matched
                             THEN Append(queue[t][w], [from |-> p, number |-> sending[p].number])
                             ELSE queue[t][w]
  <1>1. sending[p] \in [step : Steps, number : Nat, local : BOOLEAN, public : BOOLEAN]
    BY DEF DeliveryTypes
  <1>2. PICK x : x = [sending[p] EXCEPT !.step = "send_local"]
    OBVIOUS
  <1>3. /\ x \in [step : Steps, number : Nat, local : BOOLEAN, public : BOOLEAN]
        /\ x.step = "send_local" /\ x.number = sending[p].number /\ x.local = sending[p].local
    BY <1>1, <1>2 DEF Steps
  <1>4. /\ sending[p].step = "send_public" /\ sending' = [sending EXCEPT ![p] = x]
        /\ Send(p, "public", {s \in Subscribers : sending[p].public /\ <<p, s>> \in matched})
        /\ UNCHANGED <<vars, matched, dropped, next, pending, heard, owed>>
    BY <1>2 DEF SendPublic, DeliveryTypes
  <1>5. "public" \in Ways
    BY DEF Ways
  <1>6. /\ queue' \in [Subscribers -> [Ways -> Seq(Messages)]]
        /\ \A t \in Subscribers, w \in Ways :
             queue'[t][w] = IF w = "public" /\ sending[p].public /\ <<p, t>> \in matched
                            THEN Append(queue[t][w], [from |-> p, number |-> sending[p].number])
                            ELSE queue[t][w]
    BY <1>4, <1>5, SendDoes
  <1>7. DeliveryTypes'
    BY <1>3, <1>4, <1>6 DEF DeliveryTypes
  <1> QED
    BY <1>3, <1>4, <1>6, <1>7 DEF DeliveryTypes

LEMMA SendLocalDoes ==
  ASSUME DeliveryTypes, NEW p \in Publishers, SendLocal(p)
  PROVE  /\ DeliveryTypes'
         /\ sending[p].step = "send_local" /\ sending'[p] = Idle /\ Busy(p)
         /\ \A q \in Publishers : q # p => sending'[q] = sending[q]
         /\ UNCHANGED <<vars, matched, dropped, next, pending, heard, owed>>
         /\ \A t \in Subscribers, w \in Ways :
              queue'[t][w] = IF w = "local" /\ sending[p].local /\ subscription[t].local = token[p]
                             THEN Append(queue[t][w], [from |-> p, number |-> sending[p].number])
                             ELSE queue[t][w]
  <1>1. Idle \in [step : Steps, number : Nat, local : BOOLEAN, public : BOOLEAN]
    BY DEF Idle, Steps
  <1>2. /\ sending[p].step = "send_local" /\ sending' = [sending EXCEPT ![p] = Idle]
        /\ Send(p, "local", {s \in Subscribers : sending[p].local /\ subscription[s].local = token[p]})
        /\ UNCHANGED <<vars, matched, dropped, next, pending, heard, owed>>
    BY DEF SendLocal, ToLocal
  <1>3. "local" \in Ways
    BY DEF Ways
  <1>4. /\ queue' \in [Subscribers -> [Ways -> Seq(Messages)]]
        /\ \A t \in Subscribers, w \in Ways :
             queue'[t][w] = IF w = "local" /\ sending[p].local /\ subscription[t].local = token[p]
                            THEN Append(queue[t][w], [from |-> p, number |-> sending[p].number])
                            ELSE queue[t][w]
    BY <1>2, <1>3, SendDoes
  <1>5. DeliveryTypes'
    BY <1>1, <1>2, <1>4 DEF DeliveryTypes
  <1> QED
    BY <1>2, <1>4, <1>5 DEF DeliveryTypes, Busy

LEMMA HearDoes ==
  ASSUME DeliveryTypes, NEW s \in Subscribers, NEW path \in Ways, Hear(s, path)
  PROVE  /\ DeliveryTypes'
         /\ queue[s][path] \in Seq(Messages) /\ queue[s][path] # <<>>
         /\ queue'[s][path] = Tail(queue[s][path])
         /\ \A t \in Subscribers, w \in Ways : t # s \/ w # path => queue'[t][w] = queue[t][w]
         /\ \A t \in Subscribers, p \in Publishers :
              heard'[t][p] = IF t = s /\ p = queue[s][path][1].from
                             THEN queue[s][path][1].number ELSE heard[t][p]
         /\ UNCHANGED <<vars, matched, dropped, next, pending, sending, owed>>
  <1>1. queue[s][path] \in Seq(Messages) /\ queue[s][path] # <<>>
    BY DEF DeliveryTypes, Hear
  <1>2. PICK q : q = Tail(queue[s][path])
    OBVIOUS
  <1>3. PICK m : m = queue[s][path][1]
    OBVIOUS
  <1>4. q \in Seq(Messages) /\ m \in Messages /\ m = Head(queue[s][path])
    BY <1>1, <1>2, <1>3
  <1>5. /\ queue' = [queue EXCEPT ![s][path] = q]
        /\ heard' = [heard EXCEPT ![s][m.from] = m.number]
        /\ UNCHANGED <<vars, matched, dropped, next, pending, sending, owed>>
    BY <1>2, <1>4 DEF Hear
  <1>6. m.from \in Publishers /\ m.number \in Nat
    BY <1>4 DEF Messages
  <1>7. DeliveryTypes'
    BY <1>4, <1>5, <1>6 DEF DeliveryTypes
  <1>8. /\ queue'[s][path] = q
        /\ \A t \in Subscribers, w \in Ways : t # s \/ w # path => queue'[t][w] = queue[t][w]
    BY <1>5 DEF DeliveryTypes
  <1>9. \A t \in Subscribers, p \in Publishers :
          heard'[t][p] = IF t = s /\ p = m.from THEN m.number ELSE heard[t][p]
    BY <1>5, <1>6 DEF DeliveryTypes
  <1> QED
    BY <1>1, <1>2, <1>3, <1>5, <1>7, <1>8, <1>9

--------------------------------------------------------------------------------
(* Types, and what is converted                                             *)

LEMMA DeliveryIsTyped == DeliverySpec => [](DeliveryTypes /\ MatchInv)
  <1>1. DeliveryInit => DeliveryTypes /\ MatchInv
    <2> SUFFICES ASSUME DeliveryInit PROVE DeliveryTypes /\ MatchInv
      OBVIOUS
    <2>1. Idle \in [step : Steps, number : Nat, local : BOOLEAN, public : BOOLEAN]
          /\ Idle.step = "idle"
      BY DEF Idle, Steps
    <2>2. DeliveryTypes
      BY <2>1 DEF DeliveryInit, DeliveryTypes
    <2>3. MatchInv
      BY <2>1 DEF DeliveryInit, MatchInv, Busy
    <2> QED
      BY <2>2, <2>3
  <1>2. DeliveryTypes /\ MatchInv /\ [DeliveryNext]_deliveryVars => DeliveryTypes' /\ MatchInv'
    <2> SUFFICES ASSUME DeliveryTypes, MatchInv, [DeliveryNext]_deliveryVars
                 PROVE  DeliveryTypes' /\ MatchInv'
      OBVIOUS
    <2>1. CASE Switch
      BY <2>1, SwitchDoes DEF MatchInv, Busy
    <2>2. ASSUME NEW p \in Publishers, NEW s \in Subscribers, Match(p, s)
          PROVE  DeliveryTypes' /\ MatchInv'
      BY <2>2 DEF Match, vars, messages, DeliveryTypes, MatchInv, Busy
    <2>3. ASSUME NEW p \in Publishers, NEW s \in Subscribers, Unmatch(p, s)
          PROVE  DeliveryTypes' /\ MatchInv'
      BY <2>3 DEF Unmatch, vars, messages, DeliveryTypes, MatchInv, Busy
    <2>4. ASSUME NEW p \in Publishers, Publish(p) PROVE DeliveryTypes' /\ MatchInv'
      BY <2>4, PublishDoes DEF vars, MatchInv, Busy
    <2>5. ASSUME NEW p \in Publishers, Drain(p) PROVE DeliveryTypes' /\ MatchInv'
      <3>1. \A q \in Publishers : Busy(q)' => q = p \/ Busy(q)
        BY <2>5, DrainDoes DEF Busy
      <3> QED
        BY <2>5, <3>1, DrainDoes DEF vars, MatchInv
    <2>6. ASSUME NEW p \in Publishers, CountPublic(p) \/ SendPublic(p) \/ SendLocal(p)
          PROVE  DeliveryTypes' /\ MatchInv'
      <3>1. /\ DeliveryTypes' /\ UNCHANGED <<vars, matched>> /\ Busy(p)
            /\ \A q \in Publishers : q # p => sending'[q] = sending[q]
        BY <2>6, CountPublicDoes, SendPublicDoes, SendLocalDoes DEF Busy
      <3>2. \A q \in Publishers : Busy(q)' => Busy(q)
        BY <3>1 DEF Busy
      <3> QED
        BY <3>1, <3>2 DEF vars, MatchInv
    <2>7. ASSUME NEW s \in Subscribers, NEW path \in Ways, Hear(s, path)
          PROVE  DeliveryTypes' /\ MatchInv'
      BY <2>7, HearDoes DEF vars, MatchInv, Busy
    <2>8. CASE UNCHANGED deliveryVars
      BY <2>8 DEF deliveryVars, vars, messages, DeliveryTypes, MatchInv, Busy
    <2>9. "local" \in Ways /\ "public" \in Ways
      BY DEF Ways
    <2> QED
      BY <2>1, <2>2, <2>4, <2>5, <2>6, <2>7, <2>8, <2>9, <2>3 DEF DeliveryNext, HearLocal, HearPublic
  <1> QED
    BY <1>1, <1>2, PTL DEF DeliverySpec

\* While a publisher is up no subscriber of its stream is on the public transport.
LEMMA UpIsPrivate ==
  ASSUME StepInv, ToldInv, NEW p \in Publishers, NEW s \in Subscribers,
         pc[p] = "up", StreamOf[p] = StreamOf[s]
  PROVE  ~subscription[s].public
  <1>1. p \in publishers /\ guards[p] = {}
    BY DEF StepInv, PublisherOK
  <1>2. refreshing[p].sub = Nobody
    BY DEF StepInv, RefreshOK, Refreshing, Owners
  <1>3. Nobody # s
    BY AdaptedAssumption DEF Owners
  <1>4. Told(p, s)
    BY <1>1 DEF Told
  <1> QED
    BY <1>2, <1>3, <1>4 DEF ToldInv, ToldOK

\* Only the drain of p makes it convert for the public topic.
LEMMA ConversionIsCounted ==
  ASSUME DeliveryTypes, DeliveryNext, NEW p \in Publishers,
         ~sending[p].public, sending'[p].public
  PROVE  CountPublic(p)
  <1>1. sending' # sending
    OBVIOUS
  <1>2. PICK q \in Publishers : Drain(q) \/ CountPublic(q) \/ SendPublic(q) \/ SendLocal(q)
    BY <1>1 DEF DeliveryNext, Switch, Match, Unmatch, Publish, HearLocal, HearPublic, Hear, messages
  <1>3. ~Drain(q)
    BY DrainDoes
  <1>4. ~SendPublic(q)
    <2> SUFFICES ASSUME SendPublic(q) PROVE FALSE
      OBVIOUS
    <2>1. q = p
      BY SendPublicDoes
    <2>2. PICK x : x = [sending[p] EXCEPT !.step = "send_local"]
      OBVIOUS
    <2>3. sending'[p] = x
      BY <2>1, <2>2 DEF SendPublic, DeliveryTypes
    <2>4. x.public = sending[p].public
      BY <2>2 DEF DeliveryTypes
    <2> QED
      BY <2>3, <2>4
  <1>5. ~SendLocal(q)
    <2>1. ~Idle.public
      BY Zenon DEF Idle
    <2> QED
      BY <2>1, SendLocalDoes
  <1>6. CountPublic(q) => q = p
    BY CountPublicDoes
  <1> QED
    BY <1>2, <1>3, <1>4, <1>5, <1>6

\* A local subscriber costs no conversion for the public topic once the publisher has
\* been told that it left: publish_now converts only if a subscription it has discovered
\* is of another adapter type, or one that was given up is still counted; and while a
\* publisher is up, no subscription of its own type is given up any more.
THEOREM LocalsCostNoConversionOnceUnmatched ==
  ASSUME ~SubscribersOverlap PROVE DeliverySpec => NoConversionOnceUnmatched
  <1>1. ASSUME StepInv, ToldInv, DeliveryTypes, MatchInv, DeliveryNext,
               NEW p \in Publishers, ~sending[p].public, sending'[p].public
        PROVE  \/ HasDropped(p)
               \/ \E s \in Subscribers : <<p, s>> \in matched /\ StreamOf[s] # StreamOf[p]
    <2>1. CountPublic(p)
      BY <1>1, ConversionIsCounted
    <2>2. Busy(p) /\ (HasPublic(p) \/ HasDropped(p))
      BY <1>1, <2>1, CountPublicDoes DEF Busy
    <2>3. SUFFICES ASSUME HasPublic(p)
                   PROVE  \E s \in Subscribers : <<p, s>> \in matched /\ StreamOf[s] # StreamOf[p]
      BY <2>2
    <2>4. PICK s \in Subscribers : <<p, s>> \in matched
      BY <2>3 DEF HasPublic
    <2>5. subscription[s].public /\ pc[p] = "up"
      BY <1>1, <2>2, <2>4 DEF MatchInv
    <2> QED
      BY <1>1, <2>4, <2>5, UpIsPrivate
  <1>2. ASSUME StepInv, ToldInv, DeliveryTypes, DeliveryNext, NEW p \in Publishers, pc[p] = "up"
        PROVE  LocalsDropped(p)' \subseteq LocalsDropped(p)
    <2> SUFFICES ASSUME NEW s \in Subscribers, StreamOf[s] = StreamOf[p], <<p, s>> \in dropped'
                 PROVE  <<p, s>> \in dropped
      BY DEF LocalsDropped
    <2>1. CASE Switch
      BY <1>2, <2>1, SwitchDoes, UpIsPrivate
    <2>2. CASE ~Switch
      BY <1>2, <2>2 DEF DeliveryNext, Match, Unmatch, Publish, Drain, CountPublic, SendPublic,
         SendLocal, HearLocal, HearPublic, Hear
    <2> QED
      BY <2>1, <2>2
  <1>3. StepInv /\ ToldInv /\ DeliveryTypes /\ MatchInv /\ [DeliveryNext]_deliveryVars =>
          [\A p \in Publishers :
             /\ ~sending[p].public /\ sending'[p].public =>
                  \/ HasDropped(p)
                  \/ \E s \in Subscribers : <<p, s>> \in matched /\ StreamOf[s] # StreamOf[p]
             /\ pc[p] = "up" /\ pc'[p] = "up" =>
                  LocalsDropped(p)' \subseteq LocalsDropped(p)]_deliveryVars
    BY <1>1, <1>2
  <1> QED
    BY <1>3, StepInductive, ToldInductive, DeliveryIsSwitching, DeliveryIsTyped, PTL
    DEF DeliverySpec, NoConversionOnceUnmatched

--------------------------------------------------------------------------------
(* Queues                                                                   *)

LEMMA AppendElements ==
  ASSUME NEW q \in Seq(Messages), NEW m \in Messages
  PROVE  /\ DOMAIN Append(q, m) = 1..(Len(q) + 1)
         /\ DOMAIN q = 1..Len(q) /\ Len(q) \in Nat
         /\ \A i \in DOMAIN q : Append(q, m)[i] = q[i] /\ q[i] \in Messages
         /\ Append(q, m)[Len(q) + 1] = m
  OBVIOUS

LEMMA TailElements ==
  ASSUME NEW q \in Seq(Messages), q # <<>>
  PROVE  /\ DOMAIN q = 1..Len(q) /\ Len(q) \in Nat /\ 1 \in DOMAIN q
         /\ DOMAIN Tail(q) = 1..(Len(q) - 1)
         /\ \A i \in DOMAIN Tail(q) : i \in Nat /\ 1 < i + 1 /\ i + 1 \in DOMAIN q /\ Tail(q)[i] = q[i + 1]
         /\ \A i \in DOMAIN q : q[i] \in Messages
  OBVIOUS

\* A later message than all that came before keeps the order.
LEMMA WaitingAppend ==
  ASSUME NEW given \in [Publishers -> Nat], NEW q \in Seq(Messages), NEW m \in Messages,
         NEW path, NEW stream, Waiting(given, q, path, stream),
         given[m.from] < m.number,
         \A i \in DOMAIN q : q[i].from = m.from => q[i].number < m.number,
         path = "local" <=> StreamOf[m.from] = stream
  PROVE  Waiting(given, Append(q, m), path, stream)
  <1>1. /\ DOMAIN Append(q, m) = 1..(Len(q) + 1)
        /\ DOMAIN q = 1..Len(q) /\ Len(q) \in Nat
        /\ \A i \in DOMAIN q : Append(q, m)[i] = q[i] /\ q[i] \in Messages
        /\ Append(q, m)[Len(q) + 1] = m
    BY AppendElements
  <1>2. \A i \in DOMAIN Append(q, m) : i = Len(q) + 1 \/ i \in DOMAIN q
    BY <1>1
  <1>3. ASSUME NEW i \in DOMAIN Append(q, m), NEW j \in DOMAIN Append(q, m), i < j
        PROVE  i \in DOMAIN q /\ (j \in DOMAIN q \/ j = Len(q) + 1)
    BY <1>1, <1>3
  <1>4. \A i \in DOMAIN Append(q, m) :
          /\ given[Append(q, m)[i].from] < Append(q, m)[i].number
          /\ path = "local" <=> StreamOf[Append(q, m)[i].from] = stream
    BY <1>1, <1>2 DEF Waiting
  <1>5. ASSUME NEW i \in DOMAIN Append(q, m), NEW j \in DOMAIN Append(q, m), i < j,
               Append(q, m)[i].from = Append(q, m)[j].from
        PROVE  Append(q, m)[i].number < Append(q, m)[j].number
    BY <1>1, <1>3, <1>5 DEF Waiting
  <1> QED
    BY <1>4, <1>5 DEF Waiting

LEMMA BeforeAppend ==
  ASSUME NEW given, NEW qs \in [Ways -> Seq(Messages)], NEW rs \in [Ways -> Seq(Messages)],
         NEW m \in Messages, NEW p, NEW n, Before(given, qs, p, n),
         \A w \in Ways : rs[w] = qs[w] \/ rs[w] = Append(qs[w], m),
         m.from = p => m.number < n
  PROVE  Before(given, rs, p, n)
  <1>1. ASSUME NEW w \in Ways, NEW i \in DOMAIN rs[w], rs[w][i].from = p PROVE rs[w][i].number < n
    <2>1. CASE rs[w] = qs[w]
      BY <1>1, <2>1 DEF Before
    <2>2. CASE rs[w] = Append(qs[w], m)
      <3>1. PICK q \in Seq(Messages) : q = qs[w]
        OBVIOUS
      <3>2. (i \in DOMAIN q /\ rs[w][i] = q[i]) \/ rs[w][i] = m
        BY <1>1, <2>2, <3>1, AppendElements
      <3> QED
        BY <1>1, <3>1, <3>2 DEF Before
    <2> QED
      BY <2>1, <2>2
  <1> QED
    BY <1>1 DEF Before

LEMMA BeforeLater ==
  ASSUME NEW given \in [Publishers -> Nat], NEW qs \in [Ways -> Seq(Messages)],
         NEW p \in Publishers, NEW n \in Int, NEW k \in Int, n <= k, Before(given, qs, p, n)
  PROVE  Before(given, qs, p, k)
  <1>1. ASSUME NEW w \in Ways, NEW i \in DOMAIN qs[w], qs[w][i].from = p PROVE qs[w][i].number < k
    <2>1. qs[w] \in Seq(Messages) /\ qs[w][i].number < n
      BY <1>1 DEF Before
    <2>2. qs[w][i] \in Messages
      BY <2>1
    <2> QED
      BY <2>1, <2>2 DEF Messages
  <1> QED
    BY <1>1 DEF Before

\* The queues lose messages, and the callback gets none.
LEMMA BeforeLoss ==
  ASSUME NEW given, NEW qs, NEW rs, NEW p, NEW n, Before(given, qs, p, n),
         \A w \in Ways : rs[w] = qs[w] \/ rs[w] = <<>>
  PROVE  Before(given, rs, p, n)
  <1>1. DOMAIN <<>> = {}
    OBVIOUS
  <1> QED
    BY <1>1 DEF Before

LEMMA WaitingNothing ==
  ASSUME NEW given, NEW path, NEW stream PROVE Waiting(given, <<>>, path, stream)
  <1>1. DOMAIN <<>> = {}
    OBVIOUS
  <1> QED
    BY <1>1 DEF Waiting

\* The callback is given the head of a queue.
LEMMA WaitingHear ==
  ASSUME NEW given, NEW q \in Seq(Messages), NEW got, NEW path, NEW stream,
         q # <<>>, Waiting(given, q, path, stream),
         \A p \in Publishers : got[p] = IF p = q[1].from THEN q[1].number ELSE given[p]
  PROVE  Waiting(got, Tail(q), path, stream)
  <1>1. /\ 1 \in DOMAIN q
        /\ \A i \in DOMAIN Tail(q) :
             i \in Nat /\ 1 < i + 1 /\ i + 1 \in DOMAIN q /\ Tail(q)[i] = q[i + 1]
        /\ \A i \in DOMAIN q : q[i] \in Messages
    BY TailElements
  <1>2. ASSUME NEW i \in DOMAIN Tail(q)
        PROVE  /\ got[Tail(q)[i].from] < Tail(q)[i].number
               /\ path = "local" <=> StreamOf[Tail(q)[i].from] = stream
    <2>1. PICK m \in Messages : m = q[i + 1]
      BY <1>1, <1>2
    <2>2. /\ given[m.from] < m.number /\ (path = "local" <=> StreamOf[m.from] = stream)
          /\ m.from = q[1].from => q[1].number < m.number
      BY <1>1, <2>1 DEF Waiting
    <2>3. m.from \in Publishers
      BY DEF Messages
    <2> QED
      BY <1>1, <2>1, <2>2, <2>3
  <1>3. ASSUME NEW i \in DOMAIN Tail(q), NEW j \in DOMAIN Tail(q), i < j,
               Tail(q)[i].from = Tail(q)[j].from
        PROVE  Tail(q)[i].number < Tail(q)[j].number
    <2>1. i + 1 < j + 1
      BY <1>1, <1>3
    <2> QED
      BY <1>1, <1>3, <2>1 DEF Waiting
  <1> QED
    BY <1>2, <1>3 DEF Waiting

--------------------------------------------------------------------------------
(* Order                                                                    *)

LEMMA OrderOfSwitch ==
  ASSUME DeliveryTypes, OrderInv, Switch PROVE OrderInv'
  <1>1. /\ UNCHANGED <<next, sending, heard>>
        /\ \A p \in Publishers : pending'[p] \in {pending[p], 0} /\ owed'[p].number = owed[p].number
        /\ \A s \in Subscribers, w \in Ways : queue'[s][w] = queue[s][w] \/ queue'[s][w] = <<>>
    BY SwitchDoes
  <1>2. \A p \in Publishers : NumbersOK(p)'
    BY <1>1 DEF OrderInv, NumbersOK, Busy
  <1>3. ASSUME NEW p \in Publishers, NEW s \in Subscribers PROVE AgeOK(p, s)'
    <2>1. \A n : Before(heard[s], queue[s], p, n) => Before(heard'[s], queue'[s], p, n)
      BY <1>1, BeforeLoss
    <2> QED
      BY <1>1, <2>1 DEF OrderInv, AgeOK, Ahead
  <1>4. ASSUME NEW s \in Subscribers, NEW w \in Ways PROVE QueueOK(s, w)'
    BY <1>1, WaitingNothing DEF OrderInv, QueueOK
  <1> QED
    BY <1>2, <1>3, <1>4 DEF OrderInv

\* Steps that send nothing.
LEMMA OrderOfPublish ==
  ASSUME DeliveryTypes, OrderInv, NEW x \in Publishers, Publish(x) PROVE OrderInv'
  <1>1. /\ next' = next + 1 /\ pending'[x] = next /\ owed'[x].number = next
        /\ \A q \in Publishers : q # x => pending'[q] = pending[q] /\ owed'[q] = owed[q]
        /\ UNCHANGED <<sending, queue, heard>>
    BY PublishDoes
  <1>2. /\ next \in Nat
        /\ \A p \in Publishers : owed[p].number \in Nat /\ sending[p].number \in Nat
    BY DEF DeliveryTypes
  <1>3. ASSUME NEW p \in Publishers PROVE NumbersOK(p)'
    <2>1. NumbersOK(p)
      BY DEF OrderInv
    <2>2. CASE p = x
      BY <1>1, <1>2, <2>1, <2>2 DEF NumbersOK, Busy
    <2>3. CASE p # x
      BY <1>1, <1>2, <2>1, <2>3 DEF NumbersOK, Busy
    <2> QED
      BY <2>2, <2>3
  <1>4. ASSUME NEW p \in Publishers, NEW s \in Subscribers PROVE AgeOK(p, s)'
    <2>1. AgeOK(p, s) /\ NumbersOK(p)
      BY DEF OrderInv
    <2>2. CASE p # x
      BY <1>1, <2>1, <2>2 DEF AgeOK, Ahead
    <2>3. CASE p = x
      <3>1. heard[s] \in [Publishers -> Nat] /\ queue[s] \in [Ways -> Seq(Messages)]
        BY DEF DeliveryTypes
      <3>2. owed[p].number + 1 <= next /\ owed[p].number + 1 <= next + 1
        BY <1>2, <2>1 DEF NumbersOK
      <3>3. owed[p].number + 1 \in Int /\ next \in Int /\ next + 1 \in Int
        BY <1>2
      <3>4. Before(heard[s], queue[s], p, next) /\ Before(heard[s], queue[s], p, next + 1)
        BY <2>1, <3>1, <3>2, <3>3, BeforeLater DEF AgeOK
      <3> QED
        BY <1>1, <2>1, <2>3, <3>4 DEF AgeOK, Ahead
    <2> QED
      BY <2>2, <2>3
  <1> QED
    BY <1>1, <1>3, <1>4 DEF OrderInv, QueueOK

LEMMA OrderOfDrain ==
  ASSUME DeliveryTypes, OrderInv, NEW x \in Publishers, Drain(x) PROVE OrderInv'
  <1>1. /\ pending[x] # 0 /\ pending'[x] = 0
        /\ sending'[x].step = "count_public" /\ sending'[x].number = pending[x]
        /\ \A q \in Publishers : q # x => pending'[q] = pending[q] /\ sending'[q] = sending[q]
        /\ UNCHANGED <<next, queue, heard, owed>>
    BY DrainDoes
  <1>2. \A p \in Publishers : owed[p].number \in Nat
    BY DEF DeliveryTypes
  <1>3. ASSUME NEW p \in Publishers PROVE NumbersOK(p)'
    <2>1. NumbersOK(p)
      BY DEF OrderInv
    <2> QED
      BY <1>1, <1>2, <2>1 DEF NumbersOK, Busy
  <1>4. ASSUME NEW p \in Publishers, NEW s \in Subscribers PROVE AgeOK(p, s)'
    <2>1. AgeOK(p, s)
      BY DEF OrderInv
    <2> QED
      BY <1>1, <2>1 DEF AgeOK, Ahead
  <1> QED
    BY <1>1, <1>3, <1>4 DEF OrderInv, QueueOK

LEMMA OrderOfCount ==
  ASSUME DeliveryTypes, OrderInv, NEW x \in Publishers, CountPublic(x) PROVE OrderInv'
  <1>1. /\ sending[x].step = "count_public" /\ sending'[x].step = "send_public"
        /\ sending'[x].number = sending[x].number
        /\ \A q \in Publishers : q # x => sending'[q] = sending[q]
        /\ UNCHANGED <<next, pending, queue, heard, owed>>
    BY CountPublicDoes
  <1>2. ASSUME NEW p \in Publishers PROVE NumbersOK(p)'
    BY <1>1 DEF OrderInv, NumbersOK, Busy
  <1>3. ASSUME NEW p \in Publishers, NEW s \in Subscribers PROVE AgeOK(p, s)'
    <2>1. AgeOK(p, s)
      BY DEF OrderInv
    <2> QED
      BY <1>1, <2>1 DEF AgeOK, Ahead
  <1> QED
    BY <1>1, <1>2, <1>3 DEF OrderInv, QueueOK

\* A message of x is sent to the subscribers of a set, which are those of its stream
\* or of others, as the path has it, and for whom it is the newest.
LEMMA OrderOfSend ==
  ASSUME DeliveryTypes, OrderInv, NEW x \in Publishers, Busy(x), NEW path \in Ways, NEW to,
         \A s \in Subscribers, w \in Ways :
           queue'[s][w] = IF w = path /\ s \in to
                          THEN Append(queue[s][w], [from |-> x, number |-> sending[x].number])
                          ELSE queue[s][w],
         queue' \in [Subscribers -> [Ways -> Seq(Messages)]],
         UNCHANGED <<next, pending, heard, owed>>,
         \A q \in Publishers : q # x => sending'[q] = sending[q],
         \A s \in Subscribers : Ahead(x, s)' => Ahead(x, s) /\ s \notin to,
         Busy(x)' => sending'[x].number = sending[x].number,
         \A s \in Subscribers \cap to : Ahead(x, s) /\ (path = "local" <=> StreamOf[x] = StreamOf[s])
  PROVE  OrderInv'
  <1>1. PICK m \in Messages : m = [from |-> x, number |-> sending[x].number]
    BY DEF Messages, DeliveryTypes
  <1>2. m.from = x /\ m.number = sending[x].number /\ m.number \in Nat
    BY <1>1 DEF Messages
  <1>3. \A s \in Subscribers : /\ heard[s] \in [Publishers -> Nat]
                               /\ queue[s] \in [Ways -> Seq(Messages)]
                               /\ queue'[s] \in [Ways -> Seq(Messages)]
    BY DEF DeliveryTypes
  <1>4. ASSUME NEW p \in Publishers PROVE NumbersOK(p)'
    BY DEF OrderInv, NumbersOK, Busy
  <1>5. ASSUME NEW p \in Publishers, NEW s \in Subscribers PROVE AgeOK(p, s)'
    <2>1. AgeOK(p, s) /\ NumbersOK(p) /\ pending[p] \in Nat /\ owed[p].number \in Nat
      BY DEF OrderInv, DeliveryTypes
    <2>2. ASSUME NEW n, Before(heard[s], queue[s], p, n), s \in to /\ p = x => m.number < n
          PROVE  Before(heard'[s], queue'[s], p, n)
      <3>1. CASE s \in to
        <4>1. \A w \in Ways : queue'[s][w] = queue[s][w] \/ queue'[s][w] = Append(queue[s][w], m)
          BY <1>1
        <4> QED
          BY ZenonT(60), <1>2, <1>3, <2>2, <3>1, <4>1, BeforeAppend
      <3>2. CASE s \notin to
        <4>1. \A w \in Ways : queue'[s][w] = queue[s][w]
          BY <3>2
        <4> QED
          BY <2>2, <4>1 DEF Before
      <3> QED
        BY <3>1, <3>2
    <2>3. p = x => m.number < owed[p].number + 1
      BY <1>2, <2>1 DEF NumbersOK
    <2>4. p = x /\ pending[p] # 0 => m.number < pending[p]
      BY <1>2, <2>1 DEF NumbersOK
    <2>5. Before(heard'[s], queue'[s], p, owed[p].number + 1)
      BY <2>1, <2>2, <2>3 DEF AgeOK
    <2>6. pending[p] # 0 => Before(heard'[s], queue'[s], p, pending[p])
      BY <2>1, <2>2, <2>4 DEF AgeOK
    <2>7. Ahead(p, s)' => Before(heard'[s], queue'[s], p, sending'[p].number)
      <3>1. CASE p = x
        <4> SUFFICES ASSUME Ahead(x, s)' PROVE Before(heard'[s], queue'[s], p, sending'[p].number)
          BY <3>1
        <4>1. Ahead(x, s) /\ s \notin to /\ Busy(x)'
          BY DEF Ahead, Busy
        <4>2. Before(heard'[s], queue'[s], p, sending[p].number)
          BY <2>1, <2>2, <3>1, <4>1 DEF AgeOK
        <4> QED
          BY <3>1, <4>1, <4>2
      <3>2. CASE p # x
        <4>1. sending'[p] = sending[p]
          BY <3>2
        <4>2. Ahead(p, s)' => Ahead(p, s)
          BY <4>1 DEF Ahead
        <4> QED
          BY <2>1, <2>2, <3>2, <4>1, <4>2 DEF AgeOK
      <3> QED
        BY <3>1, <3>2
    <2> QED
      BY <2>5, <2>6, <2>7 DEF AgeOK
  <1>6. ASSUME NEW s \in Subscribers, NEW w \in Ways PROVE QueueOK(s, w)'
    <2>1. QueueOK(s, w) /\ AgeOK(x, s)
      BY DEF OrderInv
    <2>2. CASE w = path /\ s \in to
      <3>1. Before(heard[s], queue[s], x, sending[x].number)
        BY <2>1, <2>2 DEF AgeOK
      <3>2. /\ heard[s][m.from] < m.number
            /\ \A i \in DOMAIN queue[s][w] :
                 queue[s][w][i].from = m.from => queue[s][w][i].number < m.number
        BY <1>2, <3>1 DEF Before
      <3>3. w = "local" <=> StreamOf[m.from] = StreamOf[s]
        BY <1>2, <2>2
      <3>4. Waiting(heard[s], Append(queue[s][w], m), w, StreamOf[s])
        BY <1>3, <2>1, <3>2, <3>3, WaitingAppend DEF QueueOK
      <3> QED
        BY <1>1, <2>2, <3>4 DEF QueueOK
    <2>3. CASE ~(w = path /\ s \in to)
      BY <2>1, <2>3 DEF QueueOK
    <2> QED
      BY <2>2, <2>3
  <1> QED
    BY <1>4, <1>5, <1>6 DEF OrderInv

LEMMA OrderOfSendPublic ==
  ASSUME StepInv, ToldInv, DeliveryTypes, MatchInv, OrderInv, NEW x \in Publishers, SendPublic(x)
  PROVE  OrderInv'
  <1>1. PICK to : to = {s \in Subscribers : sending[x].public /\ <<x, s>> \in matched}
    OBVIOUS
  <1>2. /\ DeliveryTypes'
        /\ sending[x].step = "send_public" /\ sending'[x].step = "send_local"
        /\ sending'[x].number = sending[x].number
        /\ \A q \in Publishers : q # x => sending'[q] = sending[q]
        /\ UNCHANGED <<next, pending, heard, owed>>
        /\ \A s \in Subscribers, w \in Ways :
             queue'[s][w] = IF w = "public" /\ s \in to
                            THEN Append(queue[s][w], [from |-> x, number |-> sending[x].number])
                            ELSE queue[s][w]
    BY <1>1, SendPublicDoes
  <1>3. Busy(x) /\ pc[x] = "up" /\ "public" \in Ways
    BY <1>2 DEF Busy, MatchInv, Ways
  <1>4. \A s \in Subscribers \cap to : StreamOf[x] # StreamOf[s]
    BY <1>1, <1>3, UpIsPrivate DEF MatchInv
  <1>5. \A s \in Subscribers : Ahead(x, s) /\ (Ahead(x, s)' => StreamOf[x] = StreamOf[s])
    BY <1>2 DEF Ahead
  <1>6. queue' \in [Subscribers -> [Ways -> Seq(Messages)]]
    BY <1>2 DEF DeliveryTypes
  <1>7. \A s \in Subscribers : Ahead(x, s)' => Ahead(x, s) /\ s \notin to
    BY <1>4, <1>5
  <1>8. \A s \in Subscribers \cap to : Ahead(x, s) /\ ("public" = "local" <=> StreamOf[x] = StreamOf[s])
    BY <1>4, <1>5
  <1> QED
    BY <1>2, <1>3, <1>6, <1>7, <1>8, OrderOfSend

LEMMA OrderOfSendLocal ==
  ASSUME StepInv, StreamInv, DeliveryTypes, MatchInv, OrderInv, NEW x \in Publishers, SendLocal(x)
  PROVE  OrderInv'
  <1>1. PICK to : to = {s \in Subscribers : sending[x].local /\ subscription[s].local = token[x]}
    OBVIOUS
  <1>2. /\ DeliveryTypes'
        /\ sending[x].step = "send_local" /\ sending'[x] = Idle /\ Busy(x)
        /\ \A q \in Publishers : q # x => sending'[q] = sending[q]
        /\ UNCHANGED <<next, pending, heard, owed>>
        /\ \A s \in Subscribers, w \in Ways :
             queue'[s][w] = IF w = "local" /\ s \in to
                            THEN Append(queue[s][w], [from |-> x, number |-> sending[x].number])
                            ELSE queue[s][w]
    BY <1>1, SendLocalDoes
  <1>3. pc[x] = "up" /\ token[x] # 0 /\ "local" \in Ways
    BY <1>2 DEF MatchInv, Ways, StepInv, PublisherOK
  <1>4. \A s \in Subscribers \cap to : StreamOf[x] = StreamOf[s]
    BY <1>1, <1>3 DEF StreamInv, TokenIsOf
  <1>5. /\ \A s \in Subscribers : StreamOf[x] = StreamOf[s] => Ahead(x, s)
        /\ \A s \in Subscribers : ~Ahead(x, s)'
        /\ ~Busy(x)'
    BY <1>2 DEF Ahead, Busy, Idle
  <1>6. queue' \in [Subscribers -> [Ways -> Seq(Messages)]]
    BY <1>2 DEF DeliveryTypes
  <1>7. \A s \in Subscribers \cap to : Ahead(x, s) /\ ("local" = "local" <=> StreamOf[x] = StreamOf[s])
    BY <1>4, <1>5
  <1> QED
    BY <1>2, <1>3, <1>5, <1>6, <1>7, OrderOfSend

LEMMA OrderOfHear ==
  ASSUME DeliveryTypes, OrderInv, NEW s \in Subscribers, NEW path \in Ways, Hear(s, path)
  PROVE  OrderInv'
  <1>1. /\ queue[s][path] \in Seq(Messages) /\ queue[s][path] # <<>>
        /\ queue'[s][path] = Tail(queue[s][path])
        /\ \A t \in Subscribers, w \in Ways : t # s \/ w # path => queue'[t][w] = queue[t][w]
        /\ \A t \in Subscribers, p \in Publishers :
             heard'[t][p] = IF t = s /\ p = queue[s][path][1].from
                            THEN queue[s][path][1].number ELSE heard[t][p]
        /\ UNCHANGED <<next, pending, sending, owed>>
        /\ DeliveryTypes'
    BY HearDoes
  <1>2. \A t \in Subscribers : heard[t] \in [Publishers -> Nat] /\ queue[t] \in [Ways -> Seq(Messages)]
    BY DEF DeliveryTypes
  <1>3. ASSUME NEW p \in Publishers PROVE NumbersOK(p)'
    BY <1>1 DEF OrderInv, NumbersOK, Busy
  <1>4. ASSUME NEW p \in Publishers, NEW t \in Subscribers, NEW n, Before(heard[t], queue[t], p, n)
        PROVE  Before(heard'[t], queue'[t], p, n)
    <2>1. CASE t = s
      <3>1. PICK q \in Seq(Messages) : q = queue[s][path]
        BY <1>1
      <3>2. /\ 1 \in DOMAIN q
            /\ \A i \in DOMAIN Tail(q) : i + 1 \in DOMAIN q /\ Tail(q)[i] = q[i + 1]
        BY <1>1, <3>1, TailElements
      <3>3. \A j \in DOMAIN q : q[j].from = p => q[j].number < n
        BY <1>4, <2>1, <3>1 DEF Before
      <3>4. heard'[s][p] < n
        BY <1>1, <1>4, <2>1, <3>1, <3>2, <3>3 DEF Before
      <3>5. ASSUME NEW w \in Ways, NEW i \in DOMAIN queue'[s][w], queue'[s][w][i].from = p
            PROVE  queue'[s][w][i].number < n
        <4>1. CASE w = path
          <5>1. queue'[s][w] = Tail(q)
            BY <1>1, <3>1, <4>1
          <5>2. i + 1 \in DOMAIN q /\ queue'[s][w][i] = q[i + 1]
            BY <3>2, <3>5, <5>1
          <5> QED
            BY <3>3, <3>5, <5>2
        <4>2. CASE w # path
          <5>1. queue'[s][w] = queue[s][w]
            BY <1>1, <4>2
          <5> QED
            BY <1>4, <2>1, <3>5, <5>1 DEF Before
        <4> QED
          BY <4>1, <4>2
      <3> QED
        BY <2>1, <3>4, <3>5 DEF Before
    <2>2. CASE t # s
      <3>1. heard'[t][p] = heard[t][p] /\ \A w \in Ways : queue'[t][w] = queue[t][w]
        BY <1>1, <2>2
      <3> QED
        BY <1>4, <3>1 DEF Before
    <2> QED
      BY <2>1, <2>2
  <1>5. ASSUME NEW p \in Publishers, NEW t \in Subscribers PROVE AgeOK(p, t)'
    BY <1>1, <1>4 DEF OrderInv, AgeOK, Ahead
  <1>6. ASSUME NEW t \in Subscribers, NEW w \in Ways PROVE QueueOK(t, w)'
    <2>1. QueueOK(t, w) /\ QueueOK(s, path) /\ queue[t][w] \in Seq(Messages)
      BY <1>2 DEF OrderInv
    <2>2. CASE t = s /\ w = path
      BY SMTT(30), <1>1, <2>1, <2>2, WaitingHear DEF QueueOK
    <2>3. CASE t # s
      <3>1. queue'[t][w] = queue[t][w] /\ \A p \in Publishers : heard'[t][p] = heard[t][p]
        BY <1>1, <2>3
      <3>2. \A i \in DOMAIN queue[t][w] : queue[t][w][i].from \in Publishers
        <4>1. \A i \in DOMAIN queue[t][w] : queue[t][w][i] \in Messages
          BY <2>1
        <4> QED
          BY <4>1 DEF Messages
      <3> QED
        BY <2>1, <3>1, <3>2 DEF QueueOK, Waiting
    <2>4. CASE t = s /\ w # path
      <3>1. PICK x : x = queue[s][path][1].from
        OBVIOUS
      <3>2. 1 \in DOMAIN queue[s][path]
        BY <1>1, TailElements
      <3>3. path = "local" <=> StreamOf[x] = StreamOf[s]
        BY <2>1, <3>1, <3>2 DEF QueueOK, Waiting
      <3>4. \A i \in DOMAIN queue[t][w] : queue[t][w][i].from # x
        BY <2>1, <2>4, <3>3 DEF QueueOK, Waiting, Ways
      <3>5. queue'[t][w] = queue[t][w] /\ \A p \in Publishers : p # x => heard'[t][p] = heard[t][p]
        BY <1>1, <2>4, <3>1
      <3>6. \A i \in DOMAIN queue[t][w] : queue[t][w][i].from \in Publishers
        <4>1. \A i \in DOMAIN queue[t][w] : queue[t][w][i] \in Messages
          BY <2>1
        <4> QED
          BY <4>1 DEF Messages
      <3> QED
        BY <2>1, <3>4, <3>5, <3>6 DEF QueueOK, Waiting
    <2> QED
      BY <2>2, <2>3, <2>4
  <1> QED
    BY <1>3, <1>5, <1>6 DEF OrderInv

LEMMA OrderInductive == ASSUME ~SubscribersOverlap PROVE DeliverySpec => []OrderInv
  <1>1. DeliveryInit => OrderInv
    <2> SUFFICES ASSUME DeliveryInit PROVE OrderInv
      OBVIOUS
    <2>1. /\ next = 1
          /\ \A p \in Publishers : pending[p] = 0 /\ sending[p] = Idle /\ owed[p].number = 0
          /\ \A s \in Subscribers, p \in Publishers : heard[s][p] = 0
          /\ \A s \in Subscribers, w \in Ways : queue[s][w] = <<>>
      BY DEF DeliveryInit
    <2>2. \A p \in Publishers : ~Busy(p) /\ \A s \in Subscribers : ~Ahead(p, s)
      BY <2>1 DEF Busy, Ahead, Idle
    <2>3. DOMAIN <<>> = {}
      OBVIOUS
    <2>4. \A p \in Publishers, s \in Subscribers : Before(heard[s], queue[s], p, 1)
      BY <2>1, <2>3 DEF Before
    <2>5. \A p \in Publishers : NumbersOK(p)
      BY <2>1, <2>2 DEF NumbersOK
    <2>6. \A p \in Publishers, s \in Subscribers : AgeOK(p, s)
      BY <2>1, <2>2, <2>4 DEF AgeOK
    <2>7. \A s \in Subscribers, w \in Ways : QueueOK(s, w)
      BY <2>1, WaitingNothing DEF QueueOK
    <2> QED
      BY <2>5, <2>6, <2>7 DEF OrderInv
  <1>2. /\ StepInv /\ ToldInv /\ StreamInv /\ DeliveryTypes /\ MatchInv /\ OrderInv
        /\ [DeliveryNext]_deliveryVars
        => OrderInv'
    <2> SUFFICES ASSUME StepInv, ToldInv, StreamInv, DeliveryTypes, MatchInv, OrderInv,
                        [DeliveryNext]_deliveryVars
                 PROVE  OrderInv'
      OBVIOUS
    <2>1. ASSUME NEW p \in Publishers,
                 \/ Publish(p) \/ Drain(p) \/ CountPublic(p) \/ SendPublic(p) \/ SendLocal(p)
          PROVE  OrderInv'
      BY <2>1, OrderOfPublish, OrderOfDrain, OrderOfCount, OrderOfSendPublic, OrderOfSendLocal
    <2>2. ASSUME NEW s \in Subscribers, HearLocal(s) \/ HearPublic(s) PROVE OrderInv'
      BY <2>2, OrderOfHear DEF HearLocal, HearPublic, Ways
    <2>3. ASSUME UNCHANGED <<next, pending, sending, queue, heard, owed>> PROVE OrderInv'
      BY <2>3 DEF OrderInv, NumbersOK, AgeOK, QueueOK, Busy, Ahead
    <2>4. ASSUME NEW p \in Publishers, NEW s \in Subscribers, Match(p, s) PROVE OrderInv'
      BY <2>3, <2>4 DEF Match, messages
    <2>5. ASSUME NEW p \in Publishers, NEW s \in Subscribers, Unmatch(p, s) PROVE OrderInv'
      BY <2>3, <2>5 DEF Unmatch, messages
    <2>6. CASE UNCHANGED deliveryVars
      BY <2>3, <2>6 DEF deliveryVars, messages
    <2> QED
      BY <2>1, <2>2, <2>4, <2>5, <2>6, OrderOfSwitch DEF DeliveryNext
  <1> QED
    BY <1>1, <1>2, DeliveryIsSwitching, DeliveryIsTyped, StepInductive, ToldInductive,
       StreamInductive, PTL
    DEF DeliverySpec

\* Nothing is delivered twice over the two paths, and no message behind a later one
\* of its publisher, however subscribers switch, while no subscriber is constructed
\* or shut down as publishers come and go.
THEOREM MessagesAreHeardInOrder ==
  ASSUME ~SubscribersOverlap PROVE DeliverySpec => []HeardOnceInOrder
  <1>1. DeliveryTypes /\ OrderInv => HeardOnceInOrder
    <2> SUFFICES ASSUME DeliveryTypes, OrderInv, NEW s \in Subscribers
                 PROVE  /\ \A m \in InQueues(s) : m.number > heard[s][m.from]
                        /\ Range(queue[s]["local"]) \cap Range(queue[s]["public"]) = {}
                        /\ \A path \in Ways : \A i, j \in DOMAIN queue[s][path] :
                             i < j /\ queue[s][path][i].from = queue[s][path][j].from =>
                               queue[s][path][i].number < queue[s][path][j].number
      BY DEF HeardOnceInOrder
    <2>1. \A path \in Ways : QueueOK(s, path)
      BY DEF OrderInv
    <2>2. ASSUME NEW m \in InQueues(s) PROVE m.number > heard[s][m.from]
      <3>1. PICK path \in Ways : \E i \in DOMAIN queue[s][path] : m = queue[s][path][i]
        BY <2>2 DEF InQueues, Range
      <3>2. queue[s][path] \in Seq(Messages) /\ heard[s] \in [Publishers -> Nat]
        BY DEF DeliveryTypes
      <3>3. m \in Messages
        BY <3>1, <3>2
      <3>4. heard[s][m.from] < m.number
        BY <2>1, <3>1 DEF QueueOK, Waiting
      <3>5. m.number \in Nat /\ heard[s][m.from] \in Nat
        BY <3>2, <3>3 DEF Messages
      <3> QED
        BY <3>4, <3>5
    <2>3. ASSUME NEW m \in Range(queue[s]["local"]), m \in Range(queue[s]["public"]) PROVE FALSE
      <3>1. "local" \in Ways /\ "public" \in Ways /\ "public" # "local"
        BY DEF Ways
      <3>2. /\ \E i \in DOMAIN queue[s]["local"] : m = queue[s]["local"][i]
            /\ \E i \in DOMAIN queue[s]["public"] : m = queue[s]["public"][i]
        BY <2>3 DEF Range
      <3>3. StreamOf[m.from] = StreamOf[s]
        BY <2>1, <3>1, <3>2 DEF QueueOK, Waiting
      <3>4. StreamOf[m.from] # StreamOf[s]
        BY <2>1, <3>1, <3>2 DEF QueueOK, Waiting
      <3> QED
        BY <3>3, <3>4
    <2>4. \A path \in Ways : \A i, j \in DOMAIN queue[s][path] :
            i < j /\ queue[s][path][i].from = queue[s][path][j].from =>
              queue[s][path][i].number < queue[s][path][j].number
      BY <2>1 DEF QueueOK, Waiting
    <2> QED
      BY <2>2, <2>3, <2>4
  <1> QED
    BY <1>1, OrderInductive, DeliveryIsTyped, PTL

--------------------------------------------------------------------------------
(* The last message                                                         *)

\* A subscriber of its stream that a publisher can reach listens to it, and no
\* refresh under way takes it elsewhere.
Listens(p, s) ==
  /\ subscription[s].local = token[p] /\ AlreadyOn(s, token[p])
  /\ \A o \in Owners : refreshing[o].sub = s /\ pc[o] \in Decided =>
       refreshing[o].found = token[p]

ReachInv ==
  \A p \in Publishers, s \in Subscribers :
    Reachable(p, s) /\ StreamOf[s] = StreamOf[p] => Listens(p, s)

\* It follows from where a subscriber goes: nobody has still to be told of anything.
LEMMA ReachableListens == StepInv /\ FollowInv => ReachInv
  <1> SUFFICES ASSUME StepInv, FollowInv, NEW p \in Publishers, NEW s \in Subscribers,
                      Reachable(p, s), StreamOf[s] = StreamOf[p]
               PROVE  Listens(p, s)
    BY DEF ReachInv
  <1>1. /\ pc[p] = "up" /\ pc[s] = "live" /\ FrontTopic(StreamOf[s]) = token[p]
        /\ \A q \in Publishers : StreamOf[q] = StreamOf[s] => ~Leaving(q)
    BY DEF Reachable
  <1>2. p \in publishers /\ guards[p] = {} /\ token[p] # 0 /\ refreshing[p].sub = Nobody
    BY <1>1 DEF StepInv, PublisherOK, RefreshOK, Refreshing, Owners
  <1>3. Nobody # s
    BY AdaptedAssumption DEF Owners
  <1>4. ASSUME NEW q \in Publishers, Moves(q), Untold(q, s) PROVE FALSE
    <2>1. StreamOf[q] = StreamOf[s] /\ ~Leaving(q)
      BY <1>1, <1>4 DEF Untold
    <2>2. q \in publishers
      BY <1>4, <2>1 DEF Moves, Leaving, StepInv, PublisherOK
    <2>3. token[q] = token[p]
      BY <1>1, <1>4, <2>1, <2>2 DEF Moves
    <2>4. q = p
      BY <1>2, <2>3 DEF StepInv, TypeOK
    <2> QED
      BY <1>1, <1>2, <1>3, <1>4, <2>4 DEF Untold, WillSettle
  <1>5. Settled(s)
    BY <1>1, <1>4 DEF FollowInv, FollowOK
  <1>6. subscription[s] = PathOf(token[p])
    BY <1>1, <1>5 DEF Settled, OnFront
  <1> QED
    BY <1>1, <1>2, <1>5, <1>6, PathFields DEF Settled, AlreadyOn, Listens

\* A publisher that stays up keeps its token.
LEMMA UpKeepsToken ==
  ASSUME StepInv, NEW p \in Publishers, Next, pc[p] = "up", pc'[p] = "up"
  PROVE  token'[p] = token[p]
  <1>1. token \in [Publishers -> Tokens]
    BY DEF StepInv, TypeOK
  <1>2. ASSUME NEW q \in Publishers, ConstructPublisher(q) \/ TriggersDone(q)
        PROVE  token'[p] = token[p]
    <2>1. q # p
      BY <1>2 DEF ConstructPublisher, TriggersDone
    <2> QED
      BY <1>1, <1>2, <2>1 DEF ConstructPublisher, TriggersDone
  <1>3. ASSUME NEW q \in Publishers, Register(q) \/ Unregister(q) \/ CollectGuards(q) \/ Trigger(q)
        PROVE  token' = token
    BY <1>3 DEF Register, Unregister, CollectGuards, Trigger, registry
  <1>4. ASSUME NEW s \in Subscribers,
               ConstructSubscriber(s) \/ RemoveInterest(s) \/ DropSubscriptions(s) \/ Disarm(s)
        PROVE  token' = token
    BY <1>4 DEF ConstructSubscriber, RemoveInterest, DropSubscriptions, Disarm, registry
  <1>5. ASSUME NEW o \in Owners, Refresh(o) PROVE token' = token
    BY <1>5, RefreshFrame DEF registry
  <1> QED
    BY <1>2, <1>3, <1>4, <1>5 DEF Next, PublisherStep, ShutdownStep

\* A private subscription is made only by a refresh that found another topic.
LEMMA AdoptsAnother ==
  ASSUME StepInv, NEW o \in Owners, Next, pc[o] = "switch", pc'[o] = "adopt"
  PROVE  ~AlreadyOn(refreshing[o].sub, refreshing[o].found)
  <1>1. pc \in [Owners -> PublisherLabels \cup SubscriberLabels]
    BY DEF StepInv
  <1>2. ASSUME NEW q \in Publishers,
               \/ ConstructPublisher(q) \/ Register(q) \/ Unregister(q)
               \/ CollectGuards(q) \/ Trigger(q) \/ TriggersDone(q)
        PROVE  FALSE
    <2>1. pc[q] # "switch"
      BY <1>2 DEF ConstructPublisher, Register, Unregister, CollectGuards, Trigger, TriggersDone
    <2>2. \A r \in Owners : r # q => pc'[r] = pc[r]
      BY <1>1, <1>2
      DEF ConstructPublisher, Register, Unregister, CollectGuards, Trigger, TriggersDone, Goto
    <2> QED
      BY <2>1, <2>2
  <1>3. ASSUME NEW s \in Subscribers,
               ConstructSubscriber(s) \/ RemoveInterest(s) \/ DropSubscriptions(s) \/ Disarm(s)
        PROVE  FALSE
    <2>1. pc[s] # "switch"
      BY <1>3 DEF ConstructSubscriber, RemoveInterest, DropSubscriptions, Disarm
    <2>2. \A r \in Owners : r # s => pc'[r] = pc[r]
      BY <1>1, <1>3 DEF ConstructSubscriber, RemoveInterest, DropSubscriptions, Disarm, Goto
    <2> QED
      BY <2>1, <2>2
  <1>4. PICK r \in Owners : Refresh(r)
    BY <1>2, <1>3 DEF Next, PublisherStep, ShutdownStep
  <1>5. r = o
    BY <1>4, RefreshFrame
  <1>6. SubscribeLocal(o)
    <2>1. ~FindPublishers(o) /\ ~AdoptLocal(o) /\ ~FallBack(o)
      BY DEF FindPublishers, AdoptLocal, FallBack
    <2>2. ~KeepLocal(o)
      BY Released DEF KeepLocal
    <2>3. ~DropLocal(o)
      BY <1>1 DEF DropLocal, Goto
    <2> QED
      BY <1>4, <1>5, <2>1, <2>2, <2>3 DEF Refresh
  <1> QED
    BY <1>6 DEF SubscribeLocal

LEMMA OwedAfterSwitch ==
  ASSUME StepInv, ReachInv, ReachInv', DeliveryTypes, OrderInv, OwedInv, Switch
  PROVE  OwedInv'
  <1> SUFFICES ASSUME NEW p \in Publishers, NEW s \in Subscribers, s \in owed'[p].to
               PROVE  OwedOK(p, s)'
    BY DEF OwedInv, OwedOK
  <1>1. /\ UNCHANGED <<sending, heard>> /\ owed'[p].number = owed[p].number
        /\ pending'[p] = IF pc'[p] = "up" THEN pending[p] ELSE 0
        /\ \A w \in Ways : queue'[s][w] = IF Keeps(s, w) THEN queue[s][w] ELSE <<>>
        /\ <<p, s>> \in matched' => subscription'[s].public
        /\ s \in owed[p].to /\ Reachable(p, s)'
    BY SwitchDoes
  <1>2. /\ Next /\ pc[p] = "up" /\ pc'[p] = "up" /\ Reachable(p, s)
        /\ pending[p] # 0 \/ OnItsWay(p, s) \/ Arrived(p, s)
    BY <1>1 DEF Switch, OwedInv, OwedOK, Reachable
  <1>3. CASE pending[p] # 0
    BY <1>1, <1>2, <1>3 DEF OwedOK
  <1>4. CASE OnItsWay(p, s)
    BY <1>1, <1>4 DEF OwedOK, OnItsWay, Busy
  <1>5. CASE heard[s][p] = owed[p].number
    BY <1>1, <1>5 DEF OwedOK, Arrived
  <1>6. ASSUME NEW w \in Ways, NEW i \in DOMAIN queue[s][w],
               queue[s][w][i] = [from |-> p, number |-> owed[p].number]
        PROVE  OwedOK(p, s)'
    <2>1. w = "local" <=> StreamOf[p] = StreamOf[s]
      <3>1. queue[s][w][i].from = p
        BY <1>6
      <3> QED
        BY <3>1 DEF OrderInv, QueueOK, Waiting
    <2>2. Keeps(s, w)
      <3>1. CASE StreamOf[p] = StreamOf[s]
        <4>1. Listens(p, s)
          BY <1>2, <3>1 DEF ReachInv
        <4>2. subscription'[s].local = token'[p]
          BY <1>1, <3>1 DEF ReachInv, Listens
        <4>3. token'[p] = token[p]
          BY <1>2, UpKeepsToken
        <4>4. \A o \in Owners : refreshing[o].sub = s /\ pc[o] = "switch" => pc'[o] # "adopt"
          BY <1>2, <4>1, AdoptsAnother DEF Decided, Listens
        <4> QED
          BY <2>1, <3>1, <4>1, <4>2, <4>3, <4>4 DEF Keeps, KeepsLocal, Listens
      <3>2. CASE StreamOf[p] # StreamOf[s]
        <4>1. <<p, s>> \in matched'
          BY <1>1, <3>2 DEF Reachable
        <4> QED
          BY <1>1, <2>1, <3>2, <4>1 DEF Keeps, KeepsPublic, Ways
      <3> QED
        BY <3>1, <3>2
    <2>3. queue'[s][w] = queue[s][w]
      BY <1>1, <2>2
    <2> QED
      BY <1>1, <1>6, <2>3 DEF OwedOK, Arrived
  <1> QED
    BY <1>2, <1>3, <1>4, <1>5, <1>6 DEF Arrived

LEMMA ReachableStays ==
  ASSUME UNCHANGED vars, matched \subseteq matched', NEW p \in Publishers, NEW s \in Subscribers,
         Reachable(p, s)
  PROVE  Reachable(p, s)'
  BY DEF vars, Reachable, FrontTopic, Leaving

\* What has arrived stays when messages join the queues, and one that joins arrives.
LEMMA ArrivedAppend ==
  ASSUME DeliveryTypes, UNCHANGED <<heard, owed>>, NEW p \in Publishers, NEW s \in Subscribers,
         NEW m \in Messages,
         \A w \in Ways : queue'[s][w] \in {queue[s][w], Append(queue[s][w], m)},
         \/ Arrived(p, s)
         \/ /\ m = [from |-> p, number |-> owed[p].number]
            /\ \E w \in Ways : queue'[s][w] = Append(queue[s][w], m)
  PROVE  Arrived(p, s)'
  <1>1. CASE heard[s][p] = owed[p].number
    BY <1>1 DEF Arrived
  <1>2. ASSUME NEW w \in Ways, NEW i \in DOMAIN queue[s][w],
               queue[s][w][i] = [from |-> p, number |-> owed[p].number]
        PROVE  Arrived(p, s)'
    <2>1. PICK q \in Seq(Messages) : q = queue[s][w]
      BY DEF DeliveryTypes
    <2>2. i \in DOMAIN Append(q, m) /\ Append(q, m)[i] = q[i]
      BY <2>1, AppendElements
    <2>3. i \in DOMAIN queue'[s][w] /\ queue'[s][w][i] = queue[s][w][i]
      BY <2>1, <2>2
    <2> QED
      BY <1>2, <2>3 DEF Arrived
  <1>3. ASSUME m = [from |-> p, number |-> owed[p].number], NEW w \in Ways,
               queue'[s][w] = Append(queue[s][w], m)
        PROVE  Arrived(p, s)'
    <2>1. PICK q \in Seq(Messages) : q = queue[s][w]
      BY DEF DeliveryTypes
    <2>2. Len(q) + 1 \in DOMAIN Append(q, m) /\ Append(q, m)[Len(q) + 1] = m
      BY AppendElements
    <2> QED
      BY <1>3, <2>1, <2>2 DEF Arrived
  <1> QED
    BY <1>1, <1>2, <1>3 DEF Arrived

LEMMA OwedAfterPublish ==
  ASSUME DeliveryTypes, OrderInv, OwedInv, NEW x \in Publishers, Publish(x) PROVE OwedInv'
  <1>1. /\ pending'[x] = next /\ owed'[x].to = {s \in Subscribers : Reachable(x, s)}
        /\ \A q \in Publishers : q # x => pending'[q] = pending[q] /\ owed'[q] = owed[q]
        /\ UNCHANGED <<vars, matched, dropped, sending, queue, heard>>
    BY PublishDoes
  <1>2. next # 0
    <2>1. owed[x].number \in Nat /\ next \in Nat /\ owed[x].number < next
      BY DEF DeliveryTypes, OrderInv, NumbersOK
    <2> QED
      BY <2>1
  <1>3. ASSUME NEW p \in Publishers, NEW s \in Subscribers, s \in owed'[p].to PROVE OwedOK(p, s)'
    <2>1. Reachable(p, s)
      BY <1>1, <1>3 DEF OwedInv, OwedOK
    <2>2. Reachable(p, s)'
      BY <1>1, <2>1, ReachableStays
    <2>3. CASE p = x
      BY <1>1, <1>2, <2>2, <2>3 DEF OwedOK
    <2>4. CASE p # x
      BY <1>1, <1>3, <2>2, <2>4 DEF OwedInv, OwedOK, OnItsWay, Busy, Arrived
    <2> QED
      BY <2>3, <2>4
  <1> QED
    BY <1>3 DEF OwedInv, OwedOK

LEMMA OwedAfterDrain ==
  ASSUME StepInv, DeliveryTypes, OrderInv, OwedInv, NEW x \in Publishers, Drain(x) PROVE OwedInv'
  <1>1. /\ pending[x] # 0 /\ pending'[x] = 0
        /\ sending'[x].step = "count_public" /\ sending'[x].number = pending[x]
        /\ sending'[x].local <=> HasLocal(x)
        /\ \A q \in Publishers : q # x => pending'[q] = pending[q] /\ sending'[q] = sending[q]
        /\ UNCHANGED <<vars, matched, queue, heard, owed>>
    BY DrainDoes
  <1>2. ASSUME NEW p \in Publishers, NEW s \in Subscribers, s \in owed'[p].to PROVE OwedOK(p, s)'
    <2>1. Reachable(p, s)
      BY <1>1, <1>2 DEF OwedInv, OwedOK
    <2>2. Reachable(p, s)'
      BY <1>1, <2>1, ReachableStays
    <2>3. CASE p = x
      <3>1. sending'[p].number = owed'[p].number
        BY <1>1, <2>3 DEF OrderInv, NumbersOK
      <3>2. Busy(p)'
        BY <1>1, <2>3 DEF Busy
      <3>3. StreamOf[s] = StreamOf[p] => HasLocal(p)
        <4>1. interest[s] # 0
          BY <2>1 DEF Reachable, StepInv, SubscriberOK
        <4> QED
          BY <4>1 DEF HasLocal, Interested
      <3> QED
        BY <1>1, <2>2, <2>3, <3>1, <3>2, <3>3 DEF OwedOK, OnItsWay
    <2>4. CASE p # x
      BY <1>1, <1>2, <2>2, <2>4 DEF OwedInv, OwedOK, OnItsWay, Busy, Arrived
    <2> QED
      BY <2>3, <2>4
  <1> QED
    BY <1>2 DEF OwedInv, OwedOK

LEMMA OwedAfterCount ==
  ASSUME DeliveryTypes, OwedInv, NEW x \in Publishers, CountPublic(x) PROVE OwedInv'
  <1>1. /\ sending[x].step = "count_public" /\ sending'[x].step = "send_public"
        /\ sending'[x].number = sending[x].number /\ sending'[x].local = sending[x].local
        /\ HasPublic(x) => sending'[x].public
        /\ \A q \in Publishers : q # x => sending'[q] = sending[q]
        /\ UNCHANGED <<vars, matched, pending, queue, heard, owed>>
    BY CountPublicDoes
  <1>2. ASSUME NEW p \in Publishers, NEW s \in Subscribers, s \in owed'[p].to PROVE OwedOK(p, s)'
    <2>1. Reachable(p, s) /\ (pending[p] # 0 \/ OnItsWay(p, s) \/ Arrived(p, s))
      BY <1>1, <1>2 DEF OwedInv, OwedOK
    <2>2. Reachable(p, s)'
      BY <1>1, <2>1, ReachableStays
    <2>3. OnItsWay(p, s) => OnItsWay(p, s)'
      <3>1. CASE p # x
        BY <1>1, <3>1 DEF OnItsWay, Busy
      <3>2. CASE p = x /\ StreamOf[s] = StreamOf[p]
        BY <1>1, <3>2 DEF OnItsWay, Busy
      <3>3. CASE p = x /\ StreamOf[s] # StreamOf[p]
        <4>1. HasPublic(p)
          BY <2>1, <3>3 DEF Reachable, HasPublic
        <4>2. sending'[p].public
          BY <1>1, <3>3, <4>1
        <4> QED
          BY <1>1, <3>3, <4>2 DEF OnItsWay
      <3> QED
        BY <3>1, <3>2, <3>3
    <2> QED
      BY <1>1, <2>1, <2>2, <2>3 DEF OwedOK, Arrived
  <1> QED
    BY <1>2 DEF OwedInv, OwedOK

LEMMA OwedAfterSendPublic ==
  ASSUME DeliveryTypes, OwedInv, NEW x \in Publishers, SendPublic(x) PROVE OwedInv'
  <1>1. PICK m \in Messages : m = [from |-> x, number |-> sending[x].number]
    BY DEF Messages, DeliveryTypes
  <1>2. /\ sending[x].step = "send_public" /\ sending'[x].step = "send_local"
        /\ sending'[x].number = sending[x].number /\ sending'[x].local = sending[x].local
        /\ \A q \in Publishers : q # x => sending'[q] = sending[q]
        /\ UNCHANGED <<vars, matched, pending, heard, owed>>
        /\ \A t \in Subscribers, w \in Ways :
             queue'[t][w] = IF w = "public" /\ sending[x].public /\ <<x, t>> \in matched
                            THEN Append(queue[t][w], m) ELSE queue[t][w]
    BY <1>1, SendPublicDoes
  <1>3. ASSUME NEW p \in Publishers, NEW s \in Subscribers, s \in owed'[p].to PROVE OwedOK(p, s)'
    <2>1. Reachable(p, s) /\ (pending[p] # 0 \/ OnItsWay(p, s) \/ Arrived(p, s))
      BY <1>2, <1>3 DEF OwedInv, OwedOK
    <2>2. Reachable(p, s)'
      BY <1>2, <2>1, ReachableStays
    <2>3. \A w \in Ways : queue'[s][w] \in {queue[s][w], Append(queue[s][w], m)}
      BY <1>2
    <2>4. Arrived(p, s) => Arrived(p, s)'
      BY <1>2, <2>3, ArrivedAppend
    <2>5. OnItsWay(p, s) => OnItsWay(p, s)' \/ Arrived(p, s)'
      <3>1. CASE p # x
        BY <1>2, <3>1 DEF OnItsWay, Busy
      <3>2. CASE p = x /\ StreamOf[s] = StreamOf[p]
        BY <1>2, <3>2 DEF OnItsWay, Busy
      <3>3. CASE p = x /\ StreamOf[s] # StreamOf[p] /\ OnItsWay(p, s)
        <4>1. sending[p].public /\ sending[p].number = owed[p].number
          BY <1>2, <3>3 DEF OnItsWay
        <4>2. <<p, s>> \in matched
          BY <2>1, <3>3 DEF Reachable
        <4>3. "public" \in Ways
          BY DEF Ways
        <4>4. queue'[s]["public"] = Append(queue[s]["public"], m)
          BY <1>2, <3>3, <4>1, <4>2, <4>3
        <4>5. m = [from |-> p, number |-> owed[p].number]
          BY <1>1, <3>3, <4>1
        <4> QED
          BY <1>2, <2>3, <4>3, <4>4, <4>5, ArrivedAppend
      <3> QED
        BY <3>1, <3>2, <3>3
    <2> QED
      BY <1>2, <2>1, <2>2, <2>4, <2>5 DEF OwedOK
  <1> QED
    BY <1>3 DEF OwedInv, OwedOK

LEMMA OwedAfterSendLocal ==
  ASSUME ReachInv, DeliveryTypes, OwedInv, NEW x \in Publishers, SendLocal(x) PROVE OwedInv'
  <1>1. PICK m \in Messages : m = [from |-> x, number |-> sending[x].number]
    BY DEF Messages, DeliveryTypes
  <1>2. /\ sending[x].step = "send_local"
        /\ \A q \in Publishers : q # x => sending'[q] = sending[q]
        /\ UNCHANGED <<vars, matched, pending, heard, owed>>
        /\ \A t \in Subscribers, w \in Ways :
             queue'[t][w] = IF w = "local" /\ sending[x].local /\ subscription[t].local = token[x]
                            THEN Append(queue[t][w], m) ELSE queue[t][w]
    BY <1>1, SendLocalDoes
  <1>3. ASSUME NEW p \in Publishers, NEW s \in Subscribers, s \in owed'[p].to PROVE OwedOK(p, s)'
    <2>1. Reachable(p, s) /\ (pending[p] # 0 \/ OnItsWay(p, s) \/ Arrived(p, s))
      BY <1>2, <1>3 DEF OwedInv, OwedOK
    <2>2. Reachable(p, s)'
      BY <1>2, <2>1, ReachableStays
    <2>3. \A w \in Ways : queue'[s][w] \in {queue[s][w], Append(queue[s][w], m)}
      BY <1>2
    <2>4. Arrived(p, s) => Arrived(p, s)'
      BY <1>2, <2>3, ArrivedAppend
    <2>5. OnItsWay(p, s) => OnItsWay(p, s)' \/ Arrived(p, s)'
      <3>1. CASE p # x
        BY <1>2, <3>1 DEF OnItsWay, Busy
      <3>2. CASE p = x /\ OnItsWay(p, s)
        <4>1. StreamOf[s] = StreamOf[p] /\ sending[p].local /\ sending[p].number = owed[p].number
          BY <1>2, <3>2 DEF OnItsWay
        <4>2. subscription[s].local = token[p]
          BY <2>1, <4>1 DEF ReachInv, Listens
        <4>3. "local" \in Ways
          BY DEF Ways
        <4>4. queue'[s]["local"] = Append(queue[s]["local"], m)
          BY <1>2, <3>2, <4>1, <4>2, <4>3
        <4>5. m = [from |-> p, number |-> owed[p].number]
          BY <1>1, <3>2, <4>1
        <4> QED
          BY <1>2, <2>3, <4>3, <4>4, <4>5, ArrivedAppend
      <3> QED
        BY <3>1, <3>2
    <2> QED
      BY <1>2, <2>1, <2>2, <2>4, <2>5 DEF OwedOK
  <1> QED
    BY <1>3 DEF OwedInv, OwedOK

\* The callback is given the head of a queue, which is no newer than the last message.
LEMMA OwedAfterHear ==
  ASSUME DeliveryTypes, OrderInv, OwedInv, NEW t \in Subscribers, NEW path \in Ways, Hear(t, path)
  PROVE  OwedInv'
  <1>1. PICK q \in Seq(Messages) : q = queue[t][path]
    BY DEF DeliveryTypes
  <1>2. /\ q # <<>> /\ queue'[t][path] = Tail(q)
        /\ \A s \in Subscribers, w \in Ways : s # t \/ w # path => queue'[s][w] = queue[s][w]
        /\ \A s \in Subscribers, p \in Publishers :
             heard'[s][p] = IF s = t /\ p = q[1].from THEN q[1].number ELSE heard[s][p]
        /\ UNCHANGED <<vars, matched, pending, sending, owed>>
    BY <1>1, HearDoes
  <1>3. /\ DOMAIN q = 1..Len(q) /\ Len(q) \in Nat /\ 1 \in DOMAIN q
        /\ DOMAIN Tail(q) = 1..(Len(q) - 1)
        /\ \A i \in DOMAIN Tail(q) : Tail(q)[i] = q[i + 1]
    BY <1>2, TailElements
  <1>4. PICK m \in Messages : m = q[1]
    BY <1>3
  <1>5. ASSUME NEW p \in Publishers, m.from = p
        PROVE  heard[t][p] < m.number /\ m.number < owed[p].number + 1
    <2>1. QueueOK(t, path) /\ AgeOK(p, t)
      BY DEF OrderInv
    <2> QED
      BY <1>1, <1>3, <1>4, <1>5, <2>1 DEF QueueOK, Waiting, AgeOK, Before
  <1>6. ASSUME NEW p \in Publishers, NEW s \in Subscribers, Arrived(p, s) PROVE Arrived(p, s)'
    <2>1. CASE heard[s][p] = owed[p].number
      <3>1. heard[s][p] \in Nat /\ m.number \in Nat
        BY DEF DeliveryTypes, Messages
      <3>2. ~(s = t /\ m.from = p)
        BY <1>5, <2>1, <3>1
      <3> QED
        BY <1>2, <1>4, <2>1, <3>2 DEF Arrived
    <2>2. ASSUME NEW w \in Ways, NEW i \in DOMAIN queue[s][w],
                 queue[s][w][i] = [from |-> p, number |-> owed[p].number]
          PROVE  Arrived(p, s)'
      <3>1. CASE s # t \/ w # path
        BY <1>2, <2>2, <3>1 DEF Arrived
      <3>2. CASE s = t /\ w = path /\ i = 1
        <4>1. m.from = p /\ m.number = owed[p].number
          BY <1>1, <1>4, <2>2, <3>2
        <4> QED
          BY <1>2, <1>4, <3>2, <4>1 DEF Arrived
      <3>3. CASE s = t /\ w = path /\ i # 1
        <4>1. i \in 1..Len(q) /\ i - 1 \in DOMAIN Tail(q) /\ (i - 1) + 1 = i
          BY <1>1, <1>3, <2>2, <3>3
        <4>2. Tail(q)[i - 1] = q[i]
          BY <1>3, <4>1
        <4>3. /\ i - 1 \in DOMAIN queue'[s][w]
              /\ queue'[s][w][i - 1] = [from |-> p, number |-> owed'[p].number]
          BY <1>1, <1>2, <2>2, <3>3, <4>1, <4>2
        <4> QED
          BY <4>3 DEF Arrived
      <3> QED
        BY <3>1, <3>2, <3>3
    <2> QED
      BY <1>6, <2>1, <2>2 DEF Arrived
  <1>7. ASSUME NEW p \in Publishers, NEW s \in Subscribers, s \in owed'[p].to PROVE OwedOK(p, s)'
    <2>1. Reachable(p, s) /\ (pending[p] # 0 \/ OnItsWay(p, s) \/ Arrived(p, s))
      BY <1>2, <1>7 DEF OwedInv, OwedOK
    <2>2. Reachable(p, s)'
      BY <1>2, <2>1, ReachableStays
    <2>3. OnItsWay(p, s) => OnItsWay(p, s)'
      BY <1>2 DEF OnItsWay, Busy
    <2> QED
      BY <1>2, <1>6, <2>1, <2>2, <2>3 DEF OwedOK
  <1> QED
    BY <1>7 DEF OwedInv, OwedOK

\* Nothing changes but what a publisher knows of the subscriptions.
LEMMA OwedAfterMatch ==
  ASSUME OwedInv, UNCHANGED <<vars, pending, sending, queue, heard, owed>>,
         matched \subseteq matched'
  PROVE  OwedInv'
  <1>1. \A p \in Publishers, s \in Subscribers : Reachable(p, s) => Reachable(p, s)'
    BY ReachableStays
  <1> QED
    BY <1>1 DEF OwedInv, OwedOK, OnItsWay, Busy, Arrived

LEMMA OwedInductive == ASSUME ~SubscribersOverlap PROVE DeliverySpec => []OwedInv
  <1>1. DeliveryInit => OwedInv
    BY DEF DeliveryInit, OwedInv, OwedOK
  <1>2. /\ StepInv /\ ReachInv /\ ReachInv' /\ DeliveryTypes /\ OrderInv /\ OwedInv
        /\ [DeliveryNext]_deliveryVars
        => OwedInv'
    <2> SUFFICES ASSUME StepInv, ReachInv, ReachInv', DeliveryTypes, OrderInv, OwedInv,
                        [DeliveryNext]_deliveryVars
                 PROVE  OwedInv'
      OBVIOUS
    <2>1. ASSUME NEW p \in Publishers,
                 \/ Publish(p) \/ Drain(p) \/ CountPublic(p) \/ SendPublic(p) \/ SendLocal(p)
          PROVE  OwedInv'
      BY <2>1, OwedAfterPublish, OwedAfterDrain, OwedAfterCount, OwedAfterSendPublic,
         OwedAfterSendLocal
    <2>2. ASSUME NEW s \in Subscribers, HearLocal(s) \/ HearPublic(s) PROVE OwedInv'
      BY <2>2, OwedAfterHear DEF HearLocal, HearPublic, Ways
    <2>3. ASSUME NEW p \in Publishers, NEW s \in Subscribers, Match(p, s) \/ Unmatch(p, s)
          PROVE  OwedInv'
      <3>1. UNCHANGED <<vars, pending, sending, queue, heard, owed>> /\ matched \subseteq matched'
        BY <2>3 DEF Match, Unmatch, messages
      <3> QED
        BY <3>1, OwedAfterMatch
    <2>4. CASE UNCHANGED deliveryVars
      <3>1. UNCHANGED <<vars, pending, sending, queue, heard, owed>> /\ matched \subseteq matched'
        BY <2>4 DEF deliveryVars, messages
      <3> QED
        BY <3>1, OwedAfterMatch
    <2> QED
      BY <2>1, <2>2, <2>3, <2>4, OwedAfterSwitch DEF DeliveryNext
  <1> QED
    BY <1>1, <1>2, ReachableListens, DeliveryIsSwitching, DeliveryIsTyped, StepInductive,
       FollowInductive, OrderInductive, PTL
    DEF DeliverySpec

\* The last message of a publisher reaches every subscriber that had to get it and
\* still has to: switching loses no message on the way, and publish_now withholds it
\* from neither path.
THEOREM LatestIsDelivered ==
  ASSUME ~SubscribersOverlap PROVE DeliverySpec => []LatestArrives
  <1>1. DeliveryTypes /\ OwedInv => LatestArrives
    <2> SUFFICES ASSUME DeliveryTypes, OwedInv,
                        NEW p \in Publishers, pending[p] = 0, sending[p] = Idle,
                        NEW s \in owed[p].to
                 PROVE  \/ heard[s][p] = owed[p].number
                        \/ [from |-> p, number |-> owed[p].number] \in InQueues(s)
      BY DEF LatestArrives
    <2> s \in Subscribers
      BY DEF DeliveryTypes
    <2>1. sending[p].step = "idle"
      BY DEF Idle
    <2>2. ~OnItsWay(p, s)
      BY <2>1 DEF OnItsWay, Busy
    <2>3. Arrived(p, s)
      BY <2>2 DEF OwedInv, OwedOK
    <2> QED
      BY <2>3 DEF Arrived, InQueues, Range
  <1> QED
    BY <1>1, OwedInductive, DeliveryIsTyped, PTL
================================================================================
