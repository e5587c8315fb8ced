---------------------------- MODULE AdaptedDelivery ----------------------------
(***************************************************************************)
(* Adapted publishers and subscribers with the messages between them: what *)
(* publish() of every publisher sends on which path, while subscribers     *)
(* switch between the paths as AdaptedSubscription has it.                 *)
(*                                                                         *)
(* Publishers are asynchronous, the executor that drains them and the one  *)
(* that calls the subscribers may run in any thread; AdaptedPublish has    *)
(* the timer between publish() and the drain.  shutdown() of a publisher   *)
(* is called when the executor is not inside publish_now of it.            *)
(***************************************************************************)
EXTENDS AdaptedSubscription, Sequences, Functions

CONSTANTS
  BaseTopic,    \* the public topic of each stream
  Scenarios     \* bounds: which subscribers are ever constructed and shut down,
                \* how many publishers are constructed, and calls of publish()

ASSUME DeliveryAssumption ==
  /\ DOMAIN BaseTopic = Streams
  /\ Scenarios \subseteq [subscribers : SUBSET Subscribers, leaving : SUBSET Subscribers,
                          tokens : Nat, calls : Nat]

VARIABLES
  scenario,  \* the bounds of this behaviour
  matched,   \* the pairs of a public publisher and a subscription it has discovered
  dropped,   \* those of a public publisher and a Subscriber that gave a subscription
             \* up, of which the middleware has still to tell the publisher
  next,      \* the number of the next message
  pending,   \* Publisher::pending_message_, 0 if null
  sending,   \* publish_now of each publisher: its step, its message, what it read
  queue,     \* messages that wait in the two subscriptions of each Subscriber
  heard,     \* the latest message of each publisher that each callback was given
  owed       \* the last message of each publisher, and who must get it

messages == <<next, pending, sending, queue, heard>>
deliveryVars == <<vars, scenario, matched, dropped, messages, owed>>

\* The subscriptions of a Subscriber.
Ways == {"local", "public"}

Idle == [step |-> "idle", number |-> 0, local |-> FALSE, public |-> FALSE]

OnTopic(o, r) == BaseTopic[StreamOf[o]] = BaseTopic[StreamOf[r]]

\* A subscriber that must get what p publishes now: a live one of p's stream if p
\* is the publisher it has to follow, and no other is just going; one of another
\* adapter type if no publisher has its type and p has discovered it.
Leaving(p) == pc[p] \notin {"absent", "register", "up"} /\ p \notin publishers

Reachable(p, s) ==
  /\ pc[p] = "up" /\ pc[s] = "live"
  /\ \/ /\ StreamOf[s] = StreamOf[p]
        /\ FrontTopic(StreamOf[p]) = token[p]
        /\ \A q \in Publishers : StreamOf[q] = StreamOf[p] => ~Leaving(q)
     \/ StreamOf[s] # StreamOf[p] /\ <<p, s>> \in matched

StillOwed == [p \in Publishers |-> [owed[p] EXCEPT !.to = {s \in @ : Reachable(p, s)'}]]

--------------------------------------------------------------------------------
DeliveryInit ==
  /\ Init
  /\ scenario \in Scenarios
  /\ matched = {}
  /\ dropped = {}
  /\ next = 1
  /\ pending = [p \in Publishers |-> 0]
  /\ sending = [p \in Publishers |-> Idle]
  /\ queue = [s \in Subscribers |-> [path \in Ways |-> <<>>]]
  /\ heard = [s \in Subscribers |-> [p \in Publishers |-> 0]]
  /\ owed = [p \in Publishers |-> [number |-> 0, to |-> {}]]

\* A subscription takes its queue with it; create_local_subscription replaces one.
KeepsLocal(s) ==
  /\ subscription'[s].local = subscription[s].local
  /\ \A o \in Owners : refreshing[o].sub = s /\ pc[o] = "switch" => pc'[o] # "adopt"
KeepsPublic(s) == subscription'[s].public

Keeps(s, path) ==
  \/ path = "local" /\ KeepsLocal(s)
  \/ path = "public" /\ KeepsPublic(s)

KeptQueue(s) == [path \in Ways |-> IF Keeps(s, path) THEN queue[s][path] ELSE <<>>]

\* The public subscriptions that a step gives up get no message any more, yet a
\* publisher counts them until it is told.
Unmatched ==
  {ps \in Publishers \X Subscribers :
     /\ scenario.calls > 0 /\ OnTopic(ps[1], ps[2])
     /\ subscription[ps[2]].public /\ ~KeepsPublic(ps[2])}

\* A step of AdaptedSubscription.  shutdown() drops the pending message first and
\* the public publisher last.
Switch ==
  /\ Next
  /\ nextToken' <= scenario.tokens + 1
  /\ \A s \in Subscribers \ scenario.subscribers : pc'[s] = "absent"
  /\ \A s \in Subscribers \ scenario.leaving : pc'[s] # "drop"
  /\ \A p \in Publishers : sending[p] # Idle => pc'[p] = "up"
  /\ pending' = [p \in Publishers |-> IF pc'[p] = "up" THEN pending[p] ELSE 0]
  /\ queue' = [s \in Subscribers |-> KeptQueue(s)]
  /\ matched' = {ps \in matched : pc'[ps[1]] # "absent" /\ KeepsPublic(ps[2])}
  /\ dropped' = dropped \cup Unmatched
  /\ owed' = StillOwed
  /\ UNCHANGED <<scenario, next, sending, heard>>

\* The middleware tells a public publisher of a subscription, which matters to
\* nobody who publishes nothing.
Match(p, s) ==
  /\ pc[p] # "absent" /\ subscription[s].public /\ OnTopic(p, s)
  /\ scenario.calls > 0
  /\ matched' = matched \cup {<<p, s>>}
  /\ UNCHANGED <<vars, scenario, dropped, messages, owed>>

\* The middleware tells it of the end of one, or an executor lets go of it.
Unmatch(p, s) ==
  /\ <<p, s>> \in dropped
  /\ dropped' = dropped \ {<<p, s>>}
  /\ UNCHANGED <<vars, scenario, matched, messages, owed>>

--------------------------------------------------------------------------------
\* publish(): the message replaces one that is still pending.
Publish(p) ==
  /\ pc[p] = "up" /\ next <= scenario.calls
  /\ pending' = [pending EXCEPT ![p] = next]
  /\ next' = next + 1
  /\ owed' = [owed EXCEPT ![p] =
       [number |-> next, to |-> {s \in Subscribers : Reachable(p, s)}]]
  /\ UNCHANGED <<vars, scenario, matched, dropped, sending, queue, heard>>

CopiedOut(p) == pending
MovedOut(p) == [pending EXCEPT ![p] = 0]

\* getNumLocalSubscribers counts interests, whatever path their subscribers are on.
HasLocal(p) == Interested(p) # {}

\* drain_pending_publish, and publish_now up to its first count: no step of others
\* between the two matters to either.
Drain(p) ==
  /\ pc[p] = "up" /\ sending[p] = Idle /\ pending[p] # 0
  /\ sending' = [sending EXCEPT ![p] =
       [step |-> "count_public", number |-> pending[p], local |-> HasLocal(p),
        public |-> FALSE]]
  /\ pending' = MovedOut(p)
  /\ UNCHANGED <<vars, scenario, matched, dropped, next, queue, heard, owed>>

\* getNumPublicSubscribers counts the discovered subscriptions, and possibly those
\* whose end the publisher has not been told of.
HasPublic(p) == \E s \in Subscribers : <<p, s>> \in matched
HasDropped(p) == \E s \in Subscribers : <<p, s>> \in dropped

CountPublic(p) ==
  /\ sending[p].step = "count_public"
  /\ \E counted \in {HasPublic(p), HasPublic(p) \/ HasDropped(p)} :
       sending' = [sending EXCEPT ![p].step = "send_public", ![p].public = counted]
  /\ UNCHANGED <<vars, scenario, matched, dropped, next, pending, queue, heard, owed>>

\* The message of p joins the queue of every subscriber in a set.
Send(p, path, to) ==
  queue' = [s \in Subscribers |-> IF s \in to
    THEN [queue[s] EXCEPT ![path] = Append(@, [from |-> p, number |-> sending[p].number])]
    ELSE queue[s]]

SendPublic(p) ==
  /\ sending[p].step = "send_public"
  /\ Send(p, "public", {s \in Subscribers : sending[p].public /\ <<p, s>> \in matched})
  /\ sending' = [sending EXCEPT ![p].step = "send_local"]
  /\ UNCHANGED <<vars, scenario, matched, dropped, next, pending, heard, owed>>

EitherPath(p) == sending[p].local /\ ~sending[p].public
ToLocal(p) == sending[p].local

SendLocal(p) ==
  /\ sending[p].step = "send_local"
  /\ Send(p, "local", {s \in Subscribers : ToLocal(p) /\ subscription[s].local = token[p]})
  /\ sending' = [sending EXCEPT ![p] = Idle]
  /\ UNCHANGED <<vars, scenario, matched, dropped, next, pending, heard, owed>>

\* The lambdas that create_local_subscription and create_public_subscription make
\* call the user's callback, the second one after a conversion.
Hear(s, path) ==
  /\ queue[s][path] # <<>>
  /\ LET m == Head(queue[s][path]) IN
       heard' = [heard EXCEPT ![s][m.from] = m.number]
  /\ queue' = [queue EXCEPT ![s][path] = Tail(@)]
  /\ UNCHANGED <<vars, scenario, matched, dropped, next, pending, sending, owed>>

HearLocal(s) == Hear(s, "local")
HearPublic(s) == Hear(s, "public")

DeliveryNext ==
  \/ Switch
  \/ \E p \in Publishers, s \in Subscribers : Match(p, s) \/ Unmatch(p, s)
  \/ \E p \in Publishers :
       \/ Publish(p) \/ Drain(p) \/ CountPublic(p)
       \/ SendPublic(p) \/ SendLocal(p)
  \/ \E s \in Subscribers : HearLocal(s) \/ HearPublic(s)

DeliverySpec == DeliveryInit /\ [][DeliveryNext]_deliveryVars /\ Fairness

--------------------------------------------------------------------------------
InQueues(s) == UNION {Range(queue[s][path]) : path \in Ways}

\* Nothing is delivered twice, over whichever paths, and no message of a publisher
\* behind a later one of it: what waits for a subscriber is newer than what its
\* callback was given, waits once, and in the order of its publisher.
HeardOnceInOrder ==
  \A s \in Subscribers :
    /\ \A m \in InQueues(s) : m.number > heard[s][m.from]
    /\ Range(queue[s]["local"]) \cap Range(queue[s]["public"]) = {}
    /\ \A path \in Ways : \A i, j \in DOMAIN queue[s][path] :
         i < j /\ queue[s][path][i].from = queue[s][path][j].from =>
           queue[s][path][i].number < queue[s][path][j].number

\* The last message of a publisher reaches everybody who had to get it when it was
\* published and still has to, from the first one after the constructor of the
\* publisher on: the registry has moved every subscriber by then, and what is sent
\* on one path is not withheld from the other.
LatestArrives ==
  \A p \in Publishers : pending[p] = 0 /\ sending[p] = Idle =>
    \A s \in owed[p].to :
      \/ heard[s][p] = owed[p].number
      \/ [from |-> p, number |-> owed[p].number] \in InQueues(s)

\* The subscriptions of p's own adapter type that p may still count.
LocalsDropped(p) == {s \in Subscribers : StreamOf[s] = StreamOf[p] /\ <<p, s>> \in dropped}

\* A subscriber that can be local costs publish_now no conversion for the public
\* topic once the publisher has been told that it left: what is counted is of
\* another adapter type or was given up, and while a publisher is up it gets no
\* further subscription of its own type to be told of, however subscribers switch.
NoConversionOnceUnmatched ==
  [][\A p \in Publishers :
       /\ ~sending[p].public /\ sending'[p].public =>
            \/ HasDropped(p)
            \/ \E s \in Subscribers : <<p, s>> \in matched /\ StreamOf[s] # StreamOf[p]
       /\ pc[p] = "up" /\ pc'[p] = "up" =>
            LocalsDropped(p)' \subseteq LocalsDropped(p)]_deliveryVars
================================================================================
