---------------------------- MODULE AdaptedPublish ----------------------------
(***************************************************************************)
(* The publish path of an adapted publisher: callers in any thread store   *)
(* the latest message and wake a timer, the executor drains it and         *)
(* publishes on the public transport and on the private topic; or, if      *)
(* async_publish is false, every caller publishes itself.                  *)
(*                                                                         *)
(* Messages are numbered in the order in which publish() takes them.       *)
(***************************************************************************)
EXTENDS Integers, Sequences

CONSTANTS
  Callers,      \* threads that call publish()
  Executor,     \* the thread in which the executor runs the timer
  MaxMessages   \* bound: calls of publish()

ASSUME PublishAssumption ==
  /\ Executor \notin Callers
  /\ MaxMessages \in Nat

Threads == Callers \cup {Executor}

VARIABLES
  async,        \* Publisher::async_publish_
  alone,        \* shutdown() overlaps no publish_now and no timer callback
  pc,           \* what each thread does next
  next,         \* the number of the next message
  pending,      \* Publisher::pending_message_, 0 if null
  timer,        \* publish_timer_: "armed" or "canceled"
  message,      \* the message in publish_now of each thread, 0 if none
  seen,         \* what publish_now of each thread has read of the subscribers
  peers,        \* whether subscribers of either kind exist
  stage,        \* how far shutdown() has come
  sent,         \* the messages sent on either path
  handled       \* the latest message publish_now has returned from

options == <<async, alone>>
vars == <<options, pc, next, pending, timer, message, seen, peers, stage, sent, handled>>

Routes == {"public", "local"}
Stages == {"up", "clear", "withdraw", "reset", "down"}
Numbers == 0..MaxMessages

\* May shutdown() begin, or publish_now while shutdown() runs?
NobodyPublishes == \A t \in Threads : pc[t] \in {"idle", "wake"}
ShutdownMayBegin == alone => NobodyPublishes
PublishMayBegin == alone => stage \in {"up", "down"}

Goto(t, label) == pc' = [pc EXCEPT ![t] = label]

\* The constructor cancels the timer it creates.
Init ==
  /\ async \in BOOLEAN /\ alone \in BOOLEAN
  /\ pc = [t \in Threads |-> "idle"]
  /\ next = 1 /\ pending = 0 /\ timer = "canceled"
  /\ message = [t \in Threads |-> 0]
  /\ seen = [t \in Threads |-> [r \in Routes |-> FALSE]]
  /\ peers \in [Routes -> BOOLEAN]
  /\ stage = "up"
  /\ sent = [r \in Routes |-> <<>>]
  /\ handled = 0

--------------------------------------------------------------------------------
\* publish() when async_publish_: the latest message replaces a pending one.
Enqueue(t) ==
  /\ async /\ pc[t] = "idle" /\ next <= MaxMessages
  /\ pending' = next
  /\ next' = next + 1
  /\ Goto(t, "wake")
  /\ UNCHANGED <<options, timer, message, seen, peers, stage, sent, handled>>

WakeIdleExecutor == IF pc[Executor] = "idle" THEN "armed" ELSE timer
Woken == "armed"

WakeTimer(t) ==
  /\ pc[t] = "wake"
  /\ timer' = Woken
  /\ Goto(t, "idle")
  /\ UNCHANGED <<options, next, pending, message, seen, peers, stage, sent, handled>>

\* publish() otherwise.
PublishDirectly(t) ==
  /\ PublishMayBegin
  /\ ~async /\ pc[t] = "idle" /\ next <= MaxMessages
  /\ message' = [message EXCEPT ![t] = next]
  /\ next' = next + 1
  /\ Goto(t, "count_local")
  /\ UNCHANGED <<options, pending, timer, seen, peers, stage, sent, handled>>

\* drain_pending_publish.  The period of 1 ns has always elapsed, and the
\* default callback group keeps a second call out.
TimerFires ==
  /\ PublishMayBegin
  /\ timer = "armed" /\ pc[Executor] = "idle"
  /\ Goto(Executor, "cancel")
  /\ UNCHANGED <<options, next, pending, timer, message, seen, peers, stage, sent, handled>>

CancelTimer ==
  /\ pc[Executor] = "cancel"
  /\ timer' = "canceled"
  /\ Goto(Executor, "take")
  /\ UNCHANGED <<options, next, pending, message, seen, peers, stage, sent, handled>>

StillPending == pending
MovedOut == 0

WithoutTest == "count_local"
AfterTake == IF pending = 0 THEN "idle" ELSE "count_local"

TakePending ==
  /\ pc[Executor] = "take"
  /\ message' = [message EXCEPT ![Executor] = pending]
  /\ pending' = MovedOut
  /\ Goto(Executor, AfterTake)
  /\ UNCHANGED <<options, next, timer, seen, peers, stage, sent, handled>>

--------------------------------------------------------------------------------
\* publish_now.  The registry keeps the interests when a publisher unregisters; a
\* public publisher that is shut down counts nobody.
CountLocal(t) ==
  /\ pc[t] = "count_local"
  /\ seen' = [seen EXCEPT ![t]["local"] = peers["local"]]
  /\ Goto(t, "count_public")
  /\ UNCHANGED <<options, next, pending, timer, message, peers, stage, sent, handled>>

Advertised == stage \in {"up", "clear", "withdraw"}

CountPublic(t) ==
  /\ pc[t] = "count_public"
  /\ seen' = [seen EXCEPT ![t]["public"] = peers["public"] /\ Advertised]
  /\ Goto(t, "send_public")
  /\ UNCHANGED <<options, next, pending, timer, message, peers, stage, sent, handled>>

SendPublic(t) ==
  /\ pc[t] = "send_public"
  /\ sent' = IF seen[t]["public"] /\ Advertised
               THEN [sent EXCEPT !["public"] = Append(@, message[t])] ELSE sent
  /\ Goto(t, "send_local")
  /\ UNCHANGED <<options, next, pending, timer, message, seen, peers, stage, handled>>

\* The test of adapted_publisher_ and its use are two accesses; a use of the null
\* pointer ends the process, here the thread stays where it is.
ReadIsEnough(t) == seen[t]["local"]
HasPrivate(t) == seen[t]["local"] /\ stage # "down"

Return(t) ==
  /\ handled' = IF message[t] > handled THEN message[t] ELSE handled
  /\ message' = [message EXCEPT ![t] = 0]
  /\ Goto(t, "idle")
  /\ UNCHANGED <<options, next, pending, timer, seen, peers, stage>>

TestPrivate(t) ==
  /\ pc[t] = "send_local"
  /\ HasPrivate(t)
  /\ Goto(t, "use_private")
  /\ UNCHANGED <<options, next, pending, timer, message, seen, peers, stage, sent, handled>>

SkipPrivate(t) ==
  /\ pc[t] = "send_local"
  /\ ~HasPrivate(t)
  /\ UNCHANGED sent
  /\ Return(t)

SendLocal(t) ==
  /\ pc[t] = "use_private"
  /\ stage # "down"
  /\ sent' = [sent EXCEPT !["local"] = Append(@, message[t])]
  /\ Return(t)

--------------------------------------------------------------------------------
\* shutdown(), called by a thread of its own.
ShutdownCancels ==
  /\ ShutdownMayBegin
  /\ stage = "up"
  /\ timer' = "canceled"
  /\ stage' = "clear"
  /\ UNCHANGED <<options, pc, next, pending, message, seen, peers, sent, handled>>

ShutdownClears ==
  /\ stage = "clear"
  /\ pending' = 0
  /\ stage' = "withdraw"
  /\ UNCHANGED <<options, pc, next, timer, message, seen, peers, sent, handled>>

ShutdownWithdraws ==
  /\ stage = "withdraw"
  /\ stage' = "reset"
  /\ UNCHANGED <<options, pc, next, pending, timer, message, seen, peers, sent, handled>>

ShutdownResets ==
  /\ stage = "reset"
  /\ stage' = "down"
  /\ UNCHANGED <<options, pc, next, pending, timer, message, seen, peers, sent, handled>>

\* Subscribers of either kind come and go.
PeersChange ==
  /\ peers' \in [Routes -> BOOLEAN]
  /\ UNCHANGED <<options, pc, next, pending, timer, message, seen, stage, sent, handled>>

--------------------------------------------------------------------------------
PublishNow(t) ==
  \/ CountLocal(t) \/ CountPublic(t) \/ SendPublic(t)
  \/ TestPrivate(t) \/ SkipPrivate(t) \/ SendLocal(t)
Drain == TimerFires \/ CancelTimer \/ TakePending
Shutdown == ShutdownCancels \/ ShutdownClears \/ ShutdownWithdraws \/ ShutdownResets

Next ==
  \/ \E t \in Callers : Enqueue(t) \/ WakeTimer(t) \/ PublishDirectly(t)
  \/ \E t \in Threads : PublishNow(t)
  \/ Drain
  \/ Shutdown
  \/ PeersChange

Spec == Init /\ [][Next]_vars

\* publish() returns, and the node is spun: the executor runs the timer when it
\* is armed, and its callback to the end.
FairSpec ==
  /\ Spec
  /\ \A t \in Callers : WF_vars(WakeTimer(t))
  /\ WF_vars(Drain \/ PublishNow(Executor))

--------------------------------------------------------------------------------
\* Every variable has its type, only the executor works on messages of an
\* asynchronous publisher, and publish_now always has a message.
TypeOK ==
  /\ async \in BOOLEAN /\ alone \in BOOLEAN
  /\ pc \in [Threads -> {"idle", "wake", "cancel", "take", "count_local",
                         "count_public", "send_public", "send_local", "use_private"}]
  /\ next \in 1..(MaxMessages + 1)
  /\ pending \in Numbers /\ timer \in {"armed", "canceled"}
  /\ message \in [Threads -> Numbers]
  /\ seen \in [Threads -> [Routes -> BOOLEAN]] /\ peers \in [Routes -> BOOLEAN]
  /\ stage \in Stages
  /\ sent \in [Routes -> Seq(Numbers)] /\ handled \in Numbers
  /\ \A t \in Threads : message[t] = 0 <=> pc[t] \in {"idle", "wake", "cancel", "take"}
  /\ async => \A t \in Callers : pc[t] \in {"idle", "wake"}

\* A pending message is never forgotten: the timer is armed, or a caller is about
\* to arm it, or the executor is about to take it.  No wake-up is lost between
\* the two locks of enqueue_publish and of drain_pending_publish.
PendingIsScheduled ==
  pending # 0 /\ stage = "up" =>
    \/ timer = "armed"
    \/ \E t \in Callers : pc[t] = "wake"
    \/ pc[Executor] \in {"cancel", "take"}

\* An asynchronous publisher sends its messages in the order of the calls of
\* publish, each at most once on either path, whatever it drops in between.
SentInOrder ==
  async => \A r \in Routes : \A i, j \in DOMAIN sent[r] :
             i < j => sent[r][i] < sent[r][j]

\* If nothing publishes while shutdown() runs, publish_now uses the private
\* publisher only while there is one: a message that is enqueued around the
\* shutdown, and drained after it, meets the null pointer and is not sent.
PrivateIsHeld ==
  alone => \A t \in Threads : pc[t] = "use_private" => stage # "down"

\* The latest message given to an asynchronous publisher is published, without a
\* further call, unless the publisher is shut down or a later one takes its place.
LatestIsPublished ==
  \A n \in 1..MaxMessages :
    (async /\ pending = n) ~> (handled >= n \/ pending > n \/ stage # "up")
================================================================================
