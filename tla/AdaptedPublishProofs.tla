-------------------------- MODULE AdaptedPublishProofs --------------------------
(***************************************************************************)
(* Theorems about the publish path of an adapted publisher, for any number *)
(* of calling threads and of messages.                                     *)
(***************************************************************************)
EXTENDS AdaptedPublish, TLAPS

Labels == {"idle", "wake", "cancel", "take", "count_local",
           "count_public", "send_public", "send_local", "use_private"}

\* Where a thread stands while it has no message to publish.
Outside == {"idle", "wake", "cancel", "take"}

\* The labels of publish_now before it sends on the public transport.
BeforePublic == {"count_local", "count_public", "send_public"}

\* What an asynchronous publisher has not sent yet on either path: the message
\* its executor holds follows everything sent on the paths it still has to take,
\* the pending message follows that one, and the next follows all.
OrderInv ==
  async =>
    /\ pending < next /\ message[Executor] < next
    /\ pending # 0 => message[Executor] < pending
    /\ \A r \in Routes : \A i \in DOMAIN sent[r] :
         /\ sent[r][i] < next
         /\ pending # 0 => sent[r][i] < pending
         /\ message[Executor] # 0 => sent[r][i] <= message[Executor]
         /\ (message[Executor] # 0 /\ (r = "public" => pc[Executor] \in BeforePublic))
              => sent[r][i] < message[Executor]

\* While a shutdown that nothing overlaps is under way, nobody is inside
\* publish_now; once it is over, nobody comes past the test of the pointer.
AloneInv ==
  alone =>
    /\ stage \notin {"up", "down"} => NobodyPublishes
    /\ stage = "down" => \A t \in Threads : pc[t] # "use_private"

--------------------------------------------------------------------------------
\* One thread moves to a label, every other one stays.
LEMMA Moved ==
  ASSUME TypeOK, NEW t \in Threads, NEW label \in Labels, Goto(t, label)
  PROVE  /\ pc' \in [Threads -> Labels]
         /\ pc'[t] = label
         /\ \A u \in Threads \ {t} : pc'[u] = pc[u]
  <1>1. pc \in [Threads -> Labels]
    BY DEF TypeOK, Labels
  <1> QED
    BY <1>1 DEF Goto

\* The executor is no caller, and an asynchronous publisher leaves the publishing
\* to it.
LEMMA OnlyExecutorPublishes ==
  ASSUME TypeOK, async, NEW t \in Threads, pc[t] \notin {"idle", "wake"}
  PROVE  t = Executor
  BY DEF TypeOK, Threads

LEMMA ExecutorIsThread == Executor \in Threads /\ Callers \subseteq Threads
                          /\ \A t \in Callers : t # Executor
  BY PublishAssumption DEF Threads

\* What a thread learns of the subscribers of one kind keeps the table a table.
LEMMA SeenStaysTable ==
  ASSUME NEW s \in [Threads -> [Routes -> BOOLEAN]], NEW t \in Threads,
         NEW r \in Routes, NEW b \in BOOLEAN
  PROVE  [s EXCEPT ![t][r] = b] \in [Threads -> [Routes -> BOOLEAN]]
  <1> DEFINE row == [s[t] EXCEPT ![r] = b]
  <1>1. s[t] \in [Routes -> BOOLEAN]
    BY Zenon
  <1>2. row \in [Routes -> BOOLEAN]
    BY <1>1, Zenon
  <1> HIDE DEF row
  <1>3. [s EXCEPT ![t] = row] \in [Threads -> [Routes -> BOOLEAN]]
    BY <1>2, Zenon
  <1>4. [s EXCEPT ![t][r] = b] = [s EXCEPT ![t] = row]
    BY Zenon DEF row
  <1> QED
    BY <1>3, <1>4

\* What is sent on one path is appended to the history of that path.
LEMMA Appended ==
  ASSUME TypeOK, NEW t \in Threads, NEW r \in Routes,
         sent' = [sent EXCEPT ![r] = Append(@, message[t])]
  PROVE  /\ sent' \in [Routes -> Seq(Numbers)]
         /\ \A q \in Routes \ {r} : sent'[q] = sent[q]
         /\ sent'[r] = Append(sent[r], message[t])
  <1>1. sent \in [Routes -> Seq(Numbers)] /\ message[t] \in Numbers
    BY DEF TypeOK
  <1>2. sent[r] \in Seq(Numbers)
    BY <1>1
  <1>3. sent'[r] = Append(sent[r], message[t])
    BY <1>1
  <1>4. Append(sent[r], message[t]) \in Seq(Numbers)
    BY <1>1, <1>2
  <1>5. sent' \in [Routes -> Seq(Numbers)]
    BY <1>1, <1>4
  <1>6. \A q \in Routes \ {r} : sent'[q] = sent[q]
    BY <1>1
  <1> QED
    BY <1>1, <1>2, <1>3, <1>5, <1>6

LEMMA NumbersAreNat ==
  ASSUME NEW s \in Seq(Numbers)
  PROVE  s \in Seq(Nat)
  <1>1. Numbers \subseteq Nat
    BY PublishAssumption DEF Numbers
  <1>2. PICK n \in Nat : s \in [1..n -> Numbers]
    OBVIOUS
  <1>3. s \in [1..n -> Nat]
    BY <1>1, <1>2
  <1> QED
    BY <1>3

\* A number above all of a rising sequence can be appended to it.
LEMMA RisesOn ==
  ASSUME NEW s \in Seq(Nat), NEW m \in Nat, \A i \in DOMAIN s : s[i] < m,
         \A i, j \in DOMAIN s : i < j => s[i] < s[j]
  PROVE  /\ \A i \in DOMAIN Append(s, m) : Append(s, m)[i] <= m
         /\ \A i, j \in DOMAIN Append(s, m) : i < j => Append(s, m)[i] < Append(s, m)[j]
  <1> DEFINE q == Append(s, m)
             n == Len(s) + 1
  <1>1. /\ n \in Nat /\ DOMAIN q = 1..n /\ DOMAIN s = 1..(n - 1)
        /\ q[n] = m /\ \A i \in 1..(n - 1) : q[i] = s[i]
    OBVIOUS
  <1>2. \A i \in DOMAIN s : s[i] \in Nat
    OBVIOUS
  <1> HIDE DEF q, n
  <1>3. \A i \in 1..n : i = n \/ i \in 1..(n - 1)
    BY <1>1
  <1>4. \A i \in 1..n : q[i] <= m
    <2>1. \A i \in 1..(n - 1) : s[i] < m /\ q[i] = s[i] /\ s[i] \in Nat
      BY <1>1, <1>2
    <2> QED
      BY <1>1, <1>3, <2>1
  <1>5. ASSUME NEW i \in 1..n, NEW j \in 1..n, i < j PROVE q[i] < q[j]
    <2>1. i \in 1..(n - 1)
      BY <1>1, <1>5
    <2>2. q[i] = s[i] /\ i \in DOMAIN s
      BY <1>1, <2>1
    <2>3. CASE j = n
      BY <1>1, <2>2, <2>3
    <2>4. CASE j \in 1..(n - 1)
      <3>1. q[j] = s[j] /\ j \in DOMAIN s
        BY <1>1, <2>4
      <3> QED
        BY <1>5, <2>2, <3>1
    <2> QED
      BY <1>3, <2>3, <2>4
  <1>6. /\ \A i \in DOMAIN q : q[i] <= m
        /\ \A i, j \in DOMAIN q : i < j => q[i] < q[j]
    BY <1>1, <1>4, <1>5
  <1> QED
    BY <1>6 DEF q

\* Every variable has its type; only the executor works on the messages of an
\* asynchronous publisher; a thread has a message exactly while it is in
\* publish_now.
THEOREM TypeCorrect == Spec => []TypeOK
  <1>1. Init => TypeOK
    <2> SUFFICES ASSUME Init PROVE TypeOK
      OBVIOUS
    <2>1. 0 \in Numbers /\ 1 \in 1..(MaxMessages + 1)
      BY PublishAssumption DEF Numbers
    <2>2. sent \in [Routes -> Seq(Numbers)]
      BY DEF Init
    <2> QED
      BY <2>1, <2>2, ExecutorIsThread, Zenon DEF Init, TypeOK, Stages
  <1>2. TypeOK /\ [Next]_vars => TypeOK'
    <2> SUFFICES ASSUME TypeOK, [Next]_vars PROVE TypeOK'
      OBVIOUS
    <2> USE ExecutorIsThread
    <2>0. /\ pc \in [Threads -> Labels] /\ message \in [Threads -> Numbers]
          /\ next \in 1..(MaxMessages + 1) /\ 0 \in Numbers
          /\ sent \in [Routes -> Seq(Numbers)]
          /\ next <= MaxMessages => next \in Numbers /\ next + 1 \in 1..(MaxMessages + 1)
      BY PublishAssumption DEF TypeOK, Labels, Numbers
    <2>1. ASSUME NEW t \in Callers, Enqueue(t) PROVE TypeOK'
      <3>1. /\ pc' \in [Threads -> Labels] /\ pc'[t] = "wake"
            /\ \A u \in Threads \ {t} : pc'[u] = pc[u]
        BY <2>1, Moved DEF Enqueue, Labels
      <3>2. next' \in 1..(MaxMessages + 1) /\ pending' \in Numbers
        BY <2>0, <2>1 DEF Enqueue
      <3> QED
        BY <2>1, <3>1, <3>2 DEF Enqueue, options, TypeOK, Labels
    <2>2. ASSUME NEW t \in Callers, WakeTimer(t) PROVE TypeOK'
      <3>1. /\ pc' \in [Threads -> Labels] /\ pc'[t] = "idle"
            /\ \A u \in Threads \ {t} : pc'[u] = pc[u]
        BY <2>2, Moved DEF WakeTimer, Labels
      <3> QED
        BY <2>2, <3>1 DEF WakeTimer, Woken, options, TypeOK, Labels
    <2>3. ASSUME NEW t \in Callers, PublishDirectly(t) PROVE TypeOK'
      <3>1. /\ pc' \in [Threads -> Labels] /\ pc'[t] = "count_local"
            /\ \A u \in Threads \ {t} : pc'[u] = pc[u]
        BY <2>3, Moved DEF PublishDirectly, Labels
      <3>2. /\ next' \in 1..(MaxMessages + 1)
            /\ message' \in [Threads -> Numbers] /\ message'[t] # 0
            /\ \A u \in Threads \ {t} : message'[u] = message[u]
        BY <2>0, <2>3 DEF PublishDirectly
      <3> QED
        BY <2>3, <3>1, <3>2 DEF PublishDirectly, options, TypeOK, Labels
    <2>4. CASE TimerFires \/ CancelTimer
      <3>1. PICK label \in {"cancel", "take"} : Goto(Executor, label)
        BY <2>4 DEF TimerFires, CancelTimer
      <3>2. /\ pc' \in [Threads -> Labels] /\ pc'[Executor] = label
            /\ \A u \in Threads \ {Executor} : pc'[u] = pc[u]
        BY <3>1, Moved DEF Labels
      <3>3. pc[Executor] \in Outside
        BY <2>4 DEF TimerFires, CancelTimer, Outside
      <3>4. UNCHANGED <<options, next, pending, message, seen, peers, stage, sent, handled>>
            /\ timer' \in {"armed", "canceled"}
        BY <2>4 DEF TimerFires, CancelTimer, TypeOK
      <3> QED
        BY <3>1, <3>2, <3>3, <3>4 DEF options, TypeOK, Labels, Outside
    <2>5. CASE TakePending
      <3>1. AfterTake \in Labels /\ (AfterTake = "idle" <=> pending = 0)
            /\ (AfterTake = "count_local" <=> pending # 0)
        BY DEF AfterTake, Labels
      <3>2. /\ pc' \in [Threads -> Labels] /\ pc'[Executor] = AfterTake
            /\ \A u \in Threads \ {Executor} : pc'[u] = pc[u]
        BY <2>5, <3>1, Moved DEF TakePending
      <3>3. /\ message' \in [Threads -> Numbers] /\ message'[Executor] = pending
            /\ \A u \in Threads \ {Executor} : message'[u] = message[u]
        BY <2>0, <2>5 DEF TakePending, TypeOK
      <3> QED
        BY <2>0, <2>5, <3>1, <3>2, <3>3 DEF TakePending, MovedOut, options, TypeOK, Labels
    <2>6. ASSUME NEW t \in Threads, CountLocal(t) \/ CountPublic(t) \/ TestPrivate(t)
          PROVE  TypeOK'
      <3>1. PICK label \in {"count_public", "send_public", "use_private"} :
               Goto(t, label)
        BY <2>6 DEF CountLocal, CountPublic, TestPrivate
      <3>2. /\ pc' \in [Threads -> Labels] /\ pc'[t] = label
            /\ \A u \in Threads \ {t} : pc'[u] = pc[u]
        BY <3>1, Moved DEF Labels
      <3>3. pc[t] \notin Outside
        BY <2>6 DEF CountLocal, CountPublic, TestPrivate, Outside
      <3>4. seen' \in [Threads -> [Routes -> BOOLEAN]]
        <4>1. /\ seen \in [Threads -> [Routes -> BOOLEAN]]
              /\ peers["local"] \in BOOLEAN /\ (peers["public"] /\ Advertised) \in BOOLEAN
              /\ "local" \in Routes /\ "public" \in Routes
          BY Zenon DEF TypeOK, Routes, Advertised
        <4>2. CASE CountLocal(t)
          BY <4>1, <4>2, SeenStaysTable, Zenon DEF CountLocal
        <4>3. CASE CountPublic(t)
          BY <4>1, <4>3, SeenStaysTable, Zenon DEF CountPublic
        <4>4. CASE TestPrivate(t)
          BY <4>1, <4>4, Zenon DEF TestPrivate
        <4> QED
          BY <2>6, <4>2, <4>3, <4>4
      <3>5. UNCHANGED <<options, next, pending, timer, message, peers, stage, sent, handled>>
        BY <2>6 DEF CountLocal, CountPublic, TestPrivate
      <3> QED
        BY <3>1, <3>2, <3>3, <3>4, <3>5 DEF options, TypeOK, Labels, Outside
    <2>7. ASSUME NEW t \in Threads, SendPublic(t) PROVE TypeOK'
      <3>1. /\ pc' \in [Threads -> Labels] /\ pc'[t] = "send_local"
            /\ \A u \in Threads \ {t} : pc'[u] = pc[u]
        BY <2>7, Moved DEF SendPublic, Labels
      <3>2. sent' \in [Routes -> Seq(Numbers)]
        BY <2>0, <2>7, Appended DEF SendPublic, Routes
      <3> QED
        BY <2>7, <3>1, <3>2 DEF SendPublic, options, TypeOK, Labels
    <2>8. ASSUME NEW t \in Threads, SkipPrivate(t) \/ SendLocal(t) PROVE TypeOK'
      <3>1. Return(t) /\ pc[t] \notin Outside
        BY <2>8 DEF SkipPrivate, SendLocal, Outside
      <3>2. /\ pc' \in [Threads -> Labels] /\ pc'[t] = "idle"
            /\ \A u \in Threads \ {t} : pc'[u] = pc[u]
        BY <3>1, Moved DEF Return, Labels
      <3>3. /\ message' \in [Threads -> Numbers] /\ message'[t] = 0
            /\ \A u \in Threads \ {t} : message'[u] = message[u]
        BY <2>0, <3>1 DEF Return
      <3>4. handled' \in Numbers
        BY <2>0, <3>1 DEF Return, TypeOK
      <3>5. sent' \in [Routes -> Seq(Numbers)]
        BY <2>0, <2>8, Appended DEF SkipPrivate, SendLocal, Routes
      <3>6. UNCHANGED <<options, next, pending, timer, seen, peers, stage>>
        BY <3>1 DEF Return
      <3> QED
        BY <3>1, <3>2, <3>3, <3>4, <3>5, <3>6 DEF options, TypeOK, Labels, Outside
    <2>9. CASE Shutdown \/ PeersChange
      <3>1. UNCHANGED <<options, pc, next, message, seen, sent, handled>>
        BY <2>9 DEF Shutdown, ShutdownCancels, ShutdownClears, ShutdownWithdraws,
                    ShutdownResets, PeersChange
      <3>2. /\ pending' \in Numbers /\ timer' \in {"armed", "canceled"}
            /\ stage' \in Stages /\ peers' \in [Routes -> BOOLEAN]
        BY <2>0, <2>9 DEF Shutdown, ShutdownCancels, ShutdownClears, ShutdownWithdraws,
                          ShutdownResets, PeersChange, TypeOK, Stages
      <3> QED
        BY <3>1, <3>2 DEF options, TypeOK
    <2>10. CASE UNCHANGED vars
      BY <2>10 DEF vars, options, TypeOK
    <2> QED
      BY <2>1, <2>2, <2>3, <2>4, <2>5, <2>6, <2>7, <2>8, <2>9, <2>10
      DEF Next, PublishNow, Drain
  <1> QED
    BY <1>1, <1>2, PTL DEF Spec

--------------------------------------------------------------------------------
\* No wake-up is lost between the two locks of enqueue_publish and of
\* drain_pending_publish: a pending message always has a timer, a caller or the
\* executor that sees to it.
THEOREM WakeUpsAreKept == Spec => []PendingIsScheduled
  <1>1. Init => PendingIsScheduled
    BY DEF Init, PendingIsScheduled
  <1>2. TypeOK /\ PendingIsScheduled /\ [Next]_vars => PendingIsScheduled'
    <2> SUFFICES ASSUME TypeOK, PendingIsScheduled, [Next]_vars PROVE PendingIsScheduled'
      OBVIOUS
    <2> USE ExecutorIsThread
    <2>1. ASSUME NEW t \in Callers, Enqueue(t) PROVE PendingIsScheduled'
      <3>1. pc'[t] = "wake"
        BY <2>1, Moved DEF Enqueue, Labels
      <3> QED
        BY <3>1 DEF PendingIsScheduled
    <2>2. ASSUME NEW t \in Callers, WakeTimer(t) PROVE PendingIsScheduled'
      BY <2>2 DEF WakeTimer, Woken, PendingIsScheduled
    <2>3. ASSUME NEW t \in Threads, NEW label \in Labels, Goto(t, label),
                 pc[t] \notin {"wake", "cancel", "take"},
                 UNCHANGED <<pending, timer, stage>>
          PROVE  PendingIsScheduled'
      <3>1. \A u \in Threads : pc[u] \in {"wake", "cancel", "take"} => pc'[u] = pc[u]
        BY <2>3, Moved
      <3> QED
        BY <2>3, <3>1 DEF PendingIsScheduled
    <2>4. ASSUME NEW t \in Callers, PublishDirectly(t) PROVE PendingIsScheduled'
      BY <2>3, <2>4 DEF PublishDirectly, Labels
    <2>5. CASE TimerFires
      BY <2>3, <2>5 DEF TimerFires, Labels
    <2>6. CASE CancelTimer
      <3>1. pc'[Executor] = "take"
        BY <2>6, Moved DEF CancelTimer, Labels
      <3> QED
        BY <3>1 DEF PendingIsScheduled
    <2>7. CASE TakePending
      BY <2>7 DEF TakePending, MovedOut, PendingIsScheduled
    <2>8. ASSUME NEW t \in Threads, PublishNow(t) PROVE PendingIsScheduled'
      <3>1. PICK label \in Labels : Goto(t, label)
        BY <2>8 DEF PublishNow, CountLocal, CountPublic, SendPublic, TestPrivate,
                    SkipPrivate, SendLocal, Return, Labels
      <3>2. pc[t] \notin {"wake", "cancel", "take"} /\ UNCHANGED <<pending, timer, stage>>
        BY <2>8 DEF PublishNow, CountLocal, CountPublic, SendPublic, TestPrivate,
                    SkipPrivate, SendLocal, Return
      <3> QED
        BY <2>3, <3>1, <3>2
    <2>9. CASE Shutdown
      <3>1. stage' # "up"
        BY <2>9 DEF Shutdown, ShutdownCancels, ShutdownClears, ShutdownWithdraws,
                    ShutdownResets
      <3> QED
        BY <3>1 DEF PendingIsScheduled
    <2>10. CASE PeersChange \/ UNCHANGED vars
      BY <2>10 DEF PeersChange, vars, PendingIsScheduled
    <2> QED
      BY <2>1, <2>2, <2>4, <2>5, <2>6, <2>7, <2>8, <2>9, <2>10 DEF Next, Drain
  <1> QED
    BY <1>1, <1>2, TypeCorrect, PTL DEF Spec

--------------------------------------------------------------------------------
\* A shutdown that nothing overlaps leaves no thread inside publish_now, and none
\* passes the test of the pointer afterwards.
LEMMA AloneIsKept == Spec => []AloneInv
  <1>1. Init => AloneInv
    BY DEF Init, AloneInv
  <1>2. TypeOK /\ AloneInv /\ [Next]_vars => AloneInv'
    <2> SUFFICES ASSUME TypeOK, AloneInv, [Next]_vars, alone PROVE AloneInv'
      BY DEF Next, Enqueue, WakeTimer, PublishDirectly, PublishNow, CountLocal, CountPublic,
             SendPublic, TestPrivate, SkipPrivate, SendLocal, Return, Drain, TimerFires,
             CancelTimer, TakePending, Shutdown, ShutdownCancels, ShutdownClears,
             ShutdownWithdraws, ShutdownResets, PeersChange, vars, options, AloneInv
    <2> USE ExecutorIsThread
    <2>1. ASSUME NEW t \in Threads, NEW label \in Labels, Goto(t, label),
                 UNCHANGED <<alone, stage>>,
                 stage \in {"up", "down"} \/ label \in {"idle", "wake"},
                 label # "use_private" \/ stage # "down"
          PROVE  AloneInv'
      <3>1. pc'[t] = label /\ \A u \in Threads \ {t} : pc'[u] = pc[u]
        BY <2>1, Moved
      <3> QED
        BY <2>1, <3>1 DEF AloneInv, NobodyPublishes
    <2>2. ASSUME NEW t \in Callers, Enqueue(t) \/ WakeTimer(t) PROVE AloneInv'
      <3>1. PICK label \in {"idle", "wake"} : Goto(t, label)
        BY <2>2 DEF Enqueue, WakeTimer
      <3>2. UNCHANGED <<alone, stage>>
        BY <2>2 DEF Enqueue, WakeTimer, options
      <3> QED
        BY <2>1, <3>1, <3>2 DEF Labels
    <2>3. ASSUME NEW t \in Callers, PublishDirectly(t) PROVE AloneInv'
      BY <2>1, <2>3 DEF PublishDirectly, PublishMayBegin, options, Labels
    <2>4. CASE TimerFires
      BY <2>1, <2>4 DEF TimerFires, PublishMayBegin, options, Labels
    \* A thread that is past the beginning of its work finds no shutdown under way.
    <2>5. \A t \in Threads : pc[t] \notin {"idle", "wake"} => stage \in {"up", "down"}
      BY DEF AloneInv, NobodyPublishes
    <2>6. CASE CancelTimer
      BY <2>1, <2>5, <2>6 DEF CancelTimer, options, Labels
    <2>7. CASE TakePending
      BY <2>1, <2>5, <2>7 DEF TakePending, AfterTake, options, Labels
    <2>8. ASSUME NEW t \in Threads, PublishNow(t) PROVE AloneInv'
      <3>1. PICK label \in Labels : Goto(t, label) /\ (label # "use_private" \/ stage # "down")
        BY <2>8 DEF PublishNow, CountLocal, CountPublic, SendPublic, TestPrivate, HasPrivate,
                    SkipPrivate, SendLocal, Return, Labels
      <3>2. pc[t] \notin {"idle", "wake"} /\ UNCHANGED <<alone, stage>>
        BY <2>8 DEF PublishNow, CountLocal, CountPublic, SendPublic, TestPrivate,
                    SkipPrivate, SendLocal, Return, options
      <3> QED
        BY <2>1, <2>5, <3>1, <3>2
    <2>9. CASE Shutdown
      BY <2>9 DEF Shutdown, ShutdownCancels, ShutdownMayBegin, ShutdownClears,
                  ShutdownWithdraws, ShutdownResets, AloneInv, NobodyPublishes, options
    <2>10. CASE PeersChange \/ UNCHANGED vars
      BY <2>10 DEF PeersChange, vars, options, AloneInv, NobodyPublishes
    <2> QED
      BY <2>2, <2>3, <2>4, <2>6, <2>7, <2>8, <2>9, <2>10 DEF Next, Drain
  <1> QED
    BY <1>1, <1>2, TypeCorrect, PTL DEF Spec

\* If nothing publishes while shutdown() runs, no thread comes to use the private
\* publisher after it was reset.
THEOREM PrivateIsNotLost == Spec => []PrivateIsHeld
  <1>1. AloneInv => PrivateIsHeld
    BY DEF AloneInv, PrivateIsHeld
  <1> QED
    BY <1>1, AloneIsKept, PTL

--------------------------------------------------------------------------------
\* The messages of an asynchronous publisher, sent, held, pending and to come,
\* stand in the order of the calls.
LEMMA OrderIsKept == Spec => [](OrderInv /\ SentInOrder)
  <1>1. Init => OrderInv /\ SentInOrder
    BY ExecutorIsThread DEF Init, OrderInv, SentInOrder, Routes
  <1>2. TypeOK /\ OrderInv /\ SentInOrder /\ [Next]_vars => (OrderInv /\ SentInOrder)'
    <2> SUFFICES ASSUME TypeOK, OrderInv, SentInOrder, [Next]_vars, async
                 PROVE  (OrderInv /\ SentInOrder)'
      BY DEF Next, Enqueue, WakeTimer, PublishDirectly, PublishNow, CountLocal, CountPublic,
             SendPublic, TestPrivate, SkipPrivate, SendLocal, Return, Drain, TimerFires,
             CancelTimer, TakePending, Shutdown, ShutdownCancels, ShutdownClears,
             ShutdownWithdraws, ShutdownResets, PeersChange, vars, options, OrderInv,
             SentInOrder
    <2> USE ExecutorIsThread
    <2>0. /\ next \in Int /\ pending \in Nat /\ message[Executor] \in Nat
          /\ \A r \in Routes : sent[r] \in Seq(Numbers) /\ sent[r] \in Seq(Nat)
          /\ \A r \in Routes : \A i \in DOMAIN sent[r] : sent[r][i] \in Nat
      <3>1. \A r \in Routes : sent[r] \in Seq(Numbers) /\ sent[r] \in Seq(Nat)
        BY NumbersAreNat DEF TypeOK
      <3>2. \A r \in Routes : \A i \in DOMAIN sent[r] : sent[r][i] \in Numbers
        BY <3>1
      <3>3. Numbers \subseteq Nat /\ next \in Int
        BY PublishAssumption DEF Numbers, TypeOK
      <3>4. pending \in Numbers /\ message[Executor] \in Numbers
        BY DEF TypeOK
      <3> QED
        BY <3>1, <3>2, <3>3, <3>4
    \* Steps that touch neither messages nor what is sent, and let the executor not
    \* go back.
    <2>2. ASSUME UNCHANGED <<async, next, message, sent>>, pending' \in {pending, 0},
                 message[Executor] # 0 /\ pc'[Executor] \in BeforePublic =>
                   pc[Executor] \in BeforePublic
          PROVE  (OrderInv /\ SentInOrder)'
      <3>1. CASE pending' = pending
        BY <2>2, <3>1 DEF OrderInv, SentInOrder
      <3>2. CASE pending' = 0
        <4>1. 0 < next
          BY DEF TypeOK
        <4> QED
          BY <2>2, <3>2, <4>1 DEF OrderInv, SentInOrder
      <3> QED
        BY <2>2, <3>1, <3>2
    <2>3. ASSUME NEW t \in Callers, Enqueue(t) PROVE (OrderInv /\ SentInOrder)'
      <3>1. /\ pending' = next /\ next' = next + 1
            /\ UNCHANGED <<async, message, sent>> /\ pc'[Executor] = pc[Executor]
        BY <2>3, Moved DEF Enqueue, options, Labels
      <3>2. \A r \in Routes : \A i \in DOMAIN sent[r] : sent[r][i] < next + 1
        BY <2>0 DEF OrderInv
      <3>3. message[Executor] < next + 1 /\ next < next + 1
        BY <2>0 DEF OrderInv
      <3>4. /\ pending' < next' /\ message'[Executor] < next' /\ message'[Executor] < pending'
            /\ \A r \in Routes : \A i \in DOMAIN sent'[r] :
                 sent'[r][i] < next' /\ sent'[r][i] < pending'
        BY <3>1, <3>2, <3>3 DEF OrderInv
      <3>5. \A r \in Routes : \A i \in DOMAIN sent'[r] :
              /\ message'[Executor] # 0 => sent'[r][i] <= message'[Executor]
              /\ (message'[Executor] # 0 /\ (r = "public" => pc'[Executor] \in BeforePublic))
                   => sent'[r][i] < message'[Executor]
        BY <3>1 DEF OrderInv
      <3>6. OrderInv'
        BY <3>4, <3>5 DEF OrderInv
      <3> QED
        BY <3>1, <3>6 DEF SentInOrder
    <2>4. ASSUME NEW t \in Callers, WakeTimer(t) PROVE (OrderInv /\ SentInOrder)'
      <3>1. pc'[Executor] = pc[Executor]
        BY <2>4, Moved DEF WakeTimer, Labels
      <3> QED
        BY <2>2, <2>4, <3>1 DEF WakeTimer, options
    <2>5. CASE TimerFires \/ CancelTimer
      <3>1. pc'[Executor] \in {"cancel", "take"}
        BY <2>5, Moved DEF TimerFires, CancelTimer, Labels
      <3> QED
        BY <2>2, <2>5, <3>1 DEF TimerFires, CancelTimer, options, BeforePublic
    <2>6. CASE TakePending
      <3>1. /\ message'[Executor] = pending /\ pending' = 0
            /\ UNCHANGED <<async, next, sent>>
        BY <2>6 DEF TakePending, MovedOut, options, TypeOK
      <3> QED
        BY <2>0, <3>1 DEF OrderInv, SentInOrder
    <2>7. ASSUME NEW t \in Threads, PublishNow(t) PROVE (OrderInv /\ SentInOrder)'
      <3>1. t = Executor
        BY <2>7, OnlyExecutorPublishes
        DEF PublishNow, CountLocal, CountPublic, SendPublic, TestPrivate, SkipPrivate, SendLocal
      <3>2. CASE CountLocal(t) \/ CountPublic(t) \/ TestPrivate(t)
        <4>1. UNCHANGED <<async, next, message, sent, pending>>
          BY <3>2 DEF CountLocal, CountPublic, TestPrivate, options
        <4>2. pc'[Executor] \in BeforePublic => pc[Executor] \in BeforePublic
          BY <3>1, <3>2, Moved DEF CountLocal, CountPublic, TestPrivate, BeforePublic, Labels
        <4> QED
          BY <2>2, <4>1, <4>2
      <3>3. CASE SendPublic(t)
        <4>1. UNCHANGED <<async, next, message, pending>> /\ pc[Executor] = "send_public"
              /\ message[Executor] # 0
          BY <3>1, <3>3 DEF SendPublic, options, TypeOK
        <4>2. pc'[Executor] = "send_local"
          BY <3>1, <3>3, Moved DEF SendPublic, Labels
        <4>3. CASE UNCHANGED sent
          BY <2>2, <4>1, <4>2, <4>3 DEF BeforePublic
        <4>4. CASE sent' = [sent EXCEPT !["public"] = Append(@, message[Executor])]
          <5> DEFINE m == message[Executor]
                     q == Append(sent["public"], m)
          <5>1. /\ "public" \in Routes /\ "local" \in Routes
                /\ sent'["local"] = sent["local"] /\ sent'["public"] = q
            BY <3>1, <4>4, Appended DEF Routes
          <5>2. \A i \in DOMAIN sent["public"] : sent["public"][i] < m
            BY <4>1, <5>1 DEF OrderInv, BeforePublic
          <5>3. sent["public"] \in Seq(Nat)
            BY <2>0, <5>1
          <5>4. /\ \A i \in DOMAIN q : q[i] <= m
                /\ \A i, j \in DOMAIN q : i < j => q[i] < q[j]
            BY <2>0, <5>1, <5>2, <5>3, RisesOn DEF SentInOrder
          <5>5. \A i \in DOMAIN q : q[i] \in Nat
            BY <2>0, <5>3
          <5> HIDE DEF q
          <5>6. SentInOrder'
            BY <4>1, <5>1, <5>4 DEF SentInOrder, Routes
          <5>7. OrderInv'
            BY <2>0, <4>1, <4>2, <5>1, <5>4, <5>5 DEF OrderInv, Routes, BeforePublic
          <5> QED
            BY <5>6, <5>7
        <4> QED
          BY <3>1, <3>3, <4>3, <4>4 DEF SendPublic
      <3>4. CASE SkipPrivate(t)
        <4>1. /\ UNCHANGED <<async, next, pending, sent>> /\ message'[Executor] = 0
          BY <3>1, <3>4 DEF SkipPrivate, Return, options, TypeOK
        <4> QED
          BY <2>0, <4>1 DEF OrderInv, SentInOrder
      <3>5. CASE SendLocal(t)
        <4>1. /\ UNCHANGED <<async, next, pending>> /\ message'[Executor] = 0
              /\ pc[Executor] = "use_private" /\ message[Executor] # 0
              /\ sent' = [sent EXCEPT !["local"] = Append(@, message[Executor])]
          BY <3>1, <3>5 DEF SendLocal, Return, options, TypeOK
        <4> DEFINE m == message[Executor]
                   q == Append(sent["local"], m)
        <4>2. /\ "public" \in Routes /\ "local" \in Routes
              /\ sent'["public"] = sent["public"] /\ sent'["local"] = q
          BY <4>1, Appended DEF Routes
        <4>3. \A i \in DOMAIN sent["local"] : sent["local"][i] < m
          BY <4>1, <4>2 DEF OrderInv
        <4>4. sent["local"] \in Seq(Nat)
          BY <2>0, <4>2
        <4>5. /\ \A i \in DOMAIN q : q[i] <= m
              /\ \A i, j \in DOMAIN q : i < j => q[i] < q[j]
          BY <2>0, <4>2, <4>3, <4>4, RisesOn DEF SentInOrder
        <4>6. \A i \in DOMAIN q : q[i] \in Nat
          BY <2>0, <4>4
        <4> HIDE DEF q
        <4>7. SentInOrder'
          BY <4>1, <4>2, <4>5 DEF SentInOrder, Routes
        <4>8. OrderInv'
          BY <2>0, <4>1, <4>2, <4>5, <4>6 DEF OrderInv, Routes
        <4> QED
          BY <4>7, <4>8
      <3> QED
        BY <2>7, <3>2, <3>3, <3>4, <3>5 DEF PublishNow
    <2>8. CASE Shutdown \/ PeersChange
      <3>1. UNCHANGED <<async, next, message, sent, pc>> /\ pending' \in {pending, 0}
        BY <2>8 DEF Shutdown, ShutdownCancels, ShutdownClears, ShutdownWithdraws,
                    ShutdownResets, PeersChange, options
      <3> QED
        BY <2>2, <3>1
    <2>9. ASSUME NEW t \in Callers, PublishDirectly(t) PROVE FALSE
      BY <2>9 DEF PublishDirectly
    <2>10. CASE UNCHANGED vars
      BY <2>2, <2>10 DEF vars, options
    <2> QED
      BY <2>3, <2>4, <2>5, <2>6, <2>7, <2>8, <2>9, <2>10 DEF Next, Drain
  <1> QED
    BY <1>1, <1>2, TypeCorrect, PTL DEF Spec

\* An asynchronous publisher sends its messages on either path in the order of the
\* calls of publish and no message twice, for any number of callers.
THEOREM OrderOfCalls == Spec => []SentInOrder
  BY OrderIsKept, PTL
================================================================================
