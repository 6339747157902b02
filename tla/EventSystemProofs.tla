------------------------- MODULE EventSystemProofs -------------------------
(***************************************************************************)
(* What holds of the event bus, alone and with the trigger as its client,  *)
(* for every queue size, set of events, number of clients and list of      *)
(* rules: the bus is a log of which the newest QueueSize events are kept   *)
(* for the reader, clients are called in order, and the trigger keeps its  *)
(* cooldowns and its limit.                                                *)
(***************************************************************************)
EXTENDS EventSystem, TLAPS, FiniteSetTheorems, WellFoundedInduction, SequenceTheorems

logVars == <<published, queue, cur>>

LogTypeOK == published \in Seq(Event) /\ queue \in Seq(Nat) /\ cur \in Nat

LogInv == LogTypeOK /\ QueueIsRecent

\* What Publish and DispatchPop do to the log, the queue and the reader.
Pushes(e) ==
    /\ e \in Event
    /\ published' = Append(published, e)
    /\ queue' = Pushed(queue, Len(published) + 1)
    /\ cur' = cur

Pops ==
    /\ queue # <<>>
    /\ cur' = Head(queue)
    /\ queue' = Tail(queue)
    /\ published' = published

\* No step of the bus but a push and a pop touches log, queue and reader.
LEMMA BusSteps ==
    ASSUME [BusNext]_busVars
    PROVE  (\E e \in Event : Pushes(e)) \/ Pops \/ UNCHANGED logVars
<1>1. CASE \E e \in Event : Publish(e)
  BY <1>1 DEF Publish, Pushes
<1>2. CASE DispatchPop
  BY <1>2 DEF DispatchPop, Pops, dispatchRest
<1>3. CASE BusStart \/ BusStop \/ BusStopped
  BY <1>3 DEF BusStart, BusStop, BusStopped, logVars, dispatchVars
<1>4. CASE \E c \in Client : \/ Unsubscribe(c) \/ Deliver(c)
                             \/ SubscribeAll(c) \/ \E t \in Types : Subscribe(c, t)
  BY <1>4 DEF Unsubscribe, Deliver, SubscribeAll, Subscribe, AddSubscription, logVars,
              dispatchVars, dispatchRest
<1>5. CASE DispatchTop \/ DispatchEmpty \/ DispatchSleep \/ DispatchCopy \/ DispatchDone
           \/ DispatchSpurious
  BY <1>5 DEF DispatchTop, DispatchEmpty, DispatchSleep, DispatchCopy, DispatchDone,
              DispatchSpurious, logVars, dispatchRest
<1>6. CASE UNCHANGED busVars
  BY <1>6 DEF busVars, dispatchVars, logVars
<1> QED BY <1>1, <1>2, <1>3, <1>4, <1>5, <1>6 DEF BusNext, DispatchOwn

\* A push keeps the newest events; a full queue gives up its oldest.
LEMMA PushKeeps ==
    ASSUME NEW e, Pushes(e), LogInv
    PROVE  LogInv'
<1> USE DEF LogInv, LogTypeOK, QueueIsRecent
<1> DEFINE n == Len(published) + 1
<1>0. QueueSize \in Nat /\ QueueSize > 0
  BY BusAssumption
<1>1. published' \in Seq(Event) /\ Len(published') = n /\ n \in Nat /\ cur' \in Nat
  BY DEF Pushes
<1>2. CASE Len(queue) >= QueueSize
  <2>1. queue # <<>> /\ Len(queue) = QueueSize
    BY <1>0, <1>2
  <2>2. Tail(queue) \in Seq(Nat) /\ Len(Tail(queue)) = Len(queue) - 1
    BY <2>1
  <2>3. queue' = Append(Tail(queue), n)
    BY <1>2 DEF Pushes, Pushed
  <2>4. queue' \in Seq(Nat) /\ Len(queue') = QueueSize
    BY <2>1, <2>2, <2>3, <1>1, <1>0
  <2>5. ASSUME NEW i \in 1..Len(queue')
        PROVE  queue'[i] = Len(published') - Len(queue') + i
    <3>1. CASE i = Len(queue')
      <4>1. queue'[Len(Tail(queue)) + 1] = n
        BY <2>2, <2>3, <1>1
      <4>2. i = Len(Tail(queue)) + 1
        BY <3>1, <1>0, <2>1, <2>2, <2>4
      <4>3. Len(published') - Len(queue') + i = n
        BY <3>1, <1>0, <1>1, <2>4
      <4>4. queue'[i] = n
        BY <4>1, <4>2, Zenon
      <4> QED BY <4>3, <4>4
    <3>2. CASE i # Len(queue')
      <4>1. i \in 1..Len(Tail(queue)) /\ i + 1 \in 1..Len(queue)
        BY <3>2, <1>0, <2>1, <2>2, <2>4
      <4>2. queue'[i] = Tail(queue)[i]
        BY <4>1, <2>2, <2>3, <1>1
      <4>3. Tail(queue)[i] = queue[i + 1]
        BY <4>1, <2>1
      <4>4. queue[i + 1] = Len(published) - Len(queue) + (i + 1)
        BY <4>1
      <4>5. Len(published) - Len(queue) + (i + 1) = Len(published') - Len(queue') + i
        BY <1>0, <1>1, <2>1, <2>4
      <4> QED BY <4>2, <4>3, <4>4, <4>5
    <3> QED BY <3>1, <3>2
  <2>6. cur' + Len(queue') <= Len(published')
    BY <1>1, <2>1, <2>4 DEF Pushes
  <2> QED BY <1>0, <1>1, <2>4, <2>5, <2>6
<1>3. CASE ~(Len(queue) >= QueueSize)
  <2>1. queue' = Append(queue, n)
    BY <1>3 DEF Pushes, Pushed
  <2>2. queue' \in Seq(Nat) /\ Len(queue') = Len(queue) + 1
    BY <2>1, <1>1
  <2>3. Len(queue) < QueueSize /\ Len(queue) = Len(published) - cur
    BY <1>3, <1>0
  <2>4. ASSUME NEW i \in 1..Len(queue')
        PROVE  queue'[i] = Len(published') - Len(queue') + i
    <3>1. CASE i = Len(queue')
      BY <3>1, <1>1, <2>1, <2>2
    <3>2. CASE i # Len(queue')
      <4>1. i \in 1..Len(queue) /\ queue'[i] = queue[i]
        BY <3>2, <2>1, <2>2, <1>1
      <4> QED BY <4>1, <1>1, <2>2
    <3> QED BY <3>1, <3>2
  <2> QED BY <1>0, <1>1, <2>2, <2>3, <2>4 DEF Pushes
<1> QED BY <1>2, <1>3

\* A pop moves the reader to the oldest event of the queue.
LEMMA PopKeeps ==
    ASSUME Pops, LogInv
    PROVE  LogInv'
<1> USE DEF LogInv, LogTypeOK, QueueIsRecent
<1>0. QueueSize \in Nat /\ QueueSize > 0
  BY BusAssumption
<1>1. Len(queue) \in Nat /\ Len(queue) > 0 /\ Len(published) \in Nat
  BY DEF Pops
<1>2. queue' \in Seq(Nat) /\ Len(queue') = Len(queue) - 1
  BY <1>1 DEF Pops
<1>3. cur' = Len(published) - Len(queue) + 1
  <2>1. 1 \in 1..Len(queue) /\ Head(queue) = queue[1]
    BY <1>1
  <2> QED BY <2>1 DEF Pops
<1>4. cur' \in Nat
  BY <1>1, <1>3
<1>5. ASSUME NEW i \in 1..Len(queue')
      PROVE  queue'[i] = Len(published') - Len(queue') + i
  <2>1. i + 1 \in 1..Len(queue) /\ queue'[i] = queue[i + 1]
    BY <1>1, <1>2 DEF Pops
  <2>2. queue[i + 1] = Len(published) - Len(queue) + (i + 1)
    BY <2>1
  <2>3. Len(published) - Len(queue) + (i + 1) = Len(published') - Len(queue') + i
    BY <1>1, <1>2 DEF Pops
  <2> QED BY <2>1, <2>2, <2>3
<1> QED BY <1>0, <1>1, <1>2, <1>3, <1>4, <1>5 DEF Pops

\* LogInv is inductive.
LEMMA LogInvStep ==
    ASSUME LogInv, [BusNext]_busVars
    PROVE  LogInv'
<1>1. CASE \E e \in Event : Pushes(e)
  BY <1>1, PushKeeps
<1>2. CASE Pops
  BY <1>2, PopKeeps
<1>3. CASE UNCHANGED logVars
  BY <1>3 DEF LogInv, LogTypeOK, QueueIsRecent, logVars
<1> QED BY <1>1, <1>2, <1>3, BusSteps

LEMMA LogInvInit ==
    ASSUME BusInit
    PROVE  LogInv
BY BusAssumption DEF BusInit, LogInv, LogTypeOK, QueueIsRecent

\* EventBus: the queue always holds the newest unread events, oldest first, and
\* all of them when it is not full.
THEOREM QueueIsRecentAlways == BusSpec => []QueueIsRecent
<1>1. BusSpec => []LogInv
  BY LogInvInit, LogInvStep, PTL DEF BusSpec
<1> QED BY <1>1, PTL DEF LogInv

\* A step of the bus is a step of the log or changes neither log nor reader.
LEMMA StepIsLogStep ==
    ASSUME LogInv, [BusNext]_busVars
    PROVE  [Log!Next]_<<published, cur>>
<1>0. QueueSize \in Nat /\ QueueSize > 0
  BY BusAssumption
<1>1. CASE \E e \in Event : Pushes(e)
  BY <1>1 DEF Pushes, Log!Next, Log!Write
<1>2. CASE Pops
  <2>1. Len(queue) \in Nat /\ Len(queue) > 0 /\ Len(published) \in Nat /\ cur \in Nat
    BY <1>2 DEF Pops, LogInv, LogTypeOK
  <2>2. cur' = Len(published) - Len(queue) + 1
    <3>1. 1 \in 1..Len(queue) /\ Head(queue) = queue[1]
      BY <2>1, <1>2 DEF LogInv, LogTypeOK
    <3> QED BY <3>1, <2>1, <1>2 DEF Pops, LogInv, QueueIsRecent
  <2>3. cur' = Log!Oldest /\ Log!Oldest <= Len(published)
    BY <1>0, <2>1, <2>2 DEF Log!Oldest, LogInv, QueueIsRecent
  <2> QED BY <1>2, <2>3 DEF Pops, Log!Next, Log!Read
<1>3. CASE UNCHANGED logVars
  BY <1>3 DEF logVars
<1> QED BY <1>1, <1>2, <1>3, BusSteps

\* EventBus implements RecentLog: events are read in the order of publication,
\* never twice, and one is lost only to QueueSize newer ones.
THEOREM BusImplementsRecentLog == BusSpec => BusIsRecentLog
<1>1. BusInit => Log!Init
  BY DEF BusInit, Log!Init
<1>2. BusSpec => []LogInv
  BY LogInvInit, LogInvStep, PTL DEF BusSpec
<1>3. LogInv /\ [BusNext]_busVars => [Log!Next]_<<published, cur>>
  BY StepIsLogStep
<1> QED BY <1>1, <1>2, <1>3, PTL DEF BusSpec, BusIsRecentLog, Log!Spec

\* What the daemon does with trigger and bus is a behaviour of the bus alone:
\* AutonomousTrigger is a client like any other.
THEOREM SystemContainsBus == Spec => BusSpec
<1>1. Init => BusInit
  BY DEF Init
<1>2. [Next]_vars => [BusNext]_busVars
  <2> SUFFICES ASSUME [Next]_vars PROVE [BusNext]_busVars
    OBVIOUS
  <2>1. CASE StartTrigger \/ StopTrigger
    BY <2>1, SystemAssumption DEF StartTrigger, StopTrigger, BusNext
  <2>2. CASE StopBus
    BY <2>2 DEF StopBus, BusNext
  <2>3. CASE BusOnly /\ UNCHANGED triggerVars
    BY <2>3 DEF BusOnly, BusNext, Others
  <2>4. CASE Dispatch
    BY <2>4, SystemAssumption DEF Dispatch, DeliverTrigger, BusNext, Others
  <2>5. CASE Minute /\ UNCHANGED busVars
    BY <2>5
  <2>6. CASE UNCHANGED vars
    BY <2>6 DEF vars
  <2> QED BY <2>1, <2>2, <2>3, <2>4, <2>5, <2>6 DEF Next
<1> QED BY <1>1, <1>2, PTL DEF Spec, BusSpec

\* In the daemon, too, the dispatch thread reads a log of recent events.
THEOREM SystemImplementsRecentLog == Spec => BusIsRecentLog
BY SystemContainsBus, BusImplementsRecentLog, PTL
-----------------------------------------------------------------------------
\* A client has at most one subscription, and holds its id; so it is at most once
\* in the copy that the dispatch thread works on.
SubsOK ==
    /\ nextSub \in Nat /\ nextSub > 0
    /\ handle \in [Client -> Nat] /\ \A c \in Client : handle[c] < nextSub
    /\ \A s \in subscribers : s.client \in Client /\ s.id # 0 /\ s.id = handle[s.client]
    /\ \A s, u \in subscribers : s.id = u.id => s = u
CopyOK ==
    /\ \A s \in todo : s.client \in Client
    /\ \A s, u \in todo : s.client = u.client => s = u

\* The dispatch thread will call client c for the event in flight.
Awaits(c) == pc = "copy" \/ (pc = "deliver" /\ \E s \in todo : s.client = c)

\* No call is for an event newer than the one in flight, and the clients still to
\* be called have only seen older ones.
CallsOK ==
    /\ got \in [Client -> Seq(Nat)]
    /\ \A c \in Client : \A i \in 1..Len(got[c]) : got[c][i] <= cur
    /\ \A c \in Client : Awaits(c) => \A i \in 1..Len(got[c]) : got[c][i] < cur

\* A client that left while the event in flight was being dispatched may be called
\* for that event, not for another.
LeftOK ==
    /\ left \in [Client -> Nat]
    /\ \A c \in Client : handle[c] = 0 =>
          /\ \A i \in 1..Len(got[c]) : got[c][i] <= left[c]
          /\ pc = "deliver" /\ (\E s \in todo : s.client = c) => left[c] = cur

BusInv == LogInv /\ SubsOK /\ CopyOK /\ CallsOK /\ ReceivedInOrder /\ LeftOK

LEMMA BusInvInit ==
    ASSUME BusInit
    PROVE  BusInv
<1>1. SubsOK /\ CopyOK /\ LeftOK
  BY DEF BusInit, SubsOK, CopyOK, LeftOK
<1>2. CallsOK /\ ReceivedInOrder
  BY DEF BusInit, CallsOK, ReceivedInOrder
<1> QED BY <1>1, <1>2, LogInvInit DEF BusInv

\* Steps that touch neither the subscriptions nor the calls made.
LEMMA QuietStep ==
    ASSUME BusInv, LogInv', UNCHANGED <<subscribers, nextSub, handle, left, got, cur, todo>>,
           pc' \in {"copy", "deliver"} => pc' = pc
    PROVE  BusInv'
<1>1. SubsOK' /\ CopyOK' /\ ReceivedInOrder'
  BY DEF BusInv, SubsOK, CopyOK, ReceivedInOrder
<1>2. CallsOK' /\ LeftOK'
  BY DEF BusInv, CallsOK, Awaits, LeftOK
<1> QED BY <1>1, <1>2 DEF BusInv

LEMMA SubscribeKeeps ==
    ASSUME BusInv, LogInv', NEW c \in Client, NEW all, NEW type, AddSubscription(c, all, type)
    PROVE  BusInv'
<1> DEFINE s0 == [id |-> nextSub, client |-> c, all |-> all, type |-> type]
<1>1. /\ subscribers' = subscribers \cup {s0} /\ handle' = [handle EXCEPT ![c] = nextSub]
      /\ nextSub' = nextSub + 1 /\ handle[c] = 0
      /\ UNCHANGED <<left, pc, cur, todo, got>>
  BY DEF AddSubscription, dispatchVars
<1>2. s0.id = nextSub /\ s0.client = c
  OBVIOUS
<1> HIDE DEF s0
<1>3. /\ nextSub \in Nat /\ nextSub > 0 /\ handle \in [Client -> Nat]
      /\ \A d \in Client : handle[d] < nextSub
      /\ \A s \in subscribers : s.client \in Client /\ s.id # 0 /\ s.id = handle[s.client]
      /\ \A s, u \in subscribers : s.id = u.id => s = u
  BY DEF BusInv, SubsOK
<1>4. /\ handle' \in [Client -> Nat] /\ handle'[c] = nextSub
      /\ \A d \in Client : d # c => handle'[d] = handle[d]
  BY <1>1, <1>3
<1>5. SubsOK'
  <2>1. \A s \in subscribers : s.client # c /\ s.id < nextSub
    BY <1>1, <1>3
  <2>2. \A s \in subscribers' : s.client \in Client /\ s.id # 0 /\ s.id = handle'[s.client]
    BY <1>1, <1>2, <1>3, <1>4, <2>1
  <2>3. \A s, u \in subscribers' : s.id = u.id => s = u
    BY <1>1, <1>2, <1>3, <2>1
  <2> QED BY <1>1, <1>3, <1>4, <2>2, <2>3 DEF SubsOK
<1>6. CopyOK' /\ CallsOK' /\ ReceivedInOrder'
  BY <1>1 DEF BusInv, CopyOK, CallsOK, Awaits, ReceivedInOrder
<1>7. LeftOK'
  <2>1. \A d \in Client : handle'[d] = 0 => handle[d] = 0
    BY <1>3, <1>4
  <2> QED BY <1>1, <2>1 DEF BusInv, LeftOK
<1> QED BY <1>5, <1>6, <1>7 DEF BusInv

LEMMA UnsubscribeKeepsInv ==
    ASSUME BusInv, LogInv', NEW c \in Client, Unsubscribe(c)
    PROVE  BusInv'
<1>1. /\ subscribers' = {s \in subscribers : s.id # handle[c]}
      /\ handle' = [handle EXCEPT ![c] = 0] /\ left' = [left EXCEPT ![c] = cur]
      /\ UNCHANGED <<nextSub, pc, cur, todo, got>>
  BY DEF Unsubscribe, dispatchVars
<1>2. SubsOK /\ LeftOK /\ CallsOK /\ cur \in Nat
  BY DEF BusInv, LogInv, LogTypeOK
<1>3. SubsOK'
  <2>1. \A s \in subscribers' : s.client # c
    BY <1>1, <1>2 DEF SubsOK
  <2> QED BY <1>1, <1>2, <2>1 DEF SubsOK
<1>4. CopyOK' /\ CallsOK' /\ ReceivedInOrder'
  BY <1>1 DEF BusInv, CopyOK, CallsOK, Awaits, ReceivedInOrder
<1>5. LeftOK'
  <2>1. left' \in [Client -> Nat] /\ left'[c] = cur /\ handle'[c] = 0
    BY <1>1, <1>2 DEF LeftOK, SubsOK
  <2>2. \A d \in Client : d # c => left'[d] = left[d] /\ handle'[d] = handle[d]
    BY <1>1, <1>2 DEF LeftOK, SubsOK
  <2>3. \A i \in 1..Len(got[c]) : got[c][i] <= cur
    BY <1>2 DEF CallsOK
  <2> QED BY <1>1, <1>2, <2>1, <2>2, <2>3 DEF LeftOK
<1> QED BY <1>3, <1>4, <1>5 DEF BusInv

\* The dispatch thread reads a newer event than the one before.
LEMMA PopIsNewer ==
    ASSUME LogInv, Pops
    PROVE  cur' \in Nat /\ cur < cur'
<1>1. Len(queue) \in Nat /\ Len(queue) > 0 /\ Len(published) \in Nat /\ cur \in Nat
  BY DEF Pops, LogInv, LogTypeOK
<1>2. 1 \in 1..Len(queue) /\ Head(queue) = queue[1]
  BY <1>1 DEF LogInv, LogTypeOK
<1>3. cur' = Len(published) - Len(queue) + 1 /\ cur + Len(queue) <= Len(published)
  BY <1>1, <1>2 DEF Pops, LogInv, QueueIsRecent
<1> QED BY <1>1, <1>3

LEMMA PopKeepsCalls ==
    ASSUME BusInv, LogInv', DispatchPop
    PROVE  BusInv'
<1>1. Pops /\ pc' = "copy" /\ UNCHANGED <<subscribers, nextSub, handle, left, got, todo>>
  BY DEF DispatchPop, Pops, dispatchRest, subVars
<1>2. cur' \in Nat /\ cur \in Nat /\ cur < cur'
  BY <1>1, PopIsNewer DEF BusInv, LogInv, LogTypeOK
<1>3. SubsOK' /\ CopyOK' /\ ReceivedInOrder'
  BY <1>1 DEF BusInv, SubsOK, CopyOK, ReceivedInOrder
<1>4. LeftOK'
  BY <1>1 DEF BusInv, LeftOK
<1>5. ASSUME NEW c \in Client, NEW i \in 1..Len(got[c]) PROVE got[c][i] < cur'
  <2>1. got[c][i] \in Nat /\ got[c][i] <= cur
    BY DEF BusInv, CallsOK
  <2> QED BY <1>2, <2>1
<1>6. ASSUME NEW c \in Client, NEW i \in 1..Len(got[c]) PROVE got[c][i] <= cur'
  <2>1. got[c][i] \in Nat
    BY DEF BusInv, CallsOK
  <2> QED BY <1>2, <1>5, <2>1
<1>7. CallsOK'
  BY <1>1, <1>5, <1>6 DEF BusInv, CallsOK
<1> QED BY <1>3, <1>4, <1>7 DEF BusInv

LEMMA CopyKeeps ==
    ASSUME BusInv, LogInv', DispatchCopy
    PROVE  BusInv'
<1>1. /\ pc = "copy" /\ pc' = "deliver" /\ todo' \subseteq subscribers
      /\ UNCHANGED <<subscribers, nextSub, handle, left, got, cur>>
  BY DEF DispatchCopy, dispatchRest, subVars
<1>2. SubsOK' /\ ReceivedInOrder'
  BY <1>1 DEF BusInv, SubsOK, ReceivedInOrder
<1>3. CopyOK'
  BY <1>1 DEF BusInv, SubsOK, CopyOK
<1>4. CallsOK'
  BY <1>1 DEF BusInv, CallsOK, Awaits
<1>5. LeftOK'
  <2>1. \A s \in todo' : s.client \in Client /\ handle[s.client] # 0
    BY <1>1 DEF BusInv, SubsOK
  <2> QED BY <1>1, <2>1 DEF BusInv, LeftOK
<1> QED BY <1>2, <1>3, <1>4, <1>5 DEF BusInv

LEMMA DeliverKeeps ==
    ASSUME BusInv, LogInv', NEW c \in Client, Deliver(c)
    PROVE  BusInv'
<1>1. PICK s \in todo : s.client = c /\ todo' = todo \ {s}
  BY DEF Deliver
<1>2. /\ pc = "deliver" /\ got' = [got EXCEPT ![c] = Append(got[c], cur)]
      /\ UNCHANGED <<subscribers, nextSub, handle, left, pc, cur>>
  BY DEF Deliver, dispatchRest, subVars
<1>3. /\ got \in [Client -> Seq(Nat)] /\ cur \in Nat
      /\ \A i \in 1..Len(got[c]) : got[c][i] < cur
  BY <1>1, <1>2 DEF BusInv, CallsOK, Awaits, LogInv, LogTypeOK
<1>4. PICK g \in Seq(Nat) : g = got[c]
  BY <1>3
<1>5. PICK h \in Seq(Nat) : h = Append(g, cur)
  <2>1. cur \in Nat
    BY <1>3
  <2>2. Append(g, cur) \in Seq(Nat)
    BY <2>1
  <2> QED BY <2>2
<1>6. /\ Len(g) \in Nat /\ Len(h) = Len(g) + 1 /\ h[Len(g) + 1] = cur
      /\ \A i \in 1..Len(g) : h[i] = g[i] /\ h[i] \in Nat /\ h[i] < cur
  <2>1. Len(g) \in Nat /\ Len(h) = Len(g) + 1 /\ h[Len(g) + 1] = cur
    BY <1>3, <1>5
  <2>2. \A i \in 1..Len(g) : h[i] = g[i]
    BY <1>3, <1>5
  <2> QED BY <1>3, <1>4, <2>1, <2>2
<1>7. /\ got' \in [Client -> Seq(Nat)] /\ got'[c] = h
      /\ \A d \in Client : d # c => got'[d] = got[d]
  BY <1>2, <1>3, <1>4, <1>5
<1>8. \A u \in todo' : u \in todo /\ u.client # c
  BY <1>1 DEF BusInv, CopyOK
<1>9. SubsOK' /\ CopyOK'
  BY <1>2, <1>8 DEF BusInv, SubsOK, CopyOK
<1>10. \A i \in 1..Len(h) : h[i] <= cur
  <2> SUFFICES ASSUME NEW i \in 1..Len(h) PROVE h[i] <= cur
    OBVIOUS
  <2>1. CASE i = Len(g) + 1
    BY <1>3, <1>6, <2>1
  <2>2. CASE i # Len(g) + 1
    <3>1. i \in 1..Len(g)
      BY <1>6, <2>2
    <3> QED BY <1>3, <1>6, <3>1
  <2> QED BY <2>1, <2>2
<1>11. CallsOK'
  <2>1. ASSUME NEW d \in Client PROVE \A i \in 1..Len(got'[d]) : got'[d][i] <= cur
    BY <1>7, <1>10 DEF BusInv, CallsOK
  <2>2. ASSUME NEW d \in Client, Awaits(d)'
        PROVE  \A i \in 1..Len(got'[d]) : got'[d][i] < cur
    <3>1. PICK u \in todo' : u.client = d
      BY <1>2, <2>2 DEF Awaits
    <3>2. d # c /\ Awaits(d)
      BY <1>2, <1>8, <3>1 DEF Awaits
    <3> QED BY <1>7, <3>2 DEF BusInv, CallsOK
  <2> QED BY <1>2, <1>7, <2>1, <2>2 DEF CallsOK
<1>12. ReceivedInOrder'
  <2>1. ASSUME NEW i \in 1..Len(h), NEW j \in 1..Len(h), i < j PROVE h[i] < h[j]
    <3>1. i \in 1..Len(g)
      BY <1>6, <2>1
    <3>2. CASE j = Len(g) + 1
      BY <1>6, <3>1, <3>2
    <3>3. CASE j # Len(g) + 1
      <4>1. j \in 1..Len(g)
        BY <1>6, <3>3
      <4>2. g[i] < g[j]
        BY <1>4, <2>1, <3>1, <4>1 DEF BusInv, ReceivedInOrder
      <4> QED BY <1>6, <3>1, <4>1, <4>2
    <3> QED BY <3>2, <3>3
  <2>2. ASSUME NEW d \in Client
        PROVE  \A i, j \in 1..Len(got'[d]) : i < j => got'[d][i] < got'[d][j]
    <3>1. CASE d = c
      BY <1>7, <2>1, <3>1
    <3>2. CASE d # c
      BY <1>7, <3>2 DEF BusInv, ReceivedInOrder
    <3> QED BY <3>1, <3>2
  <2> QED BY <2>2 DEF ReceivedInOrder
<1>13. LeftOK'
  <2>1. handle[c] = 0 => left[c] = cur
    BY <1>1, <1>2 DEF BusInv, LeftOK
  <2>2. ASSUME NEW d \in Client, handle'[d] = 0
        PROVE  /\ \A i \in 1..Len(got'[d]) : got'[d][i] <= left'[d]
               /\ (\E u \in todo' : u.client = d) => left'[d] = cur'
    <3>1. CASE d = c
      BY <1>2, <1>7, <1>8, <1>10, <2>1, <2>2, <3>1
    <3>2. CASE d # c
      BY <1>2, <1>7, <1>8, <2>2, <3>2 DEF BusInv, LeftOK
    <3> QED BY <3>1, <3>2
  <2> QED BY <1>2, <2>2 DEF BusInv, LeftOK
<1> QED BY <1>9, <1>11, <1>12, <1>13 DEF BusInv

LEMMA BusInvStep ==
    ASSUME BusInv, [BusNext]_busVars
    PROVE  BusInv'
<1>0. LogInv'
  BY LogInvStep DEF BusInv
<1>1. CASE \E e \in Event : Publish(e)
  BY <1>0, <1>1, QuietStep DEF Publish, Notify, subVars
<1>2. CASE BusStart \/ BusStop \/ BusStopped
  BY <1>0, <1>2, QuietStep DEF BusStart, BusStop, BusStopped, subVars, dispatchVars
<1>3. ASSUME NEW c \in Client,
             SubscribeAll(c) \/ \E t \in Types : Subscribe(c, t)
      PROVE  BusInv'
  BY <1>0, <1>3, SubscribeKeeps DEF SubscribeAll, Subscribe
<1>4. ASSUME NEW c \in Client, Unsubscribe(c) PROVE BusInv'
  BY <1>0, <1>4, UnsubscribeKeepsInv
<1>5. ASSUME NEW c \in Client, Deliver(c) PROVE BusInv'
  BY <1>0, <1>5, DeliverKeeps
<1>6. CASE DispatchTop \/ DispatchEmpty \/ DispatchSleep \/ DispatchDone \/ DispatchSpurious
  BY <1>0, <1>6, QuietStep DEF DispatchTop, DispatchEmpty, DispatchSleep, DispatchDone,
                              DispatchSpurious, dispatchRest, subVars
<1>7. CASE DispatchPop
  BY <1>0, <1>7, PopKeepsCalls
<1>8. CASE DispatchCopy
  BY <1>0, <1>8, CopyKeeps
<1>9. CASE UNCHANGED busVars
  BY <1>0, <1>9, QuietStep DEF busVars, subVars, dispatchVars
<1> QED BY <1>1, <1>2, <1>3, <1>4, <1>5, <1>6, <1>7, <1>8, <1>9 DEF BusNext, DispatchOwn

\* A client of the EventBus is called at most once for an event and in the order
\* of publication, for any number of clients, subscriptions and restarts.
THEOREM ReceivedInOrderAlways == Spec => []ReceivedInOrder
<1>1. BusSpec => []BusInv
  BY BusInvInit, BusInvStep, PTL DEF BusSpec
<1> QED BY <1>1, SystemContainsBus, PTL DEF BusInv

\* A client that has unsubscribed can be called only for the event that was being
\* dispatched when it did (EventBus::Unsubscribe and the copy in DispatchLoop).
THEOREM UnsubscribeStopsAlways == Spec => []UnsubscribeStops
<1>1. BusSpec => []BusInv
  BY BusInvInit, BusInvStep, PTL DEF BusSpec
<1>2. BusInv => UnsubscribeStops
  BY DEF BusInv, LeftOK, UnsubscribeStops
<1> QED BY <1>1, <1>2, SystemContainsBus, PTL
-----------------------------------------------------------------------------
\* What AutonomousTrigger keeps, as the record that ApplyRule works on.
TriggerState == [last |-> lastTrigger, hour |-> hourStart, count |-> evalCount, runs |-> runs]

Run == [rule : Names, kind : {"evaluate", "direct"}, by : Nat, at : Nat,
        call : [session : Names, prompt : {EvalSession}]]

\* Every run was recorded as a trigger of its rule, at its time or later.
LastOK(last, rs) ==
    /\ last = [m \in DOMAIN last |-> last[m]]
    /\ \A m \in DOMAIN last : last[m] \in Nat /\ last[m] <= clock
    /\ \A i \in 1..Len(rs) : rs[i].rule \in DOMAIN last /\ rs[i].at <= last[rs[i].rule]

ApartOK(rs) ==
    \A i, j \in 1..Len(rs) : i < j /\ rs[i].rule = rs[j].rule =>
        rs[j].at - rs[i].at >= CooldownOf(rs[i].rule)

\* The counter counts the evaluations of its hour, and there are none later.
Hour(t) == t \div HourLength
Evals(rs, h) == {i \in 1..Len(rs) : rs[i].kind = "evaluate" /\ Hour(rs[i].at) = h}
HourOK(hour, count, rs) ==
    /\ hour \in Nat /\ hour <= clock /\ count \in 0..MaxEvals
    /\ \A i \in 1..Len(rs) : rs[i].kind = "evaluate" => Hour(rs[i].at) <= Hour(hour)
    /\ Cardinality(Evals(rs, Hour(hour))) <= count
    /\ \A h \in Nat : Cardinality(Evals(rs, h)) <= MaxEvals

StateOK(st) ==
    /\ st = [last |-> st.last, hour |-> st.hour, count |-> st.count, runs |-> st.runs]
    /\ st.runs \in Seq(Run)
    /\ LastOK(st.last, st.runs) /\ ApartOK(st.runs) /\ HourOK(st.hour, st.count, st.runs)

TriggerInv == clock \in Nat /\ StateOK(TriggerState)

\* A nonempty set of naturals has a least element.
LEMMA LeastNat ==
    ASSUME NEW T \in SUBSET Nat, T # {}
    PROVE  \E k \in T : \A l \in T : k <= l
<1>1. IsWellFoundedOn(OpToRel(<, Nat), Nat)
  BY NatLessThanWellFounded
<1>2. PICK k \in T : \A l \in T : ~(<<l, k>> \in OpToRel(<, Nat))
  BY <1>1, WFMin, Zenon
<1>3. ASSUME NEW l \in T PROVE k <= l
  <2>1. l \in Nat /\ k \in Nat
    OBVIOUS
  <2>2. ~(l < k)
    BY <1>2, <2>1 DEF OpToRel
  <2> QED BY <2>1, <2>2
<1> QED BY <1>3

\* The hours of the clock follow one another.
LEMMA HourMonotone ==
    ASSUME NEW a \in Nat, NEW b \in Nat, a <= b
    PROVE  Hour(a) \in Nat /\ Hour(b) \in Nat /\ Hour(a) <= Hour(b)
<1>1. HourLength \in Nat /\ HourLength > 0
  BY TriggerAssumption
<1>2. PICK H \in Nat : H = HourLength /\ H > 0
  BY <1>1
<1>3. a \div H \in Nat /\ b \div H \in Nat
  BY <1>2
<1>4. a = H * (a \div H) + (a % H) /\ b = H * (b \div H) + (b % H)
  BY <1>2
<1>5. a % H \in 0..H - 1 /\ b % H \in 0..H - 1
  BY <1>2
<1>6. PICK p \in Nat, q \in Nat, r \in 0..H - 1, s \in 0..H - 1 :
         /\ p = a \div H /\ q = b \div H /\ a = H * p + r /\ b = H * q + s
  BY <1>3, <1>4, <1>5
<1>7. p <= q
  <2>1. SUFFICES ASSUME q + 1 <= p PROVE FALSE
    BY <1>6
  <2>2. H * (q + 1) <= H * p
    BY <1>2, <2>1
  <2>3. H * (q + 1) = H * q + H
    BY <1>2
  <2>4. H * q \in Int /\ H * p \in Int
    BY <1>2
  <2> QED BY <1>2, <1>6, <2>2, <2>3, <2>4
<1> QED BY <1>2, <1>3, <1>6, <1>7 DEF Hour

LEMMA HourNat == ASSUME NEW a \in Nat PROVE Hour(a) \in Nat
<1>1. a <= a
  OBVIOUS
<1> QED BY <1>1, HourMonotone

\* The cooldown of a name is that of one of the rules of that name.
LEMMA CooldownFound ==
    ASSUME NEW name \in Names
    PROVE  \E k \in Place : /\ Rules[k].name = name /\ Rules[k].cooldown = CooldownOf(name)
                            /\ CooldownOf(name) \in Int
<1> DEFINE named == {i \in Place : Rules[i].name = name}
           k == CHOOSE i \in named : \A j \in named : i <= j
<1>0. ASSUME NEW i \in Place PROVE i \in Nat
  <2>1. i \in 1..Len(Config) /\ Len(Config) \in Nat
    BY TriggerAssumption DEF Place
  <2> QED BY <2>1
<1>1. named \in SUBSET Nat /\ named # {}
  BY <1>0 DEF Names
<1>2. \E i \in named : \A j \in named : i <= j
  <2> HIDE DEF named
  <2> QED BY <1>1, LeastNat
<1>3. k \in named
  BY <1>2
<1>4. CooldownOf(name) = Rules[k].cooldown
  BY DEF CooldownOf
<1> HIDE DEF k
<1>5. k \in Place /\ Rules[k].name = name /\ Rules[k] = Config[k]
  BY <1>3 DEF Rules
<1>6. Rules[k].cooldown \in Int
  BY <1>5, TriggerAssumption DEF Place
<1> QED BY <1>4, <1>5, <1>6

LEMMA RunFields ==
    ASSUME NEW rs \in Seq(Run), NEW i \in 1..Len(rs)
    PROVE  rs[i] \in Run /\ rs[i].at \in Nat
<1>1. rs[i] \in Run
  OBVIOUS
<1> QED BY <1>1 DEF Run

\* The rule may run now: it rested since its earlier runs.
Rested(st, name) ==
    /\ name \in DOMAIN st.last /\ st.last[name] = clock
    /\ \A i \in 1..Len(st.runs) :
          st.runs[i].rule = name => clock - st.runs[i].at >= CooldownOf(name)

LEMMA RecordKeeps ==
    ASSUME clock \in Nat, NEW st, StateOK(st), NEW name \in Names, ~IsCoolingDown(st, name)
    PROVE  StateOK(RecordTrigger(st, name)) /\ Rested(RecordTrigger(st, name), name)
<1> DEFINE L == [m \in DOMAIN st.last \cup {name} |-> IF m = name THEN clock ELSE st.last[m]]
<1>0. st = [last |-> st.last, hour |-> st.hour, count |-> st.count, runs |-> st.runs]
  BY DEF StateOK
<1>1. RecordTrigger(st, name) = [last |-> L, hour |-> st.hour, count |-> st.count, runs |-> st.runs]
  BY <1>0 DEF RecordTrigger
<1>2. PICK rs \in Seq(Run) : rs = st.runs
  BY DEF StateOK
<1>3. /\ \A m \in DOMAIN st.last : st.last[m] \in Nat /\ st.last[m] <= clock
      /\ \A i \in 1..Len(rs) : rs[i].rule \in DOMAIN st.last /\ rs[i].at <= st.last[rs[i].rule]
  BY <1>2 DEF StateOK, LastOK
<1>4. \A i \in 1..Len(rs) : rs[i].at \in Nat
  BY RunFields
<1>5. DOMAIN L = DOMAIN st.last \cup {name} /\ L[name] = clock
      /\ \A m \in DOMAIN st.last : L[m] = IF m = name THEN clock ELSE st.last[m]
  OBVIOUS
<1>6. L = [m \in DOMAIN L |-> L[m]]
  OBVIOUS
<1> HIDE DEF L
<1>7. LastOK(L, rs)
  <2>1. \A m \in DOMAIN L : L[m] \in Nat /\ L[m] <= clock
    BY <1>3, <1>5
  <2>2. ASSUME NEW i \in 1..Len(rs) PROVE rs[i].rule \in DOMAIN L /\ rs[i].at <= L[rs[i].rule]
    <3>1. /\ rs[i].rule \in DOMAIN st.last /\ rs[i].at <= st.last[rs[i].rule]
          /\ st.last[rs[i].rule] \in Nat /\ st.last[rs[i].rule] <= clock /\ rs[i].at \in Nat
      BY <1>3, <1>4
    <3>2. rs[i].at <= clock
      BY <3>1
    <3> QED BY <1>5, <3>1, <3>2
  <2> QED BY <1>6, <2>1, <2>2 DEF LastOK
<1>8. StateOK(RecordTrigger(st, name))
  BY <1>1, <1>2, <1>7 DEF StateOK
<1>9. CooldownOf(name) \in Int
  BY CooldownFound
<1>10. ASSUME NEW i \in 1..Len(rs), rs[i].rule = name
       PROVE  clock - rs[i].at >= CooldownOf(name)
  <2>1. /\ name \in DOMAIN st.last /\ rs[i].at <= st.last[name] /\ st.last[name] \in Nat
        /\ rs[i].at \in Nat
    BY <1>3, <1>4, <1>10
  <2>2. ~(clock - st.last[name] < CooldownOf(name))
    BY <2>1 DEF IsCoolingDown
  <2> HIDE DEF CooldownOf
  <2> QED BY <1>9, <2>1, <2>2
<1>11. Rested(RecordTrigger(st, name), name)
  BY <1>1, <1>2, <1>5, <1>10 DEF Rested
<1> QED BY <1>8, <1>11

\* A set of runs is finite.
LEMMA EvalsFinite ==
    ASSUME NEW rs \in Seq(Run), NEW h
    PROVE  /\ IsFiniteSet(Evals(rs, h)) /\ Cardinality(Evals(rs, h)) \in Nat
           /\ Evals(rs, h) \subseteq 1..Len(rs)
<1>1. Len(rs) \in Nat
  OBVIOUS
<1>2. IsFiniteSet(1..Len(rs)) /\ Evals(rs, h) \subseteq 1..Len(rs)
  BY <1>1, FS_Interval DEF Evals
<1> QED BY <1>2, FS_Subset, FS_CardinalityType

\* After CheckRateLimit has looked at the clock, the counter is for this hour.
LEMMA NewHourKeeps ==
    ASSUME clock \in Nat, NEW st, StateOK(st)
    PROVE  /\ StateOK(NewHour(st)) /\ Hour(NewHour(st).hour) = Hour(clock)
           /\ NewHour(st).last = st.last /\ NewHour(st).runs = st.runs
<1>0. st = [last |-> st.last, hour |-> st.hour, count |-> st.count, runs |-> st.runs]
  BY DEF StateOK
<1>1. CASE Hour(clock) = Hour(st.hour)
  BY <1>1 DEF NewHour, Hour
<1>2. CASE Hour(clock) # Hour(st.hour)
  <2>1. NewHour(st) = [last |-> st.last, hour |-> clock, count |-> 0, runs |-> st.runs]
    BY <1>0, <1>2 DEF NewHour, Hour
  <2>2. PICK rs \in Seq(Run) : rs = st.runs
    BY DEF StateOK
  <2>3. /\ st.hour \in Nat /\ st.hour <= clock
        /\ \A i \in 1..Len(rs) : rs[i].kind = "evaluate" => Hour(rs[i].at) <= Hour(st.hour)
        /\ \A h \in Nat : Cardinality(Evals(rs, h)) <= MaxEvals
    BY <2>2 DEF StateOK, HourOK
  <2>4. Hour(st.hour) \in Nat /\ Hour(clock) \in Nat /\ Hour(st.hour) < Hour(clock)
    <3>1. Hour(st.hour) \in Nat /\ Hour(clock) \in Nat /\ Hour(st.hour) <= Hour(clock)
      BY <2>3, HourMonotone, Zenon
    <3> QED BY <1>2, <3>1
  <2>5. ASSUME NEW i \in 1..Len(rs), rs[i].kind = "evaluate"
        PROVE  Hour(rs[i].at) < Hour(clock)
    <3>1. rs[i].at \in Nat
      BY RunFields
    <3>2. Hour(rs[i].at) \in Nat
      BY <3>1, HourNat, Zenon
    <3>3. Hour(rs[i].at) <= Hour(st.hour)
      BY <2>3, <2>5
    <3> QED BY <2>4, <3>2, <3>3
  <2>6. ASSUME NEW i \in 1..Len(rs), rs[i].kind = "evaluate"
        PROVE  Hour(rs[i].at) # Hour(clock) /\ Hour(rs[i].at) <= Hour(clock)
    <3>1. rs[i].at \in Nat
      BY RunFields
    <3>2. Hour(rs[i].at) \in Nat
      BY <3>1, HourNat, Zenon
    <3> QED BY <2>4, <2>5, <2>6, <3>2
  <2>7. Cardinality(Evals(rs, Hour(clock))) = 0
    <3>1. Evals(rs, Hour(clock)) = {}
      BY <2>6 DEF Evals
    <3> QED BY <3>1, FS_EmptySet
  <2>8. MaxEvals \in Nat
    BY TriggerAssumption
  <2> HIDE DEF Hour, Evals
  <2>9. HourOK(clock, 0, rs)
    BY <2>3, <2>6, <2>7, <2>8 DEF HourOK
  <2> QED BY <2>1, <2>2, <2>9 DEF StateOK
<1> QED BY <1>1, <1>2

\* A run is appended: cooldown and order are kept.
LEMMA AppendKeeps ==
    ASSUME clock \in Nat, NEW rs \in Seq(Run), NEW x \in Run, x.at = clock,
           NEW last, LastOK(last, rs), ApartOK(rs),
           x.rule \in DOMAIN last, last[x.rule] = clock,
           \A i \in 1..Len(rs) : rs[i].rule = x.rule => clock - rs[i].at >= CooldownOf(x.rule)
    PROVE  /\ Append(rs, x) \in Seq(Run)
           /\ LastOK(last, Append(rs, x)) /\ ApartOK(Append(rs, x))
<1>1. PICK q \in Seq(Run) : q = Append(rs, x)
  BY AppendProperties
<1>2. /\ Len(rs) \in Nat /\ Len(q) = Len(rs) + 1 /\ q[Len(rs) + 1] = x
      /\ \A i \in 1..Len(rs) : q[i] = rs[i]
  BY <1>1, AppendProperties
<1>3. ASSUME NEW i \in 1..Len(q) PROVE i = Len(rs) + 1 \/ i \in 1..Len(rs)
  BY <1>2
<1>4. LastOK(last, q)
  <2>1. ASSUME NEW i \in 1..Len(q) PROVE q[i].rule \in DOMAIN last /\ q[i].at <= last[q[i].rule]
    <3>1. CASE i = Len(rs) + 1
      BY <1>2, <3>1
    <3>2. CASE i \in 1..Len(rs)
      BY <1>2, <3>2 DEF LastOK
    <3> QED BY <1>3, <3>1, <3>2
  <2> QED BY <2>1 DEF LastOK
<1>5. ApartOK(q)
  <2>1. ASSUME NEW i \in 1..Len(q), NEW j \in 1..Len(q), i < j, q[i].rule = q[j].rule
        PROVE  q[j].at - q[i].at >= CooldownOf(q[i].rule)
    <3>1. i \in 1..Len(rs)
      BY <1>2, <2>1
    <3>2. CASE j = Len(rs) + 1
      BY <1>2, <2>1, <3>1, <3>2
    <3>3. CASE j \in 1..Len(rs)
      BY <1>2, <2>1, <3>1, <3>3 DEF ApartOK
    <3> QED BY <1>3, <3>2, <3>3
  <2> QED BY <2>1 DEF ApartOK
<1> QED BY <1>1, <1>4, <1>5

\* A run that is not an evaluation leaves the counts alone.
LEMMA DirectKeepsHours ==
    ASSUME NEW rs \in Seq(Run), NEW x \in Run, x.kind = "direct",
           NEW hour, NEW count, HourOK(hour, count, rs)
    PROVE  HourOK(hour, count, Append(rs, x))
<1>1. PICK q \in Seq(Run) : q = Append(rs, x)
  BY AppendProperties
<1>2. /\ Len(rs) \in Nat /\ Len(q) = Len(rs) + 1 /\ q[Len(rs) + 1] = x
      /\ \A i \in 1..Len(rs) : q[i] = rs[i]
  BY <1>1, AppendProperties
<1>3. ASSUME NEW i \in 1..Len(q), q[i].kind = "evaluate" PROVE i \in 1..Len(rs)
  BY <1>2, <1>3
<1>4. ASSUME NEW h PROVE Evals(q, h) = Evals(rs, h)
  <2>1. 1..Len(rs) \subseteq 1..Len(q)
    BY <1>2
  <2> QED BY <1>2, <1>3, <2>1 DEF Evals
<1>5. \A i \in 1..Len(q) : q[i].kind = "evaluate" => Hour(q[i].at) <= Hour(hour)
  BY <1>2, <1>3 DEF HourOK
<1>6. Cardinality(Evals(q, Hour(hour))) <= count /\ \A h \in Nat : Cardinality(Evals(q, h)) <= MaxEvals
  BY <1>4 DEF HourOK
<1> QED BY <1>1, <1>5, <1>6 DEF HourOK

\* An evaluation counts for the hour of the clock.
LEMMA EvaluationCounted ==
    ASSUME clock \in Nat, NEW rs \in Seq(Run), NEW x \in Run, x.kind = "evaluate", x.at = clock,
           NEW hour, NEW count, HourOK(hour, count, rs), Hour(hour) = Hour(clock),
           count < MaxEvals
    PROVE  HourOK(hour, count + 1, Append(rs, x))
<1>1. PICK q \in Seq(Run) : q = Append(rs, x)
  BY AppendProperties
<1>2. /\ Len(rs) \in Nat /\ Len(q) = Len(rs) + 1 /\ q[Len(rs) + 1] = x
      /\ \A i \in 1..Len(rs) : q[i] = rs[i]
  BY <1>1, AppendProperties
<1>3. ASSUME NEW i \in 1..Len(q) PROVE i = Len(rs) + 1 \/ i \in 1..Len(rs)
  BY <1>2
<1>4. Hour(clock) \in Nat /\ MaxEvals \in Nat /\ count \in Nat /\ count + 1 \in 0..MaxEvals
  BY HourNat, TriggerAssumption DEF HourOK
<1>5. ASSUME NEW i \in 1..Len(q), q[i].kind = "evaluate" PROVE Hour(q[i].at) <= Hour(hour)
  <2>1. CASE i = Len(rs) + 1
    BY <1>2, <1>4, <2>1
  <2>2. CASE i \in 1..Len(rs)
    BY <1>2, <1>5, <2>2 DEF HourOK
  <2> QED BY <1>3, <2>1, <2>2
<1>6. 1..Len(rs) \subseteq 1..Len(q) /\ Len(rs) + 1 \in 1..Len(q) /\ Len(rs) + 1 \notin 1..Len(rs)
  BY <1>2
<1>7. ASSUME NEW h, h # Hour(clock) PROVE Evals(q, h) = Evals(rs, h)
  BY <1>2, <1>3, <1>6, <1>7 DEF Evals
<1>8. Evals(q, Hour(clock)) = Evals(rs, Hour(clock)) \cup {Len(rs) + 1}
  BY <1>2, <1>3, <1>6 DEF Evals
<1>9. /\ Cardinality(Evals(rs, Hour(clock))) \in Nat /\ IsFiniteSet(Evals(rs, Hour(clock)))
      /\ Len(rs) + 1 \notin Evals(rs, Hour(clock))
  BY <1>6, EvalsFinite
<1> HIDE DEF Hour, Evals
<1>10. Cardinality(Evals(q, Hour(clock))) = Cardinality(Evals(rs, Hour(clock))) + 1
  BY <1>8, <1>9, FS_AddElement
<1>11. Cardinality(Evals(rs, Hour(clock))) <= count
  BY DEF HourOK
<1>12. Cardinality(Evals(q, Hour(clock))) <= count + 1
  BY <1>4, <1>9, <1>10, <1>11
<1>13. ASSUME NEW h \in Nat PROVE Cardinality(Evals(q, h)) <= MaxEvals
  <2>1. CASE h = Hour(clock)
    <3>1. Cardinality(Evals(q, Hour(clock))) \in Nat
      BY <1>9, <1>10
    <3> QED BY <1>4, <1>12, <2>1, <3>1
  <2>2. CASE h # Hour(clock)
    BY <1>7, <2>2 DEF HourOK
  <2> QED BY <2>1, <2>2
<1> QED BY <1>1, <1>4, <1>5, <1>12, <1>13 DEF HourOK

\* One rule of OnEvent.
LEMMA ApplyRuleKeeps ==
    ASSUME clock \in Nat, NEW st, StateOK(st), NEW k \in Place, NEW e, NEW n \in Nat
    PROVE  StateOK(ApplyRule(st, Rules[k], e, n))
<1> DEFINE rule == Rules[k]
           rec == RecordTrigger(st, rule.name)
           lim == NewHour(rec)
           x(kind) == [rule |-> rule.name, kind |-> kind, by |-> n, at |-> clock,
                       call |-> ProcessPrompt(rule.name, EvalSession)]
<1>1. rule.name \in Names
  BY DEF Names
<1>2. x("direct") \in Run /\ x("evaluate") \in Run
  BY <1>1 DEF Run, ProcessPrompt
<1>3. CASE ~MatchRule(rule, e) \/ IsCoolingDown(st, rule.name)
  BY <1>3 DEF ApplyRule
<1>4. CASE ~(~MatchRule(rule, e) \/ IsCoolingDown(st, rule.name))
  <2>1. StateOK(rec) /\ Rested(rec, rule.name)
    BY <1>1, <1>4, RecordKeeps
  <2>2. StateOK(lim) /\ Hour(lim.hour) = Hour(clock) /\ lim.last = rec.last /\ lim.runs = rec.runs
    BY <2>1, NewHourKeeps
  <2>3. Rested(lim, rule.name)
    BY <2>1, <2>2 DEF Rested
  <2>4. ApplyRule(st, rule, e, n) =
           CASE rule.action = "direct" -> Spawn(rec, rule, n)
             [] rule.action = "evaluate" ->
                  IF LimitReached(lim.count) THEN lim
                  ELSE Spawn([lim EXCEPT !.count = @ + 1], rule, n)
             [] OTHER -> rec
    BY <1>4 DEF ApplyRule
  <2>5. CASE rule.action = "direct"
    <3>1. rec = [last |-> rec.last, hour |-> rec.hour, count |-> rec.count, runs |-> rec.runs]
      BY <2>1 DEF StateOK
    <3>2. ApplyRule(st, rule, e, n) =
             [last |-> rec.last, hour |-> rec.hour, count |-> rec.count,
              runs |-> Append(rec.runs, x("direct"))]
      <4> HIDE DEF rec, lim
      <4> QED BY <2>4, <2>5, <3>1 DEF Spawn
    <3>3. PICK y \in Run : y = x("direct") /\ y.rule = rule.name /\ y.at = clock /\ y.kind = "direct"
      BY <1>2
    <3> HIDE DEF rec, lim, x, rule
    <3>4. /\ Append(rec.runs, y) \in Seq(Run)
          /\ LastOK(rec.last, Append(rec.runs, y)) /\ ApartOK(Append(rec.runs, y))
      BY <2>1, <3>3, AppendKeeps DEF StateOK, Rested
    <3>5. HourOK(rec.hour, rec.count, Append(rec.runs, y))
      BY <2>1, <3>3, DirectKeepsHours DEF StateOK
    <3>6. PICK q : q = Append(rec.runs, y)
      OBVIOUS
    <3> QED BY <3>2, <3>3, <3>4, <3>5, <3>6 DEF StateOK, rule
  <2>6. CASE rule.action = "evaluate"
    <3>1. lim = [last |-> lim.last, hour |-> lim.hour, count |-> lim.count, runs |-> lim.runs]
      BY <2>2 DEF StateOK
    <3>2. CASE LimitReached(lim.count)
      <4>1. ApplyRule(st, rule, e, n) = lim
        <5> HIDE DEF rec, lim
        <5> QED BY <2>4, <2>6, <3>2
      <4> QED BY <2>2, <4>1
    <3>3. CASE ~LimitReached(lim.count)
      <4>1. ApplyRule(st, rule, e, n) =
               [last |-> lim.last, hour |-> lim.hour, count |-> lim.count + 1,
                runs |-> Append(lim.runs, x("evaluate"))]
        <5> HIDE DEF rec, lim
        <5> QED BY <2>4, <2>6, <3>1, <3>3 DEF Spawn
      <4>2. PICK y \in Run : y = x("evaluate") /\ y.rule = rule.name /\ y.at = clock
                             /\ y.kind = "evaluate"
        BY <1>2
      <4> HIDE DEF rec, lim, x, rule
      <4>3. /\ Append(lim.runs, y) \in Seq(Run)
            /\ LastOK(lim.last, Append(lim.runs, y)) /\ ApartOK(Append(lim.runs, y))
        BY <2>2, <2>3, <4>2, AppendKeeps DEF StateOK, Rested
      <4>4. lim.count < MaxEvals
        BY <2>2, <3>3, TriggerAssumption DEF LimitReached, StateOK, HourOK
      <4>5. HourOK(lim.hour, lim.count + 1, Append(lim.runs, y))
        BY <2>2, <4>2, <4>4, EvaluationCounted DEF StateOK
      <4>6. PICK q : q = Append(lim.runs, y)
        OBVIOUS
      <4> QED BY <4>1, <4>2, <4>3, <4>5, <4>6 DEF StateOK, rule
    <3> QED BY <3>2, <3>3
  <2>7. CASE rule.action # "direct" /\ rule.action # "evaluate"
    <3>1. ApplyRule(st, rule, e, n) = rec
      <4> HIDE DEF rec, lim
      <4> QED BY <2>4, <2>7
    <3> QED BY <2>1, <3>1
  <2> QED BY <2>5, <2>6, <2>7
<1> QED BY <1>3, <1>4

\* What ApplyRules has computed at place i.
After(st, e, n, f, i) ==
    IF i = 0 THEN st
    ELSE IF i \in Place THEN ApplyRule(f[i - 1], Rules[i], e, n)
    ELSE f[i - 1]

IsAfter(st, e, n, N, f) == f = [i \in 0..N |-> After(st, e, n, f, i)]

\* Such a function exists up to every place.
LEMMA AfterExists ==
    ASSUME NEW st, NEW e, NEW n, NEW N \in Nat
    PROVE  \E f : IsAfter(st, e, n, N, f)
<1> DEFINE T == {m \in Nat : ~\E f : IsAfter(st, e, n, m, f)}
<1>1. SUFFICES ASSUME T # {} PROVE FALSE
  BY Zenon
<1>2. PICK k \in T : \A l \in T : k <= l
  <2>1. T \in SUBSET Nat
    OBVIOUS
  <2> HIDE DEF T
  <2> QED BY <1>1, <2>1, LeastNat
<1>3. k \in Nat /\ ~\E f : IsAfter(st, e, n, k, f)
  OBVIOUS
<1>4. CASE k = 0
  <2>1. [i \in 0..0 |-> st] = [i \in 0..0 |-> After(st, e, n, [j \in 0..0 |-> st], i)]
    BY DEF After
  <2> QED BY <1>3, <1>4, <2>1 DEF IsAfter
<1>5. CASE k # 0
  <2>1. k - 1 \in Nat /\ ~(k <= k - 1)
    BY <1>3, <1>5
  <2>2. PICK f : f = [i \in 0..k - 1 |-> After(st, e, n, f, i)]
    BY <1>2, <2>1 DEF IsAfter
  <2> DEFINE g == [i \in 0..k |-> IF i = k THEN After(st, e, n, f, k) ELSE f[i]]
  <2>3. ASSUME NEW i \in 0..k PROVE g[i] = After(st, e, n, g, i)
    <3>1. i # 0 => i - 1 \in 0..k - 1 /\ i - 1 \in 0..k /\ i - 1 # k
      BY <1>3
    <3>2. i # 0 => g[i - 1] = f[i - 1]
      BY <3>1
    <3>3. After(st, e, n, g, i) = After(st, e, n, f, i)
      <4> HIDE DEF g
      <4> QED BY <3>2 DEF After
    <3>4. CASE i = k
      BY <3>3, <3>4
    <3>5. CASE i # k
      <4>1. i \in 0..k - 1
        BY <1>3, <3>5
      <4>2. f[i] = After(st, e, n, f, i)
        BY <2>2, <4>1
      <4> QED BY <3>3, <3>5, <4>2
    <3> QED BY <3>4, <3>5
  <2>4. g = [i \in 0..k |-> g[i]]
    OBVIOUS
  <2> HIDE DEF g
  <2>5. g = [i \in 0..k |-> After(st, e, n, g, i)]
    BY <2>3, <2>4
  <2> QED BY <1>3, <2>5 DEF IsAfter
<1> QED BY <1>4, <1>5

LEMMA ApplyRulesIs ==
    ASSUME NEW st, NEW e, NEW n
    PROVE  ApplyRules(st, e, n) =
             [i \in 0..Len(Config) |-> After(st, e, n, ApplyRules(st, e, n), i)]
<1>0. Len(Config) \in Nat
  BY TriggerAssumption
<1>1. \E f : f = [i \in 0..Len(Config) |-> After(st, e, n, f, i)]
  <2>1. PICK N \in Nat : N = Len(Config)
    BY <1>0
  <2>2. \E f : IsAfter(st, e, n, N, f)
    BY AfterExists
  <2> QED BY <2>1, <2>2 DEF IsAfter
<1>2. ApplyRules(st, e, n) = CHOOSE f : f = [i \in 0..Len(Config) |-> After(st, e, n, f, i)]
  BY DEF ApplyRules, After
<1> QED BY <1>1, <1>2

\* All rules of OnEvent, one after the other.
LEMMA ApplyRulesKeeps ==
    ASSUME clock \in Nat, NEW st, StateOK(st), NEW e, NEW n \in Nat
    PROVE  StateOK(ApplyRules(st, e, n)[Len(Config)])
<1>0. PICK N \in Nat : N = Len(Config)
  BY TriggerAssumption
<1>1. PICK f : f = ApplyRules(st, e, n) /\ f = [i \in 0..N |-> After(st, e, n, f, i)]
  BY <1>0, ApplyRulesIs
<1>2. \A i \in 0..N : f[i] = After(st, e, n, f, i)
  BY <1>1
<1> DEFINE T == {i \in 0..N : ~StateOK(f[i])}
<1>3. SUFFICES ASSUME T # {} PROVE FALSE
  <2>1. N \in 0..N
    OBVIOUS
  <2> QED BY <1>0, <1>1, <2>1, Zenon
<1>4. PICK k \in T : \A l \in T : k <= l
  <2>1. T \in SUBSET Nat
    OBVIOUS
  <2> HIDE DEF T
  <2> QED BY <1>3, <2>1, LeastNat
<1>5. k \in 0..N /\ ~StateOK(f[k])
  OBVIOUS
<1>6. k # 0
  <2>1. f[0] = st
    BY <1>2 DEF After
  <2> QED BY <1>5, <2>1
<1>7. k - 1 \in 0..N /\ ~(k <= k - 1)
  BY <1>5, <1>6
<1>8. StateOK(f[k - 1])
  BY <1>4, <1>7
<1>9. CASE k \in Place
  <2>1. f[k] = ApplyRule(f[k - 1], Rules[k], e, n)
    BY <1>2, <1>5, <1>6, <1>9 DEF After
  <2> QED BY <1>5, <1>8, <1>9, <2>1, ApplyRuleKeeps
<1>10. CASE k \notin Place
  <2>1. f[k] = f[k - 1]
    BY <1>2, <1>5, <1>6, <1>10 DEF After
  <2> QED BY <1>5, <1>8, <2>1
<1> QED BY <1>9, <1>10

LEMMA TriggerInvInit ==
    ASSUME Init
    PROVE  TriggerInv
<1>1. clock = 0 /\ TriggerState = [last |-> [m \in {} |-> 0], hour |-> 0, count |-> 0, runs |-> <<>>]
  BY DEF Init, TriggerInit, TriggerState
<1>2. PICK rs \in Seq(Run) : rs = <<>>
  <2>1. <<>> \in Seq(Run)
    OBVIOUS
  <2> QED BY <2>1, Zenon
<1>3. LastOK([m \in {} |-> 0], rs) /\ ApartOK(rs)
  BY <1>2 DEF LastOK, ApartOK
<1>4. ASSUME NEW h PROVE Cardinality(Evals(rs, h)) = 0
  <2>1. Evals(rs, h) = {}
    BY <1>2 DEF Evals
  <2> QED BY <2>1, FS_EmptySet
<1>5. HourOK(0, 0, rs)
  BY <1>1, <1>2, <1>4, TriggerAssumption DEF HourOK
<1> QED BY <1>1, <1>2, <1>3, <1>5 DEF TriggerInv, StateOK

LEMMA TriggerInvStep ==
    ASSUME TriggerInv, cur \in Nat, [Next]_vars
    PROVE  TriggerInv'
<1>1. clock \in Nat /\ StateOK(TriggerState)
  BY DEF TriggerInv
<1>2. ASSUME UNCHANGED <<clock, lastTrigger, hourStart, evalCount, runs>> PROVE TriggerInv'
  BY <1>1, <1>2 DEF TriggerInv, TriggerState, StateOK, LastOK, ApartOK, HourOK
<1>3. CASE StartTrigger \/ StopTrigger
  BY <1>2, <1>3 DEF StartTrigger, StopTrigger, TriggerStart, TriggerStop
<1>4. CASE StopBus \/ (BusOnly /\ UNCHANGED triggerVars)
  BY <1>2, <1>4 DEF StopBus, triggerVars
<1>5. CASE (DispatchOwn \/ \E c \in Others : Deliver(c)) /\ UNCHANGED triggerVars
  BY <1>2, <1>5 DEF triggerVars
<1>6. CASE DeliverTrigger
  <2> DEFINE end == ApplyRules(TriggerState, published[cur], cur)[Len(Config)]
  <2>1. /\ lastTrigger' = end.last /\ hourStart' = end.hour /\ evalCount' = end.count
        /\ runs' = end.runs /\ clock' = clock
    BY <1>6 DEF DeliverTrigger, OnEvent, TriggerState
  <2>2. StateOK(end)
    BY <1>1, ApplyRulesKeeps
  <2> HIDE DEF end
  <2>3. end = [last |-> end.last, hour |-> end.hour, count |-> end.count, runs |-> end.runs]
    BY <2>2 DEF StateOK
  <2>4. TriggerState' = end
    BY <2>1, <2>3 DEF TriggerState
  <2>5. PICK z : z = end
    OBVIOUS
  <2>6. StateOK(z)'
    BY <2>1, <2>2, <2>5 DEF StateOK, LastOK, ApartOK, HourOK
  <2> QED BY <1>1, <2>1, <2>4, <2>5, <2>6 DEF TriggerInv
<1>7. CASE Minute /\ UNCHANGED busVars
  <2>1. clock' = clock + 1 /\ UNCHANGED <<lastTrigger, hourStart, evalCount, runs>>
    BY <1>7 DEF Minute
  <2>2. PICK z : z = TriggerState
    OBVIOUS
  <2>3. TriggerState' = z
    BY <2>1, <2>2 DEF TriggerState
  <2>4. LastOK(z.last, z.runs) /\ ApartOK(z.runs) /\ HourOK(z.hour, z.count, z.runs)
    BY <1>1, <2>2 DEF StateOK
  <2>5. LastOK(z.last, z.runs)'
    <3>1. \A m \in DOMAIN z.last : z.last[m] \in Nat /\ z.last[m] <= clock'
      BY <1>1, <2>1, <2>4 DEF LastOK
    <3> QED BY <2>4, <3>1 DEF LastOK
  <2>6. HourOK(z.hour, z.count, z.runs)'
    <3>1. z.hour \in Nat /\ z.hour <= clock'
      BY <1>1, <2>1, <2>4 DEF HourOK
    <3> QED BY <2>4, <3>1 DEF HourOK
  <2>7. StateOK(z)'
    BY <1>1, <2>2, <2>4, <2>5, <2>6 DEF StateOK, ApartOK
  <2> QED BY <1>1, <2>1, <2>3, <2>7 DEF TriggerInv
<1>8. CASE UNCHANGED vars
  BY <1>2, <1>8 DEF vars, triggerVars
<1> QED BY <1>3, <1>4, <1>5, <1>6, <1>7, <1>8 DEF Next, Dispatch

LEMMA TriggerInvAlways == Spec => []TriggerInv
<1>1. BusSpec => []LogInv
  BY LogInvInit, LogInvStep, PTL DEF BusSpec
<1>2. LogInv => cur \in Nat
  BY DEF LogInv, LogTypeOK
<1>3. Spec => [](cur \in Nat)
  BY <1>1, <1>2, SystemContainsBus, PTL
<1> QED BY <1>3, TriggerInvInit, TriggerInvStep, PTL DEF Spec

\* Two runs of a rule are its cooldown apart, for every list of rules, however
\* many events match and whatever other rules do in between
\* (AutonomousTrigger::IsCoolingDown and RecordTrigger).
THEOREM CooldownKeptAlways == Spec => []CooldownKept
<1>1. TriggerInv => CooldownKept
  <2> SUFFICES ASSUME TriggerInv, NEW i \in 1..Len(runs), NEW j \in 1..Len(runs),
                      i < j, runs[i].rule = runs[j].rule
               PROVE  \E k \in Place : /\ Rules[k].name = runs[i].rule
                                       /\ runs[j].at - runs[i].at >= Rules[k].cooldown
    BY DEF CooldownKept
  <2>1. runs \in Seq(Run) /\ ApartOK(runs)
    BY DEF TriggerInv, StateOK, TriggerState
  <2>2. runs[i] \in Run
    BY <2>1
  <2>3. runs[i].rule \in Names
    BY <2>2 DEF Run
  <2>4. PICK k \in Place : Rules[k].name = runs[i].rule /\ Rules[k].cooldown = CooldownOf(runs[i].rule)
    BY <2>3, CooldownFound
  <2>5. runs[j].at - runs[i].at >= CooldownOf(runs[i].rule)
    BY <2>1 DEF ApartOK
  <2> QED BY <2>4, <2>5
<1> QED BY <1>1, TriggerInvAlways, PTL

\* In no hour of the clock do more than MaxEvals runs go to the model for
\* evaluation (AutonomousTrigger::CheckRateLimit), for every list of rules.
THEOREM EvaluationsLimitedAlways == Spec => []EvaluationsLimited
<1>1. TriggerInv => EvaluationsLimited
  <2> SUFFICES ASSUME TriggerInv, NEW h \in 0..(MaxClock \div HourLength)
               PROVE  Cardinality(Evals(runs, h)) <= MaxEvals
    BY DEF EvaluationsLimited, Evals, Hour
  <2>1. \A g \in Nat : Cardinality(Evals(runs, g)) <= MaxEvals
    BY DEF TriggerInv, StateOK, TriggerState, HourOK
  <2>2. h \in Nat
    <3>1. Hour(MaxClock) \in Nat
      BY HourNat, TriggerAssumption
    <3> QED BY <3>1 DEF Hour
  <2> QED BY <2>1, <2>2
<1> QED BY <1>1, TriggerInvAlways, PTL
=============================================================================
