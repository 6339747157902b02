------------------------- MODULE ActionBridgeProofs -------------------------
(***************************************************************************)
(* The safety of the action bridge, for any number of callers, requests,   *)
(* actions and changes.  CallInv is about promises and callers, ExecInv    *)
(* about executions, FileInv about the files; each is inductive given the  *)
(* typing of the channel, which ExecInv includes.                          *)
(***************************************************************************)
EXTENDS ActionBridge, TLAPS

CallTyped ==
    /\ started \in BOOLEAN /\ sender \in BOOLEAN
    /\ stop \in {"no", "closing", "failing", "done"}
    /\ nextId \in Nat \ {0}
    /\ pending \subseteq Id
    /\ value \in [Id -> Reply]
    /\ pc \in [Caller -> {"idle", "checked"} \cup Waiting]
    /\ my \in [Caller -> {0} \cup Id]

\* A caller in SendRequest has a number of its own, already handed out.
NumberTaken == \A c \in Caller : pc[c] # "idle" => my[c] \in Id /\ my[c] < nextId
NumberOwn ==
    \A c, d \in Caller : pc[c] # "idle" /\ pc[d] # "idle" /\ my[c] = my[d] => c = d

\* An answer lies in the promise of a caller that has not returned, and a caller
\* with neither an entry nor an answer has not entered its promise yet.
ValueOwned ==
    \A i \in Id : value[i] # Unset => \E c \in Caller : my[c] = i /\ pc[c] \in Waiting
WaiterCovered ==
    \A c \in Caller : pc[c] \in Waiting => my[c] \in pending \/ value[my[c]] # Unset

StopEnds ==
    /\ stop # "no" => ~sender
    /\ stop \in {"failing", "done"} => ~started

CallInv ==
    /\ CallTyped /\ NumberTaken /\ NumberOwn
    /\ PendingExact /\ ValueOwned /\ WaiterCovered
    /\ OwnAnswer /\ StopEnds /\ StoppedNobodyWaits

\* An execution is recorded for the request that started it, or no longer.
ExecInv ==
    /\ requests \in Seq([id : Id, cmd : Command])
    /\ nextExec \in Nat \ {0}
    /\ execToReq \in [1..nextExec - 1 -> {0} \cup Id]
    /\ executing \subseteq [exec : 1..nextExec - 1, req : Id]
    /\ \A x \in executing : execToReq[x.exec] \in {0, x.req}

FileTyped ==
    /\ started \in BOOLEAN /\ client \in BOOLEAN /\ handler \in BOOLEAN /\ synced \in BOOLEAN
    /\ installed \in [Action -> {0} \cup Version]
    /\ events \in Seq([action : Action, gone : BOOLEAN])
    /\ changes \in Nat
    /\ files \in [Action -> {0} \cup Version]
    /\ failed \in [Action -> BOOLEAN]

\* Events come to a registered handler, which belongs to a client, and before
\* there is a client nothing has been synchronised.
HandlerHasClient ==
    /\ ~handler => events = <<>>
    /\ ~client => ~handler
    /\ started /\ ~client => ~synced

\* The last event about an action tells whether it is installed.
LastEventTrue ==
    \A i \in 1..Len(events) :
        (\A j \in 1..Len(events) : i < j => events[j].action # events[i].action)
            => (events[i].gone <=> installed[events[i].action] = 0)

\* A file differs from its action only if an event about it is on its way.
FileOrEvent ==
    synced /\ handler =>
        \A a \in Action :
            failed[a] \/ files[a] = installed[a]
                \/ \E i \in 1..Len(events) : events[i].action = a

FileInv == FileTyped /\ HandlerHasClient /\ LastEventTrue /\ FileOrEvent
-----------------------------------------------------------------------------
\* Unset is neither an error nor an answer, so a resolved promise is told from one
\* that is not.
LEMMA Replies ==
    /\ Error \in Reply /\ Unset \in Reply /\ Error # Unset /\ Error.kind # "answer"
    /\ \A i \in Id : Answer(i) \in Reply /\ Answer(i) # Unset /\ Answer(i).req = i
    /\ Unset.kind # "answer"
  BY DEF Reply, Error, Unset, Answer

\* SendRequest, from the number to the wait.
LEMMA CallInvCall ==
    ASSUME NEW c \in Caller, CallInv, Call(c)
    PROVE  CallInv'
  <1> USE BridgeAssumption DEF CallInv, CallTyped, Call, callerRest, Id, Waiting
  <1>1. CallTyped'
    OBVIOUS
  <1>2. NumberTaken' /\ NumberOwn'
    BY DEF NumberTaken, NumberOwn
  <1>3. PendingExact'
    BY DEF PendingExact
  <1>4. ValueOwned'
    BY DEF ValueOwned
  <1>5. WaiterCovered' /\ OwnAnswer' /\ StopEnds' /\ StoppedNobodyWaits'
    BY DEF WaiterCovered, OwnAnswer, StopEnds, StoppedNobodyWaits
  <1> QED
    BY <1>1, <1>2, <1>3, <1>4, <1>5

LEMMA CallInvInsert ==
    ASSUME NEW c \in Caller, CallInv, Insert(c)
    PROVE  CallInv'
  <1> USE BridgeAssumption DEF CallInv, CallTyped, Insert, callerRest, Waiting
  <1>1. my[c] \in Id /\ value[my[c]] = Unset
    BY DEF NumberTaken, NumberOwn, ValueOwned
  <1>2. CallTyped'
    BY <1>1
  <1>3. NumberTaken' /\ NumberOwn'
    BY DEF NumberTaken, NumberOwn
  <1>4. PendingExact'
    BY <1>1 DEF PendingExact
  <1>5. ValueOwned' /\ WaiterCovered'
    BY DEF ValueOwned, WaiterCovered
  <1>6. OwnAnswer' /\ StopEnds' /\ StoppedNobodyWaits'
    BY DEF OwnAnswer, StopEnds, StoppedNobodyWaits
  <1> QED
    BY <1>2, <1>3, <1>4, <1>5, <1>6

\* Sending and timing out move a caller from one place with a promise to another.
LEMMA CallInvMove ==
    ASSUME NEW c \in Caller, CallInv,
           pc[c] \in Waiting, NEW w \in Waiting, pc' = [pc EXCEPT ![c] = w],
           w = "waiting" => sender,
           UNCHANGED <<started, sender, stop, nextId, pending, value, my>>
    PROVE  CallInv'
  <1> USE DEF CallInv, CallTyped, Waiting
  <1>1. CallTyped' /\ NumberTaken' /\ NumberOwn'
    BY DEF NumberTaken, NumberOwn
  <1>2. PendingExact' /\ ValueOwned' /\ WaiterCovered'
    BY DEF PendingExact, ValueOwned, WaiterCovered
  <1>3. OwnAnswer' /\ StopEnds' /\ StoppedNobodyWaits'
    BY DEF OwnAnswer, StopEnds, StoppedNobodyWaits
  <1> QED
    BY <1>1, <1>2, <1>3

\* A caller returns, and its number is no longer pending.
LEMMA CallInvReturn ==
    ASSUME NEW c \in Caller, CallInv, pc[c] \in Waiting, Return(c),
           pending' = pending \ {my[c]},
           UNCHANGED <<started, sender, stop, nextId>>
    PROVE  CallInv'
  <1> USE Replies DEF CallInv, CallTyped, Waiting, Return
  <1>1. my[c] \in Id
    BY DEF NumberTaken
  <1>2. CallTyped' /\ NumberTaken' /\ NumberOwn'
    BY <1>1 DEF NumberTaken, NumberOwn
  <1>3. PendingExact'
    BY <1>1 DEF PendingExact
  <1>4. ValueOwned'
    BY <1>1 DEF ValueOwned
  <1>5. \A d \in Caller : d # c /\ pc[d] \in Waiting => my[d] # my[c]
    BY DEF NumberOwn
  <1>6. WaiterCovered' /\ StoppedNobodyWaits'
    BY <1>1, <1>5 DEF WaiterCovered, StoppedNobodyWaits, NumberTaken
  <1>7. OwnAnswer' /\ StopEnds'
    BY <1>1 DEF OwnAnswer, StopEnds
  <1> QED
    BY <1>2, <1>3, <1>4, <1>6, <1>7

\* SendResponse: a promise that is pending gets an error or the answer to its request.
LEMMA CallInvResponse ==
    ASSUME CallInv, NEW i \in Id, NEW r \in {Error, Answer(i)}, started,
           SendResponse(i, r), UNCHANGED workerRest
    PROVE  CallInv'
  <1> USE Replies DEF CallInv, CallTyped, SendResponse, workerRest
  <1>1. CallTyped' /\ NumberTaken' /\ NumberOwn'
    BY DEF NumberTaken, NumberOwn
  <1>2. PendingExact'
    BY DEF PendingExact
  <1>3. ValueOwned' /\ WaiterCovered'
    BY DEF ValueOwned, WaiterCovered, PendingExact, NumberTaken, Waiting
  <1>4. OwnAnswer'
    BY DEF OwnAnswer
  <1>5. StopEnds' /\ StoppedNobodyWaits'
    BY DEF StopEnds, StoppedNobodyWaits
  <1> QED
    BY <1>1, <1>2, <1>3, <1>4, <1>5

\* Stop fails what is pending, and whoever waits has been answered.
LEMMA CallInvStopPending ==
    ASSUME CallInv, StopPending
    PROVE  CallInv'
  <1> USE Replies DEF CallInv, CallTyped, StopPending
  <1>1. CallTyped' /\ NumberTaken' /\ NumberOwn'
    BY DEF NumberTaken, NumberOwn
  <1>2. PendingExact' /\ ValueOwned'
    BY DEF PendingExact, ValueOwned
  <1>3. WaiterCovered' /\ StoppedNobodyWaits'
    BY DEF WaiterCovered, StoppedNobodyWaits, NumberTaken, Waiting
  <1>4. OwnAnswer' /\ StopEnds'
    BY DEF OwnAnswer, StopEnds
  <1> QED
    BY <1>1, <1>2, <1>3, <1>4

\* Steps that touch neither promises nor callers.
LEMMA CallInvStutter ==
    ASSUME CallInv, UNCHANGED <<callVars, started, sender, stop>>
    PROVE  CallInv'
  BY DEF CallInv, CallTyped, NumberTaken, NumberOwn, PendingExact, ValueOwned, WaiterCovered,
         OwnAnswer, StopEnds, StoppedNobodyWaits, callVars
-----------------------------------------------------------------------------
\* The request at the head of the channel has a number; the rest is a channel.
LEMMA HeadTyped ==
    ASSUME ExecInv, requests # <<>>
    PROVE  /\ Head(requests) \in [id : Id, cmd : Command]
           /\ Tail(requests) \in Seq([id : Id, cmd : Command])
  <1> DEFINE R == [id : Id, cmd : Command]
  <1>1. requests \in Seq(R)
    BY DEF ExecInv
  <1> HIDE DEF R
  <1>2. Head(requests) \in R /\ Tail(requests) \in Seq(R)
    BY <1>1
  <1> QED
    BY <1>2 DEF R

\* HandleExecute: the new execution has a number of its own.
LEMMA ExecInvExecute ==
    ASSUME ExecInv, HandleExecute
    PROVE  ExecInv'
  <1> DEFINE i == Head(requests).id
  <1>1. /\ i \in Id
        /\ requests' \in Seq([id : Id, cmd : Command])
        /\ nextExec' = nextExec + 1 /\ nextExec \in Nat \ {0}
    BY HeadTyped DEF HandleExecute, Receive, ExecInv
  <1>2. execToReq' = [e \in 1..nextExec |-> IF e = nextExec THEN i ELSE execToReq[e]]
    BY DEF HandleExecute, Recorded, ExecId
  <1>3. executing' = executing \cup {[exec |-> nextExec, req |-> i]}
    BY DEF HandleExecute, ExecId
  <1>4. execToReq' \in [1..nextExec' - 1 -> {0} \cup Id]
    BY <1>1, <1>2 DEF ExecInv
  <1>5. executing' \subseteq [exec : 1..nextExec' - 1, req : Id]
    BY <1>1, <1>3 DEF ExecInv
  <1>6. ASSUME NEW x \in executing' PROVE execToReq'[x.exec] \in {0, x.req}
    <2>1. CASE x \in executing
      <3>1. x.exec \in 1..nextExec - 1 /\ execToReq[x.exec] \in {0, x.req}
        BY <2>1 DEF ExecInv
      <3> QED
        BY <3>1, <1>1, <1>2
    <2>2. CASE x = [exec |-> nextExec, req |-> i]
      BY <2>2, <1>1, <1>2
    <2> QED
      BY <1>3, <2>1, <2>2
  <1> QED
    BY <1>1, <1>4, <1>5, <1>6 DEF ExecInv

\* An execution that the framework refuses leaves an unused number.
LEMMA ExecInvRefused ==
    ASSUME ExecInv, ExecuteFails
    PROVE  ExecInv'
  <1>1. /\ requests' \in Seq([id : Id, cmd : Command])
        /\ nextExec' = nextExec + 1 /\ nextExec \in Nat \ {0} /\ executing' = executing
    BY HeadTyped DEF ExecuteFails, Receive, ExecInv
  <1>2. execToReq' = [e \in 1..nextExec |-> IF e = nextExec THEN 0 ELSE execToReq[e]]
    BY DEF ExecuteFails, Recorded, ExecId
  <1> QED
    BY <1>1, <1>2 DEF ExecInv

\* Every step keeps executions and requests together.
LEMMA ExecInvNext ==
    ASSUME CallInv, ExecInv, [Next]_vars
    PROVE  ExecInv'
  <1> DEFINE Channel == Seq([id : Id, cmd : Command])
  <1>1. ASSUME requests' \in Channel, UNCHANGED execVars PROVE ExecInv'
    BY <1>1 DEF ExecInv, execVars
  <1>2. ASSUME NEW c \in Caller, Call(c) \/ Insert(c) \/ SendFails(c) \/ Get(c) \/ TimeOut(c)
                                 \/ GiveUp(c)
        PROVE  ExecInv'
    BY <1>1, <1>2 DEF Call, Insert, SendFails, Get, TimeOut, GiveUp, callerRest, ExecInv
  <1>3. ASSUME NEW c \in Caller, NEW k \in Command, Send(c, k) PROVE ExecInv'
    <2>1. my[c] \in Id
      BY <1>3 DEF CallInv, NumberTaken, Send
    <2> QED
      BY <2>1, <1>1, <1>3 DEF Send, callerRest, ExecInv
  <1>4. CASE HandleError \/ HandleList \/ DoSync \/ \E k \in Command : HandleThrows(k)
    BY <1>1, <1>4, HeadTyped DEF HandleError, HandleList, DoSync, HandleThrows, Receive
  <1>5. ASSUME NEW x \in executing, OnActionResult(x) PROVE ExecInv'
    BY <1>5 DEF OnActionResult, ExecInv
  <1>6. CASE OnActionEvent \/ StopPending \/ \E a \in Action, v \in {0} \cup Version : Change(a, v)
    BY <1>1, <1>6 DEF OnActionEvent, StopPending, Change, ExecInv
  <1>7. CASE StopChannels \/ StopWorker
    <2>1. <<>> \in Channel
      OBVIOUS
    <2> QED
      BY <2>1, <1>1, <1>7 DEF StopChannels, StopWorker, ExecInv
  <1>8. CASE UNCHANGED vars
    BY <1>1, <1>8 DEF vars, ExecInv
  <1> QED
    BY <1>2, <1>3, <1>4, <1>5, <1>6, <1>7, <1>8, ExecInvExecute, ExecInvRefused
       DEF Next, CallerStep

\* Every step keeps promises and callers together.
LEMMA CallInvNext ==
    ASSUME CallInv, ExecInv, [Next]_vars
    PROVE  CallInv'
  <1>1. ASSUME NEW c \in Caller, Call(c) \/ Insert(c) PROVE CallInv'
    BY <1>1, CallInvCall, CallInvInsert
  <1>2. ASSUME NEW c \in Caller, NEW k \in Command, Send(c, k) PROVE CallInv'
    <2>1. "inserted" \in Waiting /\ "waiting" \in Waiting
      BY DEF Waiting
    <2> QED
      BY <2>1, <1>2, CallInvMove DEF Send, callerRest
  <1>3. ASSUME NEW c \in Caller, TimeOut(c) PROVE CallInv'
    <2>1. "waiting" \in Waiting /\ "late" \in Waiting
      BY DEF Waiting
    <2> QED
      BY <2>1, <1>3, CallInvMove DEF TimeOut, callerRest
  <1>4. ASSUME NEW c \in Caller, SendFails(c) \/ GiveUp(c) PROVE CallInv'
    <2>1. pc[c] \in Waiting
      BY <1>4 DEF SendFails, GiveUp, Waiting
    <2> QED
      BY <2>1, <1>4, CallInvReturn DEF SendFails, GiveUp, callerRest
  <1>5. ASSUME NEW c \in Caller, Get(c) PROVE CallInv'
    <2>1. pc[c] \in Waiting /\ my[c] \notin pending
      BY <1>5 DEF Get, Waiting, CallInv, PendingExact
    <2>2. pending' = pending \ {my[c]}
      BY <2>1, <1>5 DEF Get
    <2> QED
      BY <2>1, <2>2, <1>5, CallInvReturn DEF Get, callerRest
  <1>6. CASE HandleError \/ HandleList \/ DoSync \/ ExecuteFails
    <2>1. Head(requests).id \in Id /\ started
      BY <1>6, HeadTyped DEF HandleError, HandleList, DoSync, ExecuteFails, Receive
    <2> QED
      BY <2>1, <1>6, CallInvResponse DEF HandleError, HandleList, DoSync, ExecuteFails
  <1>7. ASSUME NEW x \in executing, OnActionResult(x) PROVE CallInv'
    <2>1. CASE execToReq[x.exec] = 0
      BY <2>1, <1>7, CallInvStutter DEF OnActionResult, workerRest, callVars
    <2>2. CASE execToReq[x.exec] # 0
      <3>1. execToReq[x.exec] = x.req /\ x.req \in Id
        BY <2>2 DEF ExecInv
      <3> QED
        BY <3>1, <2>2, <1>7, CallInvResponse DEF OnActionResult
    <2> QED
      BY <2>1, <2>2
  <1>8. CASE HandleExecute \/ OnActionEvent \/ (\E k \in Command : HandleThrows(k))
             \/ (\E a \in Action, v \in {0} \cup Version : Change(a, v)) \/ UNCHANGED vars
    BY <1>8, CallInvStutter
       DEF HandleExecute, OnActionEvent, HandleThrows, Change, workerRest, callVars, vars
  <1>9. CASE StopChannels \/ StopWorker
    <2>1. UNCHANGED callVars /\ stop' \in {"closing", "failing"} /\ sender' \in BOOLEAN
      BY <1>9 DEF StopChannels, StopWorker, CallInv, CallTyped
    <2>2. ~sender' /\ started' \in BOOLEAN /\ (stop' = "failing" => ~started')
      <3>1. CASE StopChannels
        <4>1. sender' = FALSE /\ started' = started /\ started \in BOOLEAN /\ stop' = "closing"
          BY <3>1 DEF StopChannels, CallInv, CallTyped
        <4> QED
          BY <4>1
      <3>2. CASE StopWorker
        <4>1. sender' = sender /\ started' = FALSE /\ stop = "closing"
          BY <3>2 DEF StopWorker
        <4>2. ~sender
          BY <4>1 DEF CallInv, StopEnds
        <4> QED
          BY <4>1, <4>2
      <3> QED
        BY <1>9, <3>1, <3>2
    <2>3. CallTyped' /\ StopEnds' /\ StoppedNobodyWaits'
      BY <2>1, <2>2 DEF callVars, CallInv, CallTyped, StopEnds, StoppedNobodyWaits
    <2>4. NumberTaken' /\ NumberOwn' /\ PendingExact' /\ ValueOwned' /\ WaiterCovered' /\ OwnAnswer'
      BY <2>1 DEF callVars, CallInv, NumberTaken, NumberOwn, PendingExact, ValueOwned,
                  WaiterCovered, OwnAnswer
    <2> QED
      BY <2>3, <2>4 DEF CallInv
  <1> QED
    BY <1>1, <1>2, <1>3, <1>4, <1>5, <1>6, <1>7, <1>8, <1>9, CallInvStopPending
       DEF Next, CallerStep

\* A bridge that has just started satisfies both.
LEMMA CallInvInit == Init => CallInv /\ ExecInv
  <1> SUFFICES ASSUME Init PROVE CallInv /\ ExecInv
    OBVIOUS
  <1>1. CallInv
    BY Replies DEF Init, CallInv, CallTyped, NumberTaken, NumberOwn, PendingExact, ValueOwned,
       WaiterCovered, OwnAnswer, StopEnds, StoppedNobodyWaits, Waiting
  <1>2. ExecInv
    BY DEF Init, ExecInv
  <1> QED
    BY <1>1, <1>2

\* The callers' invariant holds for any number of callers and requests.
LEMMA CallInvAlways == Spec => [](CallInv /\ ExecInv)
  BY CallInvInit, CallInvNext, ExecInvNext, PTL DEF Spec

\* A promise only ever gets the answer to its own request or an error, in whatever
\* order executions end and callers give up.
THEOREM OwnAnswerAlways == Spec => []OwnAnswer
  <1>1. CallInv /\ ExecInv => OwnAnswer
    BY DEF CallInv
  <1> QED
    BY <1>1, CallInvAlways, PTL

\* pending_ holds no promise that is resolved or whose caller has left.
THEOREM PendingExactAlways == Spec => []PendingExact
  <1>1. CallInv /\ ExecInv => PendingExact
    BY DEF CallInv
  <1> QED
    BY <1>1, CallInvAlways, PTL

\* When Stop has returned, nobody waits for an answer that cannot come.
THEOREM StoppedNobodyWaitsAlways == Spec => []StoppedNobodyWaits
  <1>1. CallInv /\ ExecInv => StoppedNobodyWaits
    BY DEF CallInv
  <1> QED
    BY <1>1, CallInvAlways, PTL
-----------------------------------------------------------------------------
\* The empty queue of events.
LEMMA NoEvents == <<>> \in Seq([action : Action, gone : BOOLEAN]) /\ Len(<<>>) = 0
  OBVIOUS

\* The files.  Steps of callers and executions leave them alone.
LEMMA FileInvStutter ==
    ASSUME FileInv, UNCHANGED <<started, client, handler, fileVars>>
    PROVE  FileInv'
  BY DEF FileInv, FileTyped, HandlerHasClient, LastEventTrue, FileOrEvent, fileVars

\* A request that does not synchronise may make the client and write the files of
\* some actions as they are.
LEMMA FileInvReceive ==
    ASSUME FileInv, started, UNCHANGED <<started, installed, events, changes, failed, synced>>,
           client' \in BOOLEAN, handler' \in BOOLEAN,
           client' => (client => handler' = handler),
           ~client' => ~client /\ ~handler',
           files' \in [Action -> {0} \cup Version],
           \A a \in Action : files'[a] \in {files[a], installed[a]}
    PROVE  FileInv'
  <1> USE DEF FileInv, FileTyped
  <1>1. FileTyped'
    OBVIOUS
  <1>2. HandlerHasClient'
    BY DEF HandlerHasClient
  <1>3. LastEventTrue'
    BY DEF LastEventTrue
  <1>4. FileOrEvent'
    BY DEF FileOrEvent, HandlerHasClient
  <1> QED
    BY <1>1, <1>2, <1>3, <1>4

\* DoSync: every file is written or its failure noted.
LEMMA FileInvSync ==
    ASSUME FileInv, DoSync
    PROVE  FileInv'
  <1> USE DEF FileInv, FileTyped, DoSync, Receive, workerRest
  <1>1. PICK F \in SUBSET Action, N \in SUBSET Action :
            files' = SyncFiles(F, N) /\ failed' = [a \in Action |-> a \in F \cup N]
    OBVIOUS
  <1>2. FileTyped'
    BY <1>1 DEF SyncFiles
  <1>3. HandlerHasClient' /\ LastEventTrue'
    BY DEF HandlerHasClient, LastEventTrue
  <1>4. FileOrEvent'
    BY <1>1 DEF FileOrEvent, SyncFiles
  <1> QED
    BY <1>2, <1>3, <1>4

\* Change: a registered handler is told, and the new event is the last.
LEMMA FileInvChange ==
    ASSUME NEW a \in Action, NEW v \in {0} \cup Version, FileInv, Change(a, v)
    PROVE  FileInv'
  <1> DEFINE E == [action : Action, gone : BOOLEAN]
             e == [action |-> a, gone |-> v = 0]
  <1>0. e \in E /\ e.action = a /\ (e.gone <=> v = 0)
    OBVIOUS
  <1>1. /\ events \in Seq(E) /\ installed \in [Action -> {0} \cup Version]
        /\ installed' = [installed EXCEPT ![a] = v]
        /\ events' = IF handler THEN Append(events, e) ELSE events
        /\ UNCHANGED <<started, client, handler, files, failed, synced>>
        /\ changes' = changes + 1 /\ changes \in Nat
    BY DEF FileInv, FileTyped, Change
  <1> HIDE DEF E, e
  <1>2. events' \in Seq(E)
    BY <1>0, <1>1
  <1>3. FileTyped'
    BY <1>1, <1>2 DEF FileInv, FileTyped, E
  <1>4. HandlerHasClient'
    BY <1>1 DEF FileInv, HandlerHasClient
  <1>5. CASE ~handler
    <2>1. events' = <<>>
      BY <1>5, <1>1 DEF FileInv, HandlerHasClient
    <2>2. LastEventTrue' /\ FileOrEvent'
      BY <2>1, <1>5, <1>1 DEF LastEventTrue, FileOrEvent
    <2> QED
      BY <2>2, <1>3, <1>4 DEF FileInv
  <1>6. CASE handler
    <2>1. /\ Len(events) \in Nat /\ Len(events') = Len(events) + 1
          /\ events'[Len(events) + 1] = e
          /\ \A i \in 1..Len(events) : events'[i] = events[i]
          /\ \A i \in 1..Len(events) : events[i] \in E
      BY <1>6, <1>1, <1>0
    <2>2. LastEventTrue'
      <3> SUFFICES ASSUME NEW i \in 1..Len(events'),
                          \A j \in 1..Len(events') : i < j => events'[j].action # events'[i].action
                   PROVE  events'[i].gone <=> installed'[events'[i].action] = 0
        BY DEF LastEventTrue
      <3>1. CASE i = Len(events) + 1
        BY <3>1, <2>1, <1>0, <1>1
      <3>2. CASE i \in 1..Len(events)
        <4>1. events[i].action # a
          BY <3>2, <2>1, <1>0
        <4>2. \A j \in 1..Len(events) : i < j => events[j].action # events[i].action
          BY <3>2, <2>1
        <4>3. events[i].gone <=> installed[events[i].action] = 0
          BY <3>2, <4>2 DEF FileInv, LastEventTrue
        <4>4. events[i].action \in Action
          BY <3>2, <2>1 DEF E
        <4> QED
          BY <4>1, <4>3, <4>4, <3>2, <2>1, <1>1
      <3> QED
        BY <3>1, <3>2, <2>1
    <2>3. FileOrEvent'
      <3> SUFFICES ASSUME synced', handler', NEW b \in Action
                   PROVE  failed'[b] \/ files'[b] = installed'[b]
                            \/ \E i \in 1..Len(events') : events'[i].action = b
        BY DEF FileOrEvent
      <3>1. CASE b = a
        <4>1. Len(events) + 1 \in 1..Len(events') /\ events'[Len(events) + 1].action = b
          BY <3>1, <2>1, <1>0
        <4> QED
          BY <4>1
      <3>2. CASE b # a
        <4>1. failed[b] \/ files[b] = installed[b]
                \/ \E i \in 1..Len(events) : events[i].action = b
          BY <1>1 DEF FileInv, FileOrEvent
        <4>2. installed'[b] = installed[b] /\ files'[b] = files[b] /\ failed'[b] = failed[b]
          BY <3>2, <1>1
        <4>3. \A i \in 1..Len(events) : i \in 1..Len(events') /\ events'[i].action = events[i].action
          BY <2>1
        <4> QED
          BY <4>1, <4>2, <4>3
      <3> QED
        BY <3>1, <3>2
    <2> QED
      BY <2>2, <2>3, <1>3, <1>4 DEF FileInv
  <1> QED
    BY <1>5, <1>6

\* OnActionEvent: after the last event about an action its file is right, or a
\* failure is noted.
LEMMA FileInvEvent ==
    ASSUME FileInv, OnActionEvent
    PROVE  FileInv'
  <1> DEFINE E == [action : Action, gone : BOOLEAN]
             a == Head(events).action
             new == IF Head(events).gone THEN 0 ELSE installed[a]
  <1>0. events \in Seq(E) /\ events # <<>>
    BY DEF FileInv, FileTyped, OnActionEvent
  <1>1. events' = Tail(events) /\ UNCHANGED <<started, client, handler, installed, changes, synced>>
    BY DEF OnActionEvent, workerRest
  <1> HIDE DEF E
  <1>2. /\ Len(events) \in Nat /\ Len(events) > 0 /\ Len(events') = Len(events) - 1
        /\ events' \in Seq(E) /\ Head(events) = events[1] /\ events[1] \in E
        /\ \A i \in 1..Len(events') : events'[i] = events[i + 1]
    BY <1>0, <1>1
  <1>3. a \in Action /\ Head(events).gone \in BOOLEAN
    BY <1>2 DEF E
  <1>4. \/ new = 0 /\ ~Head(events).gone /\ UNCHANGED <<files, failed>>
        \/ /\ ~(new = 0 /\ ~Head(events).gone)
           /\ files' = [files EXCEPT ![a] = new]
           /\ failed' = [failed EXCEPT ![a] = FALSE]
        \/ /\ ~(new = 0 /\ ~Head(events).gone)
           /\ failed' = [failed EXCEPT ![a] = TRUE] /\ UNCHANGED files
    BY DEF OnActionEvent
  <1>5. FileTyped'
    <2>1. new \in {0} \cup Version
      BY <1>3 DEF FileInv, FileTyped
    <2> HIDE DEF new, a
    <2>2. files' \in [Action -> {0} \cup Version] /\ failed' \in [Action -> BOOLEAN]
      BY <2>1, <1>4, <1>3 DEF FileInv, FileTyped
    <2> QED
      BY <2>2, <1>1, <1>2 DEF FileInv, FileTyped, E
  <1>6. HandlerHasClient'
    <2>1. handler
      BY <1>0 DEF FileInv, HandlerHasClient
    <2> QED
      BY <2>1, <1>1 DEF FileInv, HandlerHasClient
  <1>7. LastEventTrue'
    <2> SUFFICES ASSUME NEW i \in 1..Len(events'),
                        \A j \in 1..Len(events') : i < j => events'[j].action # events'[i].action
                 PROVE  events'[i].gone <=> installed'[events'[i].action] = 0
      BY DEF LastEventTrue
    <2>1. i + 1 \in 1..Len(events) /\ events'[i] = events[i + 1]
      BY <1>2
    <2>2. ASSUME NEW j \in 1..Len(events), i + 1 < j PROVE events[j].action # events[i + 1].action
      <3>1. j - 1 \in 1..Len(events') /\ i < j - 1 /\ events'[j - 1] = events[j]
        BY <2>2, <1>2
      <3> QED
        BY <3>1, <2>1
    <2>3. events[i + 1].gone <=> installed[events[i + 1].action] = 0
      BY <2>1, <2>2 DEF FileInv, LastEventTrue
    <2> QED
      BY <2>1, <2>3, <1>1
  <1>8. FileOrEvent'
    <2> SUFFICES ASSUME synced', handler', NEW b \in Action,
                        \A i \in 1..Len(events') : events'[i].action # b
                 PROVE  failed'[b] \/ files'[b] = installed'[b]
      BY DEF FileOrEvent
    <2>1. \A j \in 1..Len(events) : 1 < j => events[j].action # b
      <3> SUFFICES ASSUME NEW j \in 1..Len(events), 1 < j PROVE events[j].action # b
        OBVIOUS
      <3>1. j - 1 \in 1..Len(events') /\ events'[j - 1] = events[j]
        BY <1>2
      <3> QED
        BY <3>1
    <2>2. CASE b # a
      <3>1. \A j \in 1..Len(events) : events[j].action # b
        BY <2>1, <2>2, <1>2
      <3>2. failed[b] \/ files[b] = installed[b]
        BY <3>1, <1>1 DEF FileInv, FileOrEvent
      <3>3. failed'[b] = failed[b] /\ files'[b] = files[b]
        BY <2>2, <1>3, <1>4 DEF FileInv, FileTyped
      <3> QED
        BY <3>2, <3>3, <1>1
    <2>3. CASE b = a
      <3>1. 1 \in 1..Len(events) /\ \A j \in 1..Len(events) : 1 < j => events[j].action # events[1].action
        BY <2>1, <2>3, <1>2
      <3>2. Head(events).gone <=> installed[a] = 0
        BY <3>1, <1>2 DEF FileInv, LastEventTrue
      <3>3. new = installed[a] /\ ~(new = 0 /\ ~Head(events).gone)
        BY <3>2
      <3>4. failed'[a] \/ files'[a] = new
        BY <3>3, <1>3, <1>4 DEF FileInv, FileTyped
      <3> QED
        BY <3>3, <3>4, <2>3, <1>1
    <2> QED
      BY <2>2, <2>3
  <1> QED
    BY <1>5, <1>6, <1>7, <1>8 DEF FileInv

\* Every step keeps files and events together.
LEMMA FileInvNext ==
    ASSUME FileInv, [Next]_vars
    PROVE  FileInv'
  <1>1. ASSUME NEW c \in Caller,
               Call(c) \/ Insert(c) \/ SendFails(c) \/ Get(c) \/ TimeOut(c) \/ GiveUp(c)
                 \/ \E k \in Command : Send(c, k)
        PROVE  FileInv'
    BY <1>1, FileInvStutter
       DEF Call, Insert, SendFails, Get, TimeOut, GiveUp, Send, callerRest
  <1>2. CASE HandleError \/ HandleList \/ HandleExecute \/ ExecuteFails
    <2>1. /\ started /\ UNCHANGED <<started, fileVars>>
          /\ client' \in BOOLEAN /\ handler' \in BOOLEAN
          /\ client' => (client => handler' = handler)
          /\ ~client' => ~client /\ ~handler'
      BY <1>2 DEF HandleError, HandleList, HandleExecute, ExecuteFails, Receive, workerRest,
                  FileInv, FileTyped, HandlerHasClient
    <2> QED
      BY <2>1, FileInvReceive DEF fileVars, FileInv, FileTyped
  <1>3. ASSUME NEW k \in Command, HandleThrows(k) PROVE FileInv'
    <2>1. /\ started /\ UNCHANGED <<started, installed, events, changes, failed, synced>>
          /\ client' = TRUE /\ handler' \in BOOLEAN
          /\ client => handler' = handler
      BY <1>3 DEF HandleThrows, Receive, workerRest, FileInv, FileTyped
    <2>2. /\ files' \in [Action -> {0} \cup Version]
          /\ \A a \in Action : files'[a] \in {files[a], installed[a]}
      BY <1>3 DEF HandleThrows, FileInv, FileTyped
    <2> QED
      BY <2>1, <2>2, FileInvReceive
  <1>4. ASSUME NEW x \in executing, OnActionResult(x) PROVE FileInv'
    BY <1>4, FileInvStutter DEF OnActionResult, workerRest
  <1>5. CASE StopWorker
    <2>1. events' = <<>> /\ started' = FALSE /\ client' = FALSE /\ handler' = FALSE
      BY <1>5 DEF StopWorker
    <2>2. FileTyped'
      BY <2>1, <1>5, NoEvents DEF StopWorker, FileInv, FileTyped
    <2>3. LastEventTrue'
      BY <2>1 DEF LastEventTrue
    <2>4. HandlerHasClient' /\ FileOrEvent'
      BY <2>1 DEF HandlerHasClient, FileOrEvent
    <2> QED
      BY <2>2, <2>3, <2>4 DEF FileInv
  <1>6. CASE StopChannels \/ StopPending \/ UNCHANGED vars
    BY <1>6, FileInvStutter DEF StopChannels, StopPending, vars
  <1> QED
    BY <1>1, <1>2, <1>3, <1>4, <1>5, <1>6, FileInvSync, FileInvEvent, FileInvChange
       DEF Next, CallerStep

\* When all events have been seen, the files are those of the installed actions,
\* however synchronisation, events and changes interleave.
THEOREM FilesFollowActionsAlways == Spec => []FilesFollowActions
  <1>1. ASSUME Init PROVE FileInv
    <2>1. FileTyped
      BY <1>1, NoEvents DEF Init, FileTyped
    <2>2. events = <<>> /\ LastEventTrue
      BY <1>1 DEF Init, LastEventTrue
    <2>3. HandlerHasClient /\ FileOrEvent
      BY <1>1 DEF Init, HandlerHasClient, FileOrEvent
    <2> QED
      BY <2>1, <2>2, <2>3 DEF FileInv
  <1>2. FileInv => FilesFollowActions
    BY DEF FileInv, FileOrEvent, FilesFollowActions
  <1> QED
    BY <1>1, <1>2, FileInvNext, PTL DEF Spec
=============================================================================
