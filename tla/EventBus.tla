------------------------------ MODULE EventBus -----------------------------
(***************************************************************************)
(* EventBus: publishers append to a bounded queue that drops its oldest    *)
(* event when it is full, and one dispatch thread takes the events out and *)
(* calls the subscribers it finds in a copy of the list of subscriptions.  *)
(*                                                                         *)
(* An event in flight is its position in the log of published events, so   *)
(* that two equal events are told apart.  queue_mutex_ is held across      *)
(* actions only between the dispatch thread's test of its wait predicate   *)
(* and its falling asleep (pc = "presleep").                               *)
(***************************************************************************)
EXTENDS Integers, Sequences

CONSTANTS Event,         \* records with a field `type` at least
          Client,        \* objects that subscribe
          QueueSize,     \* kMaxQueueSize (100)
          MaxPublished,  \* bound on the events published
          MaxSubs,       \* bound on next_sub_id_
          MaxStarts      \* bound on the calls of Start

ASSUME BusAssumption ==
    /\ QueueSize \in Nat \ {0}
    /\ MaxPublished \in Nat /\ MaxSubs \in Nat /\ MaxStarts \in Nat

VARIABLES
    published,    \* history variable: the log of published events
    queue,        \* queue_, as positions in the log
    running,      \* running_
    owner,        \* the thread that calls Start and Stop
    starts,       \* calls of Start so far
    subscribers,  \* subscribers_, a set: the vector is in the order of the ids
    nextSub,      \* next_sub_id_
    handle,       \* the subscription id each client holds, 0 for none
    pc, cur, todo,  \* the dispatch thread: its place, `event`, rest of subs_copy
    got,          \* history variable: the events each client has been called with
    left          \* history variable: event in flight when a client unsubscribed

subVars == <<subscribers, nextSub, handle, left>>
dispatchVars == <<pc, cur, todo>>
busVars == <<published, queue, running, owner, starts, subVars, dispatchVars, got>>

Types == {e.type : e \in Event}
Subscription == [id : Nat, client : Client, all : BOOLEAN, type : Types]

BusTypeOK ==
    /\ published \in Seq(Event)
    /\ queue \in Seq(Nat)
    /\ running \in BOOLEAN
    /\ owner \in {"stopped", "up", "joining"}
    /\ starts \in Nat
    /\ subscribers \subseteq Subscription
    /\ nextSub \in Nat
    /\ handle \in [Client -> Nat]
    /\ pc \in {"top", "lock", "presleep", "asleep", "copy", "deliver", "exited"}
    /\ cur \in Nat
    /\ todo \subseteq Subscription
    /\ got \in [Client -> Seq(Nat)]
    /\ left \in [Client -> Nat]
-----------------------------------------------------------------------------
BusInit ==
    /\ published = <<>> /\ queue = <<>>
    /\ running = FALSE /\ owner = "stopped" /\ starts = 0
    /\ subscribers = {} /\ nextSub = 1
    /\ handle = [c \in Client |-> 0]
    /\ pc = "exited" /\ cur = 0 /\ todo = {}
    /\ got = [c \in Client |-> <<>>]
    /\ left = [c \in Client |-> 0]

BusStart ==
    /\ owner = "stopped" /\ ~running /\ starts < MaxStarts
    /\ running' = TRUE
    /\ owner' = "up"
    /\ starts' = starts + 1
    /\ pc' = "top"
    /\ UNCHANGED <<published, queue, subVars, cur, todo, got>>

\* queue_cv_.notify: a thread that is not yet asleep misses it.
NotifyNobody == UNCHANGED pc                       \* mutant: no notify_one
Notify == pc' = IF pc = "asleep" THEN "lock" ELSE pc

\* Stop stores running_ and notifies without the mutex, then joins.
BusStop ==
    /\ owner = "up"
    /\ running' = FALSE
    /\ owner' = "joining"
    /\ pc' = IF pc = "asleep" THEN "lock" ELSE pc
    /\ UNCHANGED <<published, queue, starts, subVars, cur, todo, got>>

BusStopped ==
    /\ owner = "joining" /\ pc = "exited"
    /\ owner' = "stopped"
    /\ UNCHANGED <<published, queue, running, starts, subVars, dispatchVars, got>>

\* The queue after position n was pushed to q.
PushedUnbounded(q, n) == Append(q, n)              \* mutant: the size is not tested

PushedDropsNewest(q, n) ==                         \* mutant: pop_back when full
    IF Len(q) >= QueueSize THEN Append(SubSeq(q, 1, Len(q) - 1), n) ELSE Append(q, n)

Pushed(q, n) == IF Len(q) >= QueueSize THEN Append(Tail(q), n) ELSE Append(q, n)

\* Anybody may publish, subscribers in their callbacks included, and also while
\* the bus is stopped.
Publish(e) ==
    /\ pc # "presleep"
    /\ Len(published) < MaxPublished
    /\ published' = Append(published, e)
    /\ queue' = Pushed(queue, Len(published) + 1)
    /\ Notify
    /\ UNCHANGED <<running, owner, starts, subVars, cur, todo, got>>

\* A client keeps the id it is given until it unsubscribes.
AddSubscription(c, all, type) ==
    /\ handle[c] = 0 /\ nextSub <= MaxSubs
    /\ subscribers' = subscribers \cup
                         {[id |-> nextSub, client |-> c, all |-> all, type |-> type]}
    /\ handle' = [handle EXCEPT ![c] = nextSub]
    /\ nextSub' = nextSub + 1
    /\ UNCHANGED <<published, queue, running, owner, starts, left, dispatchVars, got>>

Subscribe(c, type) == AddSubscription(c, FALSE, type)
SubscribeAll(c) == AddSubscription(c, TRUE, CHOOSE t \in Types : TRUE)

UnsubscribeKeeps(c) ==                             \* mutant: the entry is not erased
    /\ handle[c] # 0
    /\ handle' = [handle EXCEPT ![c] = 0]
    /\ left' = [left EXCEPT ![c] = cur]
    /\ UNCHANGED <<published, queue, running, owner, starts, subscribers, nextSub,
                   dispatchVars, got>>

Unsubscribe(c) ==
    /\ handle[c] # 0
    /\ subscribers' = {s \in subscribers : s.id # handle[c]}
    /\ handle' = [handle EXCEPT ![c] = 0]
    /\ left' = [left EXCEPT ![c] = cur]
    /\ UNCHANGED <<published, queue, running, owner, starts, nextSub, dispatchVars, got>>
-----------------------------------------------------------------------------
\* DispatchLoop.

dispatchRest == <<published, running, owner, starts, subVars>>

DispatchTop ==
    /\ pc = "top"
    /\ pc' = IF running THEN "lock" ELSE "exited"
    /\ UNCHANGED <<dispatchRest, queue, cur, todo, got>>

\* The wait predicate is true because of an event, whether or not the bus runs.
DispatchPop ==
    /\ pc = "lock" /\ queue # <<>>
    /\ cur' = Head(queue)
    /\ queue' = Tail(queue)
    /\ pc' = "copy"
    /\ UNCHANGED <<dispatchRest, todo, got>>

\* The queue is empty: leave when stopped, otherwise release the mutex asleep.
DispatchEmpty ==
    /\ pc = "lock" /\ queue = <<>>
    /\ pc' = IF running THEN "presleep" ELSE "exited"
    /\ UNCHANGED <<dispatchRest, queue, cur, todo, got>>

DispatchSleep ==
    /\ pc = "presleep"
    /\ pc' = "asleep"
    /\ UNCHANGED <<dispatchRest, queue, cur, todo, got>>

DispatchSpurious ==
    /\ pc = "asleep"
    /\ pc' = "lock"
    /\ UNCHANGED <<dispatchRest, queue, cur, todo, got>>

\* subs_copy = subscribers_ under sub_mutex_; the loop calls the ones that match.
DispatchCopy ==
    /\ pc = "copy"
    /\ todo' = {s \in subscribers : s.all \/ s.type = published[cur].type}
    /\ pc' = "deliver"
    /\ UNCHANGED <<dispatchRest, queue, cur, got>>

\* The first of the copy that is left.
IsFirst(s) == s \in todo /\ \A u \in todo : s.id <= u.id

\* One callback; what it throws is caught.
DeliverTwice(c) ==                                 \* mutant: the callback is retried
    /\ pc = "deliver"
    /\ \E s \in todo : IsFirst(s) /\ s.client = c /\ todo' \in {todo, todo \ {s}}
    /\ got' = [got EXCEPT ![c] = Append(@, cur)]
    /\ UNCHANGED <<dispatchRest, queue, pc, cur>>

Deliver(c) ==
    /\ pc = "deliver"
    /\ \E s \in todo : IsFirst(s) /\ s.client = c /\ todo' = todo \ {s}
    /\ got' = [got EXCEPT ![c] = Append(@, cur)]
    /\ UNCHANGED <<dispatchRest, queue, pc, cur>>

DispatchDone ==
    /\ pc = "deliver" /\ todo = {}
    /\ pc' = "top"
    /\ UNCHANGED <<dispatchRest, queue, cur, todo, got>>

DispatchOwn == DispatchTop \/ DispatchPop \/ DispatchEmpty \/ DispatchSleep \/ DispatchCopy
               \/ DispatchDone
-----------------------------------------------------------------------------
\* The bus by itself, with any clients.
BusNext ==
    \/ BusStart \/ BusStop \/ BusStopped
    \/ \E e \in Event : Publish(e)
    \/ \E c \in Client : \/ Unsubscribe(c) \/ Deliver(c)
                         \/ SubscribeAll(c) \/ \E t \in Types : Subscribe(c, t)
    \/ DispatchOwn \/ DispatchSpurious

BusSpec == BusInit /\ [][BusNext]_busVars
-----------------------------------------------------------------------------
Received(c, n) == \E i \in 1..Len(got[c]) : got[c][i] = n

\* The queue holds the newest unread events of the log, oldest first, and as
\* many of them as it can.
QueueIsRecent ==
    /\ Len(queue) <= QueueSize
    /\ \A i \in 1..Len(queue) : queue[i] = Len(published) - Len(queue) + i
    /\ cur + Len(queue) <= Len(published)
    /\ Len(queue) < QueueSize => Len(queue) = Len(published) - cur

\* The dispatch thread reads the log of events in order; an event is lost only
\* to kMaxQueueSize newer ones, whatever Stop and Start do in between.
Log == INSTANCE RecentLog WITH log <- published, read <- cur, Window <- QueueSize
BusIsRecentLog == Log!Spec

\* A client is called for an event at most once and in the order of publication,
\* over any number of subscriptions and restarts of the bus.
ReceivedInOrder ==
    \A c \in Client : \A i, j \in 1..Len(got[c]) : i < j => got[c][i] < got[c][j]

\* After Unsubscribe has returned, a client can be called only for the event
\* that was already being dispatched: DispatchLoop works on a copy.
UnsubscribeStops ==
    \A c \in Client : \A i \in 1..Len(got[c]) : handle[c] = 0 => got[c][i] <= left[c]
=============================================================================
