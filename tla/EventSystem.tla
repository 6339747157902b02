---------------------------- MODULE EventSystem ----------------------------
(***************************************************************************)
(* The event bus with AutonomousTrigger as one of its clients, started and *)
(* stopped in the order of TizenClawDaemon::OnCreate and OnDestroy: bus,   *)
(* trigger; trigger, bus.                                                  *)
(***************************************************************************)
EXTENDS EventBus, AutonomousTrigger

CONSTANT Trigger   \* the client that is the AutonomousTrigger

ASSUME SystemAssumption == Trigger \in Client

vars == <<busVars, triggerVars>>

TypeOK == BusTypeOK /\ TriggerTypeOK

Init == BusInit /\ TriggerInit

Others == Client \ {Trigger}

StartTrigger == owner = "up" /\ TriggerStart /\ SubscribeAll(Trigger)
StopTrigger == TriggerStop /\ Unsubscribe(Trigger)
StopBus == ~started /\ BusStop /\ UNCHANGED triggerVars
DeliverTrigger == Deliver(Trigger) /\ OnEvent(published[cur], cur)

BusOnly ==
    \/ BusStart \/ BusStopped
    \/ \E e \in Event : Publish(e)
    \/ \E c \in Others : Unsubscribe(c) \/ SubscribeAll(c) \/ \E t \in Types : Subscribe(c, t)
    \/ DispatchSpurious

Dispatch ==
    \/ DeliverTrigger
    \/ (DispatchOwn \/ \E c \in Others : Deliver(c)) /\ UNCHANGED triggerVars

Next ==
    \/ StartTrigger \/ StopTrigger \/ StopBus
    \/ BusOnly /\ UNCHANGED triggerVars
    \/ Dispatch
    \/ Minute /\ UNCHANGED busVars

Spec == Init /\ [][Next]_vars

\* The dispatch thread runs; it competes for queue_mutex_ only with publishers,
\* each of which takes it once.
FairSpec == Spec /\ WF_vars(Dispatch)
-----------------------------------------------------------------------------
Lost(n) == Len(published) >= n + QueueSize

\* An event that matches a "direct" rule leads to a moment at which that rule
\* was run no longer than its cooldown ago, unless the event is pushed out of
\* the queue or the trigger is stopped: the rate limit does not hold it
\* back, and no wake-up of the dispatch thread is lost between its test and its
\* sleep.
DirectRuleActs ==
    \A n \in 1..MaxPublished, k \in {i \in Place : Rules[i].action = "direct"} :
        (/\ started
         /\ \E i \in 1..Len(queue) : queue[i] = n
         /\ published[n].name = Rules[k].event
         /\ EvalCondition(Rules[k].condition, published[n].data))
        ~> (\/ \E i \in 1..Len(runs) : /\ runs[i].rule = Rules[k].name
                                       /\ clock - runs[i].at <= Rules[k].cooldown
            \/ Lost(n) \/ ~started)
=============================================================================
