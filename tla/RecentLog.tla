----------------------------- MODULE RecentLog -----------------------------
(***************************************************************************)
(* What EventBus promises its subscribers: a log of events and a reader    *)
(* that goes through it in order and never goes back.  The reader may miss *)
(* events, but only those that Window newer ones have pushed out: it reads *)
(* the oldest event that is both unread and among the newest Window.       *)
(***************************************************************************)
EXTENDS Integers, Sequences

CONSTANTS Event, Window

VARIABLES log,   \* all events so far
          read   \* the position of the last event read, 0 before the first

Init == log = <<>> /\ read = 0

Write(e) == log' = Append(log, e) /\ UNCHANGED read

Oldest == IF read + 1 > Len(log) - Window THEN read + 1 ELSE Len(log) - Window + 1

Read == Oldest <= Len(log) /\ read' = Oldest /\ UNCHANGED log

Next == Read \/ \E e \in Event : Write(e)

Spec == Init /\ [][Next]_<<log, read>>
=============================================================================
