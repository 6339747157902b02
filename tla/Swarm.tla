------------------------------- MODULE Swarm --------------------------------
(***************************************************************************)
(* SwarmManager on the devices of one network: heartbeats and the table of *)
(* peers that each device keeps.                                           *)
(*                                                                         *)
(* Datagrams are delayed, reordered and lost.  Time is counted in ages:    *)
(* how long ago a device last heard of a peer, up to the first age at      *)
(* which the peer is stale.  A device is its address, which it knows.  Its *)
(* threads are the one in Start and Stop (phase), the heartbeat thread and *)
(* the listener.                                                           *)
(* The events that are forwarded between the devices' buses are left out.  *)
(***************************************************************************)
EXTENDS Integers, FiniteSets

CONSTANTS Device,
          PeerTimeout   \* kPeerTimeoutMs

ASSUME SwarmAssumption == PeerTimeout \in Nat

VARIABLES
    phase,      \* Start and Stop: "down", "up", "stopping", "leaving", "closed"
    beat,       \* HeartbeatLoop: "top", "send" or "end"
    listening,  \* ListenerLoop has not ended
    age,        \* peers_: the time since last_seen_ms, or Unknown
    net         \* external: datagrams on their way

vars == <<phase, beat, listening, age, net>>

Unknown == -1
Stale == PeerTimeout + 1
Packet == {p \in [to : Device, from : Device, status : {"active", "leaving"}] : p.to # p.from}

Running(d) == phase[d] = "up"                               \* running_
Open(d) == phase[d] \in {"up", "stopping", "leaving"}       \* sock_fd_ >= 0

TypeOK ==
    /\ phase \in [Device -> {"down", "up", "stopping", "leaving", "closed"}]
    /\ beat \in [Device -> {"top", "send", "end"}]
    /\ listening \in [Device -> BOOLEAN]
    /\ age \in [Device -> [Device -> Unknown..Stale]]
    /\ net \subseteq Packet

Init ==
    /\ phase = [d \in Device |-> "down"]
    /\ beat = [d \in Device |-> "end"]
    /\ listening = [d \in Device |-> FALSE]
    /\ age = [d \in Device |-> [e \in Device |-> Unknown]]
    /\ net = {}
-----------------------------------------------------------------------------
\* BroadcastJson: without a socket nothing is sent.  Each other device gets a
\* copy; ListenerLoop ignores the sender's own.
Broadcast(d, status) ==
    net' = IF Open(d) THEN net \cup {[to |-> e, from |-> d, status |-> status] : e \in Device \ {d}}
           ELSE net

\* A process starts.
Start(d) ==
    /\ phase[d] = "down"
    /\ phase' = [phase EXCEPT ![d] = "up"]
    /\ beat' = [beat EXCEPT ![d] = "top"]
    /\ listening' = [listening EXCEPT ![d] = TRUE]
    /\ UNCHANGED <<age, net>>

\* Stop: running_ is cleared,
Stop(d) ==
    /\ phase[d] = "up"
    /\ phase' = [phase EXCEPT ![d] = "stopping"]
    /\ UNCHANGED <<beat, listening, age, net>>

\* the peers are told,
StopLeave(d) ==
    /\ phase[d] = "stopping"
    /\ Broadcast(d, "leaving")
    /\ phase' = [phase EXCEPT ![d] = "leaving"]
    /\ UNCHANGED <<beat, listening, age>>

\* the socket is closed,
StopClose(d) ==
    /\ phase[d] = "leaving"
    /\ phase' = [phase EXCEPT ![d] = "closed"]
    /\ UNCHANGED <<beat, listening, age, net>>

\* and both threads are joined.  The table goes with the process.
Forget(d) == age' = [age EXCEPT ![d] = [e \in Device |-> Unknown]]

StopJoined(d) ==
    /\ phase[d] = "closed" /\ beat[d] = "end" /\ ~listening[d]
    /\ phase' = [phase EXCEPT ![d] = "down"]
    /\ Forget(d)
    /\ UNCHANGED <<beat, listening, net>>

Crash(d) ==
    /\ phase[d] # "down"
    /\ phase' = [phase EXCEPT ![d] = "down"]
    /\ beat' = [beat EXCEPT ![d] = "end"]
    /\ listening' = [listening EXCEPT ![d] = FALSE]
    /\ Forget(d)
    /\ UNCHANGED net
-----------------------------------------------------------------------------
\* HeartbeatLoop.  Stop may begin between the test of running_ and the broadcast.
HeartbeatTop(d) ==
    /\ beat[d] = "top"
    /\ beat' = [beat EXCEPT ![d] = IF Running(d) THEN "send" ELSE "end"]
    /\ UNCHANGED <<phase, listening, age, net>>

\* The peers that are dropped at age a.
IsStale(a) == a > PeerTimeout

KeepStalePeers(d) == UNCHANGED age                  \* mutant: only a farewell removes a peer
RemoveStalePeers(d) ==
    age' = [age EXCEPT ![d] = [e \in Device |-> IF IsStale(@[e]) THEN Unknown ELSE @[e]]]

\* The broadcast, and the table, which no datagram on its way depends on; after
\* them, the thread sleeps.
HeartbeatSend(d) ==
    /\ beat[d] = "send"
    /\ Broadcast(d, "active")
    /\ RemoveStalePeers(d)
    /\ beat' = [beat EXCEPT ![d] = "top"]
    /\ UNCHANGED <<phase, listening>>
-----------------------------------------------------------------------------
UpdatePeerKnown(d, e, status) ==                    \* mutant: a new peer is not entered
    age' = [age EXCEPT ![d][e] = IF status = "leaving" \/ @ = Unknown THEN Unknown ELSE 0]

UpdatePeer(d, e, status) ==
    age' = [age EXCEPT ![d][e] = IF status = "leaving" THEN Unknown ELSE 0]

\* ListenerLoop: a datagram that recvfrom returns is handled even if Stop has
\* begun; running_ is tested after it.  One that is no JSON is dropped there (it
\* is as good as lost); one with a field of another type ends the process: Crash.
Receive(d, p) ==
    /\ p \in net /\ p.to = d
    /\ Open(d) /\ listening[d]
    /\ net' = net \ {p}
    /\ UpdatePeer(d, p.from, p.status)
    /\ listening' = [listening EXCEPT ![d] = Running(d)]
    /\ UNCHANGED <<phase, beat>>

\* recvfrom times out, or fails on a closed socket.
ListenerEnds(d) ==
    /\ listening[d] /\ ~Running(d)
    /\ listening' = [listening EXCEPT ![d] = FALSE]
    /\ UNCHANGED <<phase, beat, age, net>>

\* External: a datagram is lost.
Lose(p) ==
    /\ p \in net
    /\ net' = net \ {p}
    /\ UNCHANGED <<phase, beat, listening, age>>

Tick ==
    /\ age' = [d \in Device |-> [e \in Device |->
                 IF age[d][e] \in {Unknown, Stale} THEN age[d][e] ELSE age[d][e] + 1]]
    /\ UNCHANGED <<phase, beat, listening, net>>

HeartbeatLoop(d) == HeartbeatTop(d) \/ HeartbeatSend(d)
Stopping(d) == StopLeave(d) \/ StopClose(d) \/ StopJoined(d) \/ ListenerEnds(d)

Next ==
    \/ \E d \in Device : \/ Start(d) \/ Stop(d) \/ Stopping(d) \/ Crash(d)
                         \/ HeartbeatLoop(d)
                         \/ \E p \in net : Receive(d, p)
    \/ \E p \in net : Lose(p)
    \/ Tick

Spec == Init /\ [][Next]_vars

Delivered(p) == Receive(p.to, p)

\* Threads get on and time passes; a datagram does not travel for ever,
\* and of heartbeats that are sent again and again some arrive.
FairSpec ==
    /\ Spec
    /\ WF_vars(Tick)
    /\ \A d \in Device : WF_vars(HeartbeatLoop(d))
    /\ \A p \in Packet : WF_vars(Delivered(p) \/ Lose(p))
    /\ \A p \in Packet : SF_vars(p.status = "active" /\ Delivered(p))
-----------------------------------------------------------------------------
Down(e) == phase[e] = "down"

\* A device that has stopped or died is in the end not listed by any device that
\* goes on running, although its last heartbeat may overtake its farewell and the
\* farewell may be lost.
GoneForgotten ==
    \A d, e \in Device :
        d # e => (<>[](Running(d) /\ Down(e)) => <>[](age[d][e] = Unknown))

\* Devices that go on running find each other, again and again.
LiveFound ==
    \A d, e \in Device :
        d # e => (<>[](Running(d) /\ Running(e)) => []<>(age[d][e] # Unknown))
=============================================================================
