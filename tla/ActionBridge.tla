---------------------------- MODULE ActionBridge ----------------------------
(***************************************************************************)
(* ActionBridge: threads of the agent call actions of the Tizen Action     *)
(* Framework through one worker thread.  A caller puts a promise into      *)
(* pending_, sends its request over a channel and waits for the promise at *)
(* most kResponseTimeoutMs; the worker answers at once or when the         *)
(* framework reports the result of an execution.  The worker also keeps    *)
(* one file per installed action up to date, by a full synchronisation and *)
(* by the events of the framework.                                         *)
(*                                                                         *)
(* Handlers and callbacks of the worker are single actions: what they      *)
(* touch besides pending_ belongs to the worker, and pending_ is touched   *)
(* once, at their end.  The framework and the channel are external.        *)
(***************************************************************************)
EXTENDS Integers, Sequences, FiniteSets

CONSTANTS Caller,        \* threads that call actions, one after the other in each place
          Action,        \* names of actions
          Version,       \* versions of an action's schema
          MaxRequests,   \* bound on next_id_
          MaxChanges     \* bound on installations, updates and removals

ASSUME BridgeAssumption ==
    /\ 0 \notin Version
    /\ MaxRequests \in Nat /\ MaxChanges \in Nat

VARIABLES
    started,      \* started_
    sender,       \* req_sender_ is set
    stop,         \* the thread in Stop: "no", "closing", "failing" (pending_), "done"
    nextId,       \* next_id_
    pending,      \* the keys of pending_
    value,        \* the shared state of each request's promise and future
    pc, my,       \* the callers: their place and their request, 0 for none
    requests,     \* the request channel
    nextExec, execToReq,   \* next_exec_id_, exec_to_req_
    executing,    \* external: executions the framework has not finished
    client,       \* client_ is set
    handler,      \* event_handler_ is set
    installed,    \* external: version of each installed action, 0 for none
    events,       \* external: action events the worker has not seen
    changes,      \* number of installations, updates and removals so far
    files,        \* kActionsDir: version written for each action, 0 for no file
    failed,       \* history variable: the last file operation for an action failed
    synced        \* history variable: DoSync has run

callVars == <<nextId, pending, value, pc, my>>
execVars == <<nextExec, execToReq, executing>>
fileVars == <<installed, events, changes, files, failed, synced>>
vars == <<started, sender, stop, callVars, requests, execVars, client, handler, fileVars>>

Id == 1..MaxRequests
Command == {"list", "execute", "sync"}
Error == [kind |-> "error", req |-> 0]
Unset == [kind |-> "unset", req |-> 0]

\* The result of the execution that request i started, or the answer to it.
Answer(i) == [kind |-> "answer", req |-> i]
Reply == {Error, Unset} \cup {Answer(i) : i \in Id}

\* The place of a caller between its entry in pending_ and its return.
Waiting == {"inserted", "waiting", "late"}

TypeOK ==
    /\ started \in BOOLEAN /\ sender \in BOOLEAN
    /\ stop \in {"no", "closing", "failing", "done"}
    /\ nextId \in 1..MaxRequests + 1
    /\ pending \subseteq 1..nextId - 1
    /\ value \in [Id -> Reply]
    /\ pc \in [Caller -> {"idle", "checked"} \cup Waiting]
    /\ my \in [Caller -> 0..nextId - 1]
    /\ requests \in Seq([id : Id, cmd : Command])
    /\ nextExec \in Nat \ {0}
    /\ execToReq \in [1..nextExec - 1 -> {0} \cup Id]
    /\ executing \subseteq [exec : 1..nextExec - 1, req : Id]
    /\ client \in BOOLEAN /\ handler \in BOOLEAN
    /\ installed \in [Action -> {0} \cup Version]
    /\ events \in Seq([action : Action, gone : BOOLEAN])
    /\ changes \in 0..MaxChanges
    /\ files \in [Action -> {0} \cup Version]
    /\ failed \in [Action -> BOOLEAN]
    /\ synced \in BOOLEAN
-----------------------------------------------------------------------------
\* Start has succeeded; the files are what the last life of the daemon left.
Init ==
    /\ started = TRUE /\ sender = TRUE /\ stop = "no"
    /\ nextId = 1 /\ pending = {} /\ value = [i \in Id |-> Unset]
    /\ pc = [c \in Caller |-> "idle"]
    /\ my = [c \in Caller |-> 0]
    /\ requests = <<>>
    /\ nextExec = 1 /\ execToReq = <<>> /\ executing = {}
    /\ client = FALSE /\ handler = FALSE
    /\ installed \in [Action -> {0} \cup Version]
    /\ events = <<>> /\ changes = 0
    /\ files \in [Action -> {0} \cup Version]
    /\ failed = [a \in Action |-> FALSE] /\ synced = FALSE

callerRest == <<started, sender, stop, execVars, client, handler, fileVars>>

\* SendRequest, step by step; a caller that finds ~started returns at once.

\* The bridge runs, and the caller takes a number.  The first call is the one of
\* Initialize, which synchronises before any other thread can call.
Call(c) ==
    /\ pc[c] = "idle" /\ started /\ nextId <= MaxRequests
    /\ \A d \in Caller : my[d] = 1 => pc[d] = "idle"
    /\ my' = [my EXCEPT ![c] = nextId]
    /\ nextId' = nextId + 1
    /\ pc' = [pc EXCEPT ![c] = "checked"]
    /\ UNCHANGED <<callerRest, pending, value, requests>>

Insert(c) ==
    /\ pc[c] = "checked"
    /\ pending' = pending \cup {my[c]}
    /\ pc' = [pc EXCEPT ![c] = "inserted"]
    /\ UNCHANGED <<callerRest, nextId, value, my, requests>>

Send(c, k) ==
    /\ pc[c] = "inserted" /\ sender
    /\ (k = "sync") = (my[c] = 1)
    /\ requests' = Append(requests, [id |-> my[c], cmd |-> k])
    /\ pc' = [pc EXCEPT ![c] = "waiting"]
    /\ UNCHANGED <<callerRest, nextId, pending, value, my>>

\* The future goes with the call.
Return(c) ==
    /\ pc' = [pc EXCEPT ![c] = "idle"]
    /\ my' = [my EXCEPT ![c] = 0]
    /\ value' = [value EXCEPT ![my[c]] = Unset]

\* The channel object cannot be made or sent; always so when Stop has destroyed
\* the sender.
SendFails(c) ==
    /\ pc[c] = "inserted"
    /\ pending' = pending \ {my[c]}
    /\ Return(c)
    /\ UNCHANGED <<callerRest, nextId, requests>>

Get(c) ==
    /\ pc[c] = "waiting" /\ value[my[c]] # Unset
    /\ Return(c)
    /\ UNCHANGED <<callerRest, nextId, pending, requests>>

TimeOutNever(c) == FALSE /\ UNCHANGED vars          \* mutant: wait in place of wait_for

\* wait_for reports a time-out ...
TimeOut(c) ==
    /\ pc[c] = "waiting" /\ value[my[c]] = Unset
    /\ pc' = [pc EXCEPT ![c] = "late"]
    /\ UNCHANGED <<callerRest, nextId, pending, value, my, requests>>

GiveUpKeeps(c) ==                                   \* mutant: the promise is not erased
    /\ pc[c] = "late"
    /\ Return(c)
    /\ UNCHANGED <<callerRest, nextId, pending, requests>>

\* ... and the promise is erased, an answer that came in between with it.
GiveUp(c) ==
    /\ pc[c] = "late"
    /\ pending' = pending \ {my[c]}
    /\ Return(c)
    /\ UNCHANGED <<callerRest, nextId, requests>>
-----------------------------------------------------------------------------
\* The worker.  Its callbacks run in the loop that Stop ends.

\* SendResponse: the promise is resolved unless its caller has given up.
SendResponse(i, r) ==
    /\ value' = IF i \in pending THEN [value EXCEPT ![i] = r] ELSE value
    /\ pending' = pending \ {i}

workerRest == <<started, sender, stop, nextId, pc, my>>

\* The request at the head of the channel, its command, and the lazily made
\* client; the event handler may fail to register.
Receive(k) ==
    /\ started /\ requests # <<>> /\ Head(requests).cmd = k
    /\ requests' = Tail(requests)
    /\ client' = TRUE
    /\ IF client THEN UNCHANGED handler ELSE handler' \in BOOLEAN

\* The client cannot be made, or the payload or the name is unusable.
HandleError ==
    /\ started /\ requests # <<>>
    /\ ~client \/ Head(requests).cmd = "execute"
    /\ requests' = Tail(requests)
    /\ IF client THEN UNCHANGED <<client, handler>>
       ELSE \/ UNCHANGED <<client, handler>>
            \/ Head(requests).cmd = "execute" /\ client' = TRUE /\ handler' \in BOOLEAN
    /\ SendResponse(Head(requests).id, Error)
    /\ UNCHANGED <<workerRest, execVars, fileVars>>

\* OnRequestReceived catches what a handler throws: nobody is answered, and a
\* synchronisation has written only some of the files.
HandleThrows(k) ==
    /\ k # "execute"
    /\ Receive(k)
    /\ \E W \in SUBSET {a \in Action : k = "sync" /\ installed[a] # 0} :
          files' = [a \in Action |-> IF a \in W THEN installed[a] ELSE files[a]]
    /\ UNCHANGED <<workerRest, pending, value, execVars, installed, events, changes, failed,
                   synced>>

HandleList ==
    /\ Receive("list")
    /\ SendResponse(Head(requests).id, Answer(Head(requests).id))
    /\ UNCHANGED <<workerRest, execVars, fileVars>>

\* The files of the actions in F cannot be written or removed.  For those in N the
\* framework has no schema: they are not among the names, and their files are
\* removed as stale.
SyncFilesKeepsStale(F, N) ==                        \* mutant: stale files stay
    [a \in Action |-> IF a \in F \/ installed[a] = 0 THEN files[a] ELSE installed[a]]

SyncFiles(F, N) ==
    [a \in Action |-> IF a \in F THEN files[a] ELSE IF a \in N THEN 0 ELSE installed[a]]

DoSync ==
    /\ Receive("sync")
    /\ \E F, N \in SUBSET Action :
          /\ files' = SyncFiles(F, N)
          /\ failed' = [a \in Action |-> a \in F \cup N]
    /\ synced' = TRUE
    /\ SendResponse(Head(requests).id, Answer(Head(requests).id))
    /\ UNCHANGED <<workerRest, execVars, installed, events, changes>>

\* exec_to_req_ gets the pair, and the framework begins.
ExecIdFixed == 1                                    \* mutant: every model has the same id
ExecId == nextExec

Recorded(i) == [e \in 1..nextExec |-> IF e = ExecId THEN i
                                      ELSE IF e = nextExec THEN 0 ELSE execToReq[e]]

HandleExecute ==
    /\ Receive("execute")
    /\ nextExec' = nextExec + 1
    /\ execToReq' = Recorded(Head(requests).id)
    /\ executing' = executing \cup {[exec |-> ExecId, req |-> Head(requests).id]}
    /\ UNCHANGED <<workerRest, pending, value, fileVars>>

\* The framework refuses: the pair is erased again.
ExecuteFails ==
    /\ Receive("execute")
    /\ nextExec' = nextExec + 1
    /\ execToReq' = Recorded(0)
    /\ SendResponse(Head(requests).id, Error)
    /\ UNCHANGED <<workerRest, executing, fileVars>>

\* OnActionResult: the caller is found through exec_to_req_.
OnActionResult(x) ==
    /\ started /\ x \in executing
    /\ executing' = executing \ {x}
    /\ execToReq' = [execToReq EXCEPT ![x.exec] = 0]
    /\ IF execToReq[x.exec] = 0 THEN UNCHANGED <<pending, value>>
       ELSE SendResponse(execToReq[x.exec], Answer(x.req))
    /\ UNCHANGED <<workerRest, requests, nextExec, client, handler, fileVars>>

\* OnActionEvent: the file of a removed action goes, any other gets the schema
\* the framework has now, if there is one.  The schema may not be JSON, and the
\* file may not be written.
OnActionEvent ==
    /\ started /\ events # <<>>
    /\ events' = Tail(events)
    /\ LET a == Head(events).action
           new == IF Head(events).gone THEN 0 ELSE installed[a]
       IN  IF new = 0 /\ ~Head(events).gone
           THEN UNCHANGED <<files, failed>>
           ELSE \/ /\ files' = [files EXCEPT ![a] = new]
                   /\ failed' = [failed EXCEPT ![a] = FALSE]
                \/ failed' = [failed EXCEPT ![a] = TRUE] /\ UNCHANGED files
    /\ UNCHANGED <<workerRest, pending, value, requests, execVars, client, handler,
                   installed, changes, synced>>

\* External: an action is installed, updated or removed; the framework tells a
\* client that has registered its handler.
Change(a, v) ==
    /\ started /\ changes < MaxChanges /\ v # installed[a]
    /\ installed' = [installed EXCEPT ![a] = v]
    /\ changes' = changes + 1
    /\ events' = IF handler THEN Append(events, [action |-> a, gone |-> v = 0]) ELSE events
    /\ UNCHANGED <<started, sender, stop, callVars, requests, execVars, client, handler,
                   files, failed, synced>>
-----------------------------------------------------------------------------
StopNothing ==                                      \* mutant: the sender is not destroyed
    /\ stop = "no"
    /\ stop' = "closing"
    /\ requests' = <<>>
    /\ UNCHANGED <<started, sender, callVars, execVars, client, handler, fileVars>>

\* Stop destroys the channels; a callback of the worker may still run, and started_
\* is still set.
StopChannels ==
    /\ stop = "no"
    /\ stop' = "closing"
    /\ sender' = FALSE /\ requests' = <<>>
    /\ UNCHANGED <<started, callVars, execVars, client, handler, fileVars>>

\* Then it destroys the worker ...
StopWorker ==
    /\ stop = "closing"
    /\ stop' = "failing"
    /\ started' = FALSE
    /\ events' = <<>>
    /\ client' = FALSE /\ handler' = FALSE
    /\ UNCHANGED <<sender, callVars, requests, execVars, installed, changes, files, failed,
                   synced>>

\* ... and fails what is pending.
StopPending ==
    /\ stop = "failing"
    /\ stop' = "done"
    /\ value' = [i \in Id |-> IF i \in pending THEN Error ELSE value[i]]
    /\ pending' = {}
    /\ UNCHANGED <<started, sender, nextId, pc, my, requests, execVars, client,
                   handler, fileVars>>

CallerStep(c) ==
    Insert(c) \/ (\E k \in Command : Send(c, k)) \/ Get(c) \/ TimeOut(c) \/ GiveUp(c)

Next ==
    \/ \E c \in Caller : Call(c) \/ CallerStep(c) \/ SendFails(c)
    \/ HandleError \/ HandleList \/ DoSync \/ HandleExecute \/ ExecuteFails
    \/ \E k \in Command : HandleThrows(k)
    \/ \E x \in executing : OnActionResult(x)
    \/ OnActionEvent
    \/ \E a \in Action, v \in {0} \cup Version : Change(a, v)
    \/ StopChannels \/ StopWorker \/ StopPending

Spec == Init /\ [][Next]_vars

\* A thread that runs gets on; nothing is assumed of worker and framework.
FairSpec == Spec /\ \A c \in Caller : WF_vars(CallerStep(c) \/ SendFails(c))
-----------------------------------------------------------------------------
\* A promise gets the answer to its own request or an error, in whatever order
\* executions end and callers give up.
OwnAnswer ==
    \A i \in Id : value[i].kind = "answer" => value[i].req = i

\* pending_ holds exactly promises that nobody has resolved and whose caller is
\* still inside SendRequest: none is left over, and none is set a second time.
PendingExact ==
    \A i \in pending :
        /\ value[i] = Unset
        /\ \E c \in Caller : my[c] = i /\ pc[c] \in Waiting

\* When Stop has returned, no caller is waiting for an answer that cannot come.
StoppedNobodyWaits ==
    stop = "done" => \A c \in Caller : pc[c] = "waiting" => value[my[c]] # Unset

\* Once synchronised and with its handler registered, the worker that has seen
\* all events has written the files of the installed actions and no others; the
\* exceptions are operations that failed, on a file or on a schema.
FilesFollowActions ==
    synced /\ handler /\ events = <<>> =>
        \A a \in Action : failed[a] \/ files[a] = installed[a]

\* Every call returns, even if the worker never answers.
CallReturns == \A c \in Caller : pc[c] # "idle" ~> pc[c] = "idle"
=============================================================================
