--------------------------- MODULE ProxyLifecycle ---------------------------
(***************************************************************************)
(* Starting the proxy: ContentViewVM calls socks_main on a detached task   *)
(* and learns what became of it through two messages to the main actor,    *)
(* the ready event, which goes to the view model that was created last,    *)
(* and the failure, which goes to the view model that made the call.  A    *)
(* timer and the Retry button start it again after a failure.              *)
(*                                                                         *)
(* Each view model is one window of the app; the listening socket belongs  *)
(* to the process.  Once socks_main listens it does not return.            *)
(* Abstracted: the address shown, the interval before a retry (its end is  *)
(* an action, as the wall clock it is measured by may be set), and who     *)
(* else uses the port.                                                     *)
(***************************************************************************)
EXTENDS Naturals, Sequences

CONSTANTS
    View,        \* view models
    NoView,      \* "no view model", "nobody listens"
    MaxTasks     \* bound: tasks waiting when the timer adds one

ASSUME ViewAssumption == NoView \notin View /\ MaxTasks \in Nat

VARIABLES
    alive,       \* the view models that exist
    used,        \* the view models that have existed
    receiver,    \* ServerReadyBridge.receiver
    serverState, \* serverState
    endpoint,    \* endpointDisplay
    isProxyListening, isProxyStartInFlight,
    waits,       \* Date() < nextProxyStartAttemptAt
    calls,       \* calls of socks_main that have not bound the port yet, by caller
    listener,    \* the caller whose socks_main listens
    announced,   \* that socks_main has emitted the ready event
    mailbox,     \* tasks waiting for the main actor
    network      \* proxyListenIPAddress finds an address

viewVars == <<serverState, endpoint, isProxyListening, isProxyStartInFlight, waits>>
vars == <<alive, used, receiver, viewVars, calls, listener, announced, mailbox, network>>

Ready == [kind |-> "ready", view |-> NoView]
Failed(v) == [kind |-> "failed", view |-> v]
Tick(v) == [kind |-> "tick", view |-> v]
Task == {Ready} \cup {Failed(v) : v \in View} \cup {Tick(v) : v \in View}

TypeOK ==
    /\ alive \subseteq used /\ used \subseteq View
    /\ receiver \in alive \cup {NoView}
    /\ serverState \in [View -> {"waitingForNetwork", "starting", "running", "failed"}]
    /\ endpoint \in [View -> {"detecting", "address", "notAvailable"}]
    /\ isProxyListening \in [View -> BOOLEAN]
    /\ isProxyStartInFlight \in [View -> BOOLEAN]
    /\ waits \in [View -> BOOLEAN]
    /\ calls \in [View -> 0 .. 1]
    /\ listener \in View \cup {NoView}
    /\ announced \in BOOLEAN
    /\ mailbox \in Seq(Task)
    /\ network \in BOOLEAN

Init ==
    /\ alive = {} /\ used = {}
    /\ receiver = NoView
    /\ serverState = [v \in View |-> "starting"]
    /\ endpoint = [v \in View |-> "detecting"]
    /\ isProxyListening = [v \in View |-> FALSE]
    /\ isProxyStartInFlight = [v \in View |-> FALSE]
    /\ waits = [v \in View |-> FALSE]
    /\ calls = [v \in View |-> 0]
    /\ listener = NoView
    /\ announced = FALSE
    /\ mailbox = <<>>
    /\ network \in BOOLEAN

-----------------------------------------------------------------------------
\* Parts of the view model.  An operator that starts from serverState and
\* endpoint values other than the current ones is passed them.

\* mutant: an address is taken for a running proxy
RefreshEndpointRuns(v, state, display, listening) ==
    /\ serverState' = [serverState EXCEPT ![v] =
            CASE network -> "running"
              [] listening /\ ~network -> "waitingForNetwork"
              [] ~listening /\ ~network -> state]
    /\ endpoint' = [endpoint EXCEPT ![v] =
            CASE network -> "address"
              [] ~network /\ listening -> "notAvailable"
              [] ~network /\ ~listening -> display]

\* refreshEndpointAvailability with isProxyListening = listening
RefreshEndpoint(v, state, display, listening) ==
    /\ serverState' = [serverState EXCEPT ![v] =
            CASE ~listening -> state
              [] listening /\ network -> "running"
              [] listening /\ ~network -> "waitingForNetwork"]
    /\ endpoint' = [endpoint EXCEPT ![v] =
            CASE network -> "address"
              [] ~network /\ listening -> "notAvailable"
              [] ~network /\ ~listening -> display]

\* mutant: isProxyStartInFlight is not set
StartProxyUnmarked(v) ==
    /\ calls' = [calls EXCEPT ![v] = @ + 1]
    /\ RefreshEndpoint(v, "starting", "detecting", FALSE)
    /\ UNCHANGED <<isProxyListening, isProxyStartInFlight>>

\* startProxy
StartProxy(v) ==
    /\ isProxyStartInFlight' = [isProxyStartInFlight EXCEPT ![v] = TRUE]
    /\ calls' = [calls EXCEPT ![v] = @ + 1]
    /\ RefreshEndpoint(v, "starting", "detecting", FALSE)
    /\ UNCHANGED isProxyListening

\* refreshProxyLifecycle when Date() < nextProxyStartAttemptAt is `waiting'
RefreshLifecycle(v, waiting) ==
    IF isProxyListening[v]
    THEN /\ RefreshEndpoint(v, serverState[v], endpoint[v], TRUE)
         /\ UNCHANGED <<isProxyListening, isProxyStartInFlight, calls>>
    ELSE IF isProxyStartInFlight[v] \/ waiting
    THEN UNCHANGED <<serverState, endpoint, isProxyListening, isProxyStartInFlight, calls>>
    ELSE StartProxy(v)

-----------------------------------------------------------------------------
\* init: the new view model becomes the receiver and starts the proxy
WindowOpens(v) ==
    /\ v \notin used
    /\ alive' = alive \cup {v}
    /\ used' = used \cup {v}
    /\ receiver' = v
    /\ RefreshLifecycle(v, FALSE)
    /\ UNCHANGED <<waits, listener, announced, mailbox, network>>

\* mutant: the view model stays the receiver
WindowClosesKeepsReceiver(v) ==
    /\ v \in alive
    /\ alive' = alive \ {v}
    /\ UNCHANGED <<used, receiver, viewVars, calls, listener, announced, mailbox, network>>

\* deinit: a call it has made goes on
WindowCloses(v) ==
    /\ v \in alive
    /\ alive' = alive \ {v}
    /\ receiver' = IF receiver = v THEN NoView ELSE receiver
    /\ UNCHANGED <<used, viewVars, calls, listener, announced, mailbox, network>>

\* proxyLifecycleTimer, once a second: a task for the main actor
TimerFires(v) ==
    /\ v \in alive
    /\ Len(mailbox) < MaxTasks
    /\ mailbox' = Append(mailbox, Tick(v))
    /\ UNCHANGED <<alive, used, receiver, viewVars, calls, listener, announced, network>>

\* retryProxy, behind canRetryProxy
UserRetries(v) ==
    /\ v \in alive
    /\ serverState[v] = "failed"
    /\ waits' = [waits EXCEPT ![v] = FALSE]
    /\ RefreshLifecycle(v, FALSE)
    /\ UNCHANGED <<alive, used, receiver, listener, announced, mailbox, network>>

\* now reaches nextProxyStartAttemptAt
RetryFallsDue(v) ==
    /\ v \in alive
    /\ waits[v]
    /\ waits' = [waits EXCEPT ![v] = FALSE]
    /\ UNCHANGED <<alive, used, receiver, serverState, endpoint, isProxyListening,
                   isProxyStartInFlight, calls, listener, announced, mailbox, network>>

-----------------------------------------------------------------------------
\* handleServerReady
HandleServerReady(v) ==
    /\ isProxyStartInFlight' = [isProxyStartInFlight EXCEPT ![v] = FALSE]
    /\ isProxyListening' = [isProxyListening EXCEPT ![v] = TRUE]
    /\ RefreshEndpoint(v, serverState[v], endpoint[v], TRUE)
    /\ UNCHANGED waits

\* mutant: the call is still taken to be in flight
MarkServerFailedInFlight(v) ==
    /\ isProxyListening' = [isProxyListening EXCEPT ![v] = FALSE]
    /\ waits' = [waits EXCEPT ![v] = TRUE]
    /\ serverState' = [serverState EXCEPT ![v] = "failed"]
    /\ UNCHANGED <<endpoint, isProxyStartInFlight>>

\* markServerFailed
MarkServerFailed(v) ==
    /\ isProxyStartInFlight' = [isProxyStartInFlight EXCEPT ![v] = FALSE]
    /\ isProxyListening' = [isProxyListening EXCEPT ![v] = FALSE]
    /\ waits' = [waits EXCEPT ![v] = TRUE]
    /\ serverState' = [serverState EXCEPT ![v] = "failed"]
    /\ UNCHANGED endpoint

\* The main actor runs the oldest task.  The view model it is for may be gone.
NextTask(task) == mailbox # <<>> /\ Head(mailbox) = task /\ mailbox' = Tail(mailbox)

RunReady ==
    /\ NextTask(Ready)
    /\ IF receiver # NoView THEN HandleServerReady(receiver) ELSE UNCHANGED viewVars
    /\ UNCHANGED <<alive, used, receiver, calls, listener, announced, network>>

RunFailed(v) ==
    /\ NextTask(Failed(v))
    /\ IF v \in alive THEN MarkServerFailed(v) ELSE UNCHANGED viewVars
    /\ UNCHANGED <<alive, used, receiver, calls, listener, announced, network>>

RunTick(v) ==
    /\ NextTask(Tick(v))
    /\ IF v \in alive
       THEN RefreshLifecycle(v, waits[v]) /\ UNCHANGED waits
       ELSE UNCHANGED <<viewVars, calls>>
    /\ UNCHANGED <<alive, used, receiver, listener, announced, network>>

MainActor == RunReady \/ \E v \in View : RunFailed(v) \/ RunTick(v)

-----------------------------------------------------------------------------
\* server_setup succeeds: the port can be bound once in the process
SetupSucceeds(v) ==
    /\ calls[v] > 0
    /\ listener = NoView
    /\ listener' = v
    /\ calls' = [calls EXCEPT ![v] = @ - 1]
    /\ UNCHANGED <<alive, used, receiver, viewVars, announced, mailbox, network>>

\* emit_server_ready_event: a task for the main actor
EmitServerReady ==
    /\ listener # NoView /\ ~announced
    /\ announced' = TRUE
    /\ mailbox' = Append(mailbox, Ready)
    /\ UNCHANGED <<alive, used, receiver, viewVars, calls, listener, network>>

\* server_setup fails, socks_main returns
SetupFails(v) ==
    /\ calls[v] > 0
    /\ calls' = [calls EXCEPT ![v] = @ - 1]
    /\ mailbox' = Append(mailbox, Failed(v))
    /\ UNCHANGED <<alive, used, receiver, viewVars, listener, announced, network>>

NetworkChanges ==
    /\ network' = ~network
    /\ UNCHANGED <<alive, used, receiver, viewVars, calls, listener, announced, mailbox>>

-----------------------------------------------------------------------------
Next ==
    \/ \E v \in View :
        \/ WindowOpens(v) \/ WindowCloses(v)
        \/ TimerFires(v) \/ UserRetries(v) \/ RetryFallsDue(v)
        \/ SetupSucceeds(v) \/ SetupFails(v)
    \/ EmitServerReady
    \/ MainActor
    \/ NetworkChanges

Spec == Init /\ [][Next]_vars

\* Timers fire, the main actor runs its tasks, a call of socks_main gets to
\* the end of server_setup, and the port can be had if it is tried for ever.
FairSpec ==
    /\ Spec
    /\ WF_vars(MainActor) /\ WF_vars(EmitServerReady)
    /\ \A v \in View :
        /\ WF_vars(TimerFires(v)) /\ WF_vars(RetryFallsDue(v))
        /\ WF_vars(SetupSucceeds(v) \/ SetupFails(v)) /\ SF_vars(SetupSucceeds(v))

-----------------------------------------------------------------------------
\* v is the only window the process has had.  What follows about a single
\* window does not hold with two: the ready event goes to the window that was
\* opened last, the listening socket belongs to the process.
Only(v) == used = {v}

\* No view model has two calls of socks_main under way, however timers, the
\* Retry button and the two messages interleave.  The call of a single window
\* is in flight exactly until the main actor has heard of its end.
OneCallInFlight ==
    \A v \in alive :
        LET Messages == {k \in DOMAIN mailbox : mailbox[k] \in {Failed(v), Ready}}
        IN /\ calls[v] + (IF listener = v THEN 1 ELSE 0) <= 1
           /\ Only(v) =>
                (isProxyStartInFlight[v] <=>
                    calls[v] = 1 \/ Messages # {} \/ (listener = v /\ ~announced))

\* What is shown agrees with the listening socket: Running and Awaiting
\* Network only while the proxy listens, an address that is gone is not shown
\* as usable, and a single window shows Failed only while the proxy neither
\* listens nor is being started.
ShownStateIsTrue ==
    \A v \in alive :
        /\ serverState[v] \in {"running", "waitingForNetwork"} =>
              listener # NoView /\ isProxyListening[v]
        /\ serverState[v] = "waitingForNetwork" => endpoint[v] = "notAvailable"
        /\ Only(v) /\ serverState[v] = "failed" => listener = NoView /\ calls[v] = 0

\* A proxy that could not be started is started in the end, and a single
\* window shows it.
ProxyComesUp ==
    \A v \in View :
        Only(v) /\ v \in alive ~>
            v \notin alive \/ ~Only(v) \/ serverState[v] \in {"running", "waitingForNetwork"}

=============================================================================
