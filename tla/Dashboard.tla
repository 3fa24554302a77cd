------------------------------ MODULE Dashboard ------------------------------
(***************************************************************************)
(* The list of connections of ContentViewVM, fed by the connection event   *)
(* handler.  The C core calls the handler on whichever thread the          *)
(* connection lives on; the handler wraps each event in a task for the     *)
(* main actor, and the main actor hands it to the receiver there is when   *)
(* the task runs, if there is one.  The receiver is the view model created *)
(* last; each window of the app has one, and one that has lost the role    *)
(* stays on the screen with what it lists.                                 *)
(*                                                                         *)
(* The core is its contract, ConnectionLifecycle.  Tasks created with      *)
(* Task { @MainActor in ... } run in the order they were created, which    *)
(* the Swift 6 toolchain the project is built with guarantees.             *)
(* Abstracted: titles, protocols, time stamps and error codes.             *)
(***************************************************************************)
EXTENDS Naturals, Sequences, FiniteSets

CONSTANTS
    Ids,                             \* connection identifiers
    MaxRetainedEndedConnections,     \* maxRetainedEndedConnections
    View,                            \* view models, each created once
    NoView                           \* nil

ASSUME DashboardAssumption == MaxRetainedEndedConnections \in Nat /\ NoView \notin View

VARIABLES
    reported,          \* the core: the last event emitted for each identifier
    mailbox,           \* tasks waiting for the main actor
    alive,             \* the view models that exist
    used,              \* the view models that have existed
    receiver,          \* ConnectionEventBridge.receiver
    connectionsByID,   \* by view model: the state of each connection it tracks
    connectionOrder,   \* by view model: their identifiers, the latest to change first
    connections        \* by view model: what is published to the user interface

viewVars == <<connectionsByID, connectionOrder, connections>>
vars == <<reported, mailbox, alive, used, receiver, viewVars>>

Core == INSTANCE ConnectionLifecycle

State == {"open"} \cup Core!Ended
Connection == [id : Ids, state : State]

TypeOK ==
    /\ Core!ReportedType
    /\ mailbox \in Seq(Connection)
    /\ alive \subseteq used /\ used \subseteq View
    /\ receiver \in alive \cup {NoView}
    /\ connectionsByID \in [View -> [Ids -> State \cup {"absent"}]]
    /\ \A v \in View : Cardinality({id \in Ids : connectionsByID[v][id] \in Core!Ended})
                        <= MaxRetainedEndedConnections
    /\ connectionOrder \in [View -> Seq(Ids)]
    /\ connections \in [View -> Seq(Connection)]

Empty == [id \in Ids |-> "absent"]

Init ==
    /\ Core!Init
    /\ mailbox = <<>>
    /\ alive = {} /\ used = {}
    /\ receiver = NoView
    /\ connectionsByID = [v \in View |-> Empty]
    /\ connectionOrder = [v \in View |-> <<>>]
    /\ connections = [v \in View |-> <<>>]

-----------------------------------------------------------------------------
\* The core emits an event: the bridge copies it into a task.  There is a core
\* to emit events once the first view model has started it.
CoreEmits(id) ==
    /\ used # {}
    /\ \/ Core!Open(id)
       \/ \E state \in Core!Ended : Core!End(id, state)
       \/ Core!Fail(id)
    /\ mailbox' = Append(mailbox, [id |-> id, state |-> reported'[id]])
    /\ UNCHANGED <<alive, used, receiver, viewVars>>

\* ContentViewVM.init: a window opens, and its view model, which lists nothing
\* yet, becomes the receiver in place of the one there may be
ViewModelStarts(v) ==
    /\ v \notin used
    /\ alive' = alive \cup {v}
    /\ used' = used \cup {v}
    /\ receiver' = v
    /\ UNCHANGED <<reported, mailbox, viewVars>>

\* deinit: the system discards the scene while the core keeps running.  When the
\* receiver goes, none of the other view models takes its place.
ViewModelEnds(v) ==
    /\ v \in alive
    /\ alive' = alive \ {v}
    /\ receiver' = IF receiver = v THEN NoView ELSE receiver
    /\ connectionsByID' = [connectionsByID EXCEPT ![v] = Empty]
    /\ connectionOrder' = [connectionOrder EXCEPT ![v] = <<>>]
    /\ connections' = [connections EXCEPT ![v] = <<>>]
    /\ UNCHANGED <<reported, mailbox, used>>

-----------------------------------------------------------------------------
\* The parts of handleConnectionEvent

\* filter and removeAll(where:): the members of ids, in their order.  It is
\* SelectSeq, written out because the proofs unfold it.
Filtered(order, ids) ==
    LET F[n \in 0 .. Len(order)] ==
          IF n = 0 THEN <<>>
          ELSE IF order[n] \in ids THEN Append(F[n - 1], order[n]) ELSE F[n - 1]
    IN F[Len(order)]

\* mutant: a connection that is known is put in front without being taken out
MovedToFrontTwice(order, id) == <<id>> \o order

MovedToFront(order, id) == <<id>> \o Filtered(order, Ids \ {id})

\* mutant: nothing is retired
IdsToRemoveNone(order, byID) == {}

\* mutant: open connections are counted and dropped as well
IdsToRemoveOpenToo(order, byID) ==
    {order[k] : k \in {k \in DOMAIN order :
        Cardinality(k .. Len(order)) > MaxRetainedEndedConnections}}

\* The ended connections are counted from the back of the order; those
\* counted beyond the limit go.
IdsToRemove(order, byID) ==
    LET EndedAt == {k \in DOMAIN order : byID[order[k]] # "open"}
    IN {order[k] : k \in {k \in EndedAt :
            Cardinality({j \in EndedAt : j >= k}) > MaxRetainedEndedConnections}}

\* open connections first, both parts in the order of change
Published(order, byID) ==
    LET InState(S) == Filtered(order, {id \in Ids : byID[id] \in S})
        shown == InState({"open"}) \o InState(Core!Ended)
    IN [k \in DOMAIN shown |-> [id |-> shown[k], state |-> byID[shown[k]]]]

\* mutant: the first state of a connection that is tracked stays
HandleConnectionEventKeepsState(v, event) ==
    LET byID == IF connectionsByID[v][event.id] # "absent" THEN connectionsByID[v]
                ELSE [connectionsByID[v] EXCEPT ![event.id] = event.state]
        order == MovedToFront(connectionOrder[v], event.id)
    IN /\ connectionsByID' = [connectionsByID EXCEPT ![v] = byID]
       /\ connectionOrder' = [connectionOrder EXCEPT ![v] = order]
       /\ connections' = [connections EXCEPT ![v] = Published(order, byID)]

HandleConnectionEvent(v, event) ==
    LET byID == [connectionsByID[v] EXCEPT ![event.id] = event.state]
        order == IF connectionsByID[v][event.id] # "absent"
                 THEN MovedToFront(connectionOrder[v], event.id)
                 ELSE <<event.id>> \o connectionOrder[v]
        gone == IdsToRemove(order, byID)
        kept == [id \in Ids |-> IF id \in gone THEN "absent" ELSE byID[id]]
        left == Filtered(order, Ids \ gone)
    IN /\ connectionsByID' = [connectionsByID EXCEPT ![v] = kept]
       /\ connectionOrder' = [connectionOrder EXCEPT ![v] = left]
       /\ connections' = [connections EXCEPT ![v] = Published(left, kept)]

\* ConnectionEventBridge.receiver?.handleConnectionEvent
HandedOver(event) ==
    \/ receiver = NoView /\ UNCHANGED viewVars
    \/ receiver # NoView /\ HandleConnectionEvent(receiver, event)

\* mutant: the main actor may run any waiting task
MainActorRunsAnyTask ==
    /\ mailbox # <<>>
    /\ \E k \in DOMAIN mailbox :
        /\ mailbox' = SubSeq(mailbox, 1, k - 1) \o SubSeq(mailbox, k + 1, Len(mailbox))
        /\ HandedOver(mailbox[k])
    /\ UNCHANGED <<reported, alive, used, receiver>>

OldestTaskTaken == mailbox # <<>> /\ mailbox' = Tail(mailbox)

\* The main actor runs the oldest task; without a receiver the event is lost.
MainActorRunsTask ==
    /\ OldestTaskTaken
    /\ HandedOver(Head(mailbox))
    /\ UNCHANGED <<reported, alive, used, receiver>>

-----------------------------------------------------------------------------
Next ==
    \/ \E id \in Ids : CoreEmits(id)
    \/ \E v \in View : ViewModelStarts(v) \/ ViewModelEnds(v)
    \/ MainActorRunsTask

Spec == Init /\ [][Next]_vars

\* The main actor runs its tasks (MainActorRunsTask is the only step that takes one
\* from the mailbox); connections and scenes may do as they like.
FairSpec == Spec /\ WF_mailbox(OldestTaskTaken)

-----------------------------------------------------------------------------
Shown(v, state) == {id \in Ids : \E k \in DOMAIN connections[v] :
                       connections[v][k] = [id |-> id, state |-> state]}
Waiting(id) == {k \in DOMAIN mailbox : mailbox[k].id = id}

\* In every window the order and the dictionary know the same connections, each
\* once, and what is published are exactly their states in the dictionary.
OrderMatchesDictionary ==
    \A v \in View :
        /\ \A j, k \in DOMAIN connectionOrder[v] :
                connectionOrder[v][j] = connectionOrder[v][k] => j = k
        /\ {connectionOrder[v][k] : k \in DOMAIN connectionOrder[v]}
                = {id \in Ids : connectionsByID[v][id] # "absent"}
        /\ Len(connections[v]) = Len(connectionOrder[v])
        /\ \A id \in Ids : connectionsByID[v][id] # "absent" => id \in Shown(v, connectionsByID[v][id])

\* The window that opened last, as long as it is open, shows a connection open
\* only while it is open or its end is on the way to it, whatever windows there
\* were before and still are.  (A window that has lost the receiver to it hears of
\* no end any more: what it shows open it shows so until it is closed.)
ReceiverShowsNothingOpenForever ==
    \A v \in View : v = receiver =>
        \A id \in Shown(v, "open") :
            \/ reported[id] = "open"
            \/ \E k \in Waiting(id) : mailbox[k].state \in Core!Ended

\* Once the main actor has caught up, the first window, as long as it is the only
\* one there has been, shows exactly the open connections as open: retiring old
\* ones never hides a live one.
CaughtUpViewIsExact ==
    \A v \in View : v = receiver /\ used = {v} /\ mailbox = <<>> =>
        \A id \in Ids : id \in Shown(v, "open") <=> reported[id] = "open"

\* In the end the window that receives the events shows no connection open that has
\* ended: each end reaches it, and none of them is taken back by an event that was
\* overtaken.
EndReachesTheView ==
    <>[](\A id \in Ids, v \in View :
            reported[id] \in Core!Ended /\ v = receiver => id \notin Shown(v, "open"))

-----------------------------------------------------------------------------
\* What the user interface promises and the code does not do.

\* A connection that has just ended is among those listed under "Recent".  It
\* does not hold: once the limit is reached trimEndedConnections removes the
\* connections at the front of the order, which are the latest.
JustEndedIsRecent ==
    [][ receiver # NoView /\ mailbox # <<>> /\ mailbox' = Tail(mailbox)
            /\ Head(mailbox).state \in Core!Ended
        => \E k \in DOMAIN connections'[receiver] : connections'[receiver][k] = Head(mailbox) ]_vars

=============================================================================
