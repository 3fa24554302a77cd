--------------------------- MODULE TransferTotals ---------------------------
(***************************************************************************)
(* The byte totals: the counters of sockssrv.c, which live as long as the  *)
(* process, and the session and lifetime totals of ContentViewVM, which    *)
(* polls them, publishes every few seconds and keeps the lifetime totals   *)
(* in UserDefaults.  The process may be killed at any time and launched    *)
(* again; view models come and go with their windows.                      *)
(*                                                                         *)
(* Abstracted: amounts (a unit stands for some bytes); what UserDefaults   *)
(* does after set (a value that was set survives the process); the clock,  *)
(* which a due publication waits for, is assumed not to be set back.       *)
(***************************************************************************)
EXTENDS Integers

CONSTANTS
    View,        \* view models, one per window
    MaxWindows,  \* bound: windows a process opens
    MaxRelayed,  \* bound: units relayed in each direction
    MaxLaunches  \* bound: how often the process is launched

ASSUME TotalsAssumption ==
    MaxWindows \in Nat /\ MaxRelayed \in Nat /\ MaxLaunches \in Nat \ {0}

VARIABLES
    native,      \* total_downloaded_bytes and total_uploaded_bytes
    alive,       \* the view models that exist
    lastNative,  \* lastNativeDownloadedBytes, lastNativeUploadedBytes
    pending,     \* pendingDownloadedBytes, pendingUploadedBytes
    session,     \* sessionDownloadedBytes, sessionUploadedBytes
    lifetime,    \* lifetimeDownloadedBytes, lifetimeUploadedBytes
    publishAt,   \* nextTransferPublishAt: nil, in the future, or reached
    disk,        \* UserDefaults
    launches,    \* how often the process has been launched
    windows,     \* windows this process has opened; the first starts the proxy
    relayed,     \* history: units relayed since the app was installed
    lost,        \* history: units earlier processes took along; negative once a
                 \* second window has counted some twice
    single       \* history: no process has opened a second window so far

viewVars == <<alive, lastNative, pending, session, lifetime, publishAt>>
vars == <<native, viewVars, disk, launches, windows, relayed, lost, single>>

Direction == {"down", "up"}
Zero == [d \in Direction |-> 0]
Plus(x, y) == [d \in Direction |-> x[d] + y[d]]
Minus(x, y) == [d \in Direction |-> x[d] - y[d]]
Bytes == [Direction -> Nat]

TypeOK ==
    /\ native \in Bytes /\ disk \in Bytes /\ relayed \in Bytes
    /\ single => lost \in Bytes
    /\ alive \subseteq View
    /\ \A x \in {lastNative, pending, session, lifetime} : x \in [View -> Bytes]
    /\ publishAt \in [View -> {"nil", "later", "due"}]
    /\ launches \in 1 .. MaxLaunches
    /\ windows \in 0 .. MaxWindows
    /\ single \in BOOLEAN

Init ==
    /\ native = Zero
    /\ alive = {}
    /\ lastNative = [v \in View |-> Zero]
    /\ pending = [v \in View |-> Zero]
    /\ session = [v \in View |-> Zero]
    /\ lifetime = [v \in View |-> Zero]
    /\ publishAt = [v \in View |-> "nil"]
    /\ disk = Zero
    /\ launches = 1
    /\ windows = 0
    /\ relayed = Zero
    /\ lost = Zero
    /\ single = TRUE

-----------------------------------------------------------------------------
\* record_downloaded_bytes, record_uploaded_bytes
Record(d) ==
    /\ windows > 0
    /\ relayed[d] < MaxRelayed
    /\ native' = [native EXCEPT ![d] = @ + 1]
    /\ relayed' = [relayed EXCEPT ![d] = @ + 1]
    /\ UNCHANGED <<viewVars, disk, launches, windows, lost, single>>

\* now reaches nextTransferPublishAt
PublishFallsDue(v) ==
    /\ v \in alive
    /\ publishAt[v] = "later"
    /\ publishAt' = [publishAt EXCEPT ![v] = "due"]
    /\ UNCHANGED <<native, alive, lastNative, pending, session, lifetime, disk, launches, windows,
                   relayed, lost, single>>

\* mutant: the operands are the wrong way round
DeltaSwapped(v) == Minus(lastNative[v], native)

\* a native counter that is lower than before has started again from zero
Delta(v) ==
    [d \in Direction |-> IF native[d] >= lastNative[v][d] THEN native[d] - lastNative[v][d]
                         ELSE native[d]]

\* mutant: uploads alone schedule nothing
ScheduleOnDownload(v) ==
    IF Delta(v)["down"] > 0 /\ publishAt[v] = "nil" THEN "later" ELSE publishAt[v]

\* the first bytes that are pending schedule their publication
Schedule(v) ==
    IF Delta(v) # Zero /\ publishAt[v] = "nil" THEN "later" ELSE publishAt[v]

\* mutant: the pending bytes are not cleared
CommitKeepsPending(v, bytes) ==
    /\ session' = [session EXCEPT ![v] = Plus(@, bytes)]
    /\ lifetime' = [lifetime EXCEPT ![v] = Plus(@, bytes)]
    /\ disk' = Plus(lifetime[v], bytes)
    /\ pending' = [pending EXCEPT ![v] = bytes]
    /\ publishAt' = [publishAt EXCEPT ![v] = "nil"]

\* commitPendingTransferTotalsIfNeeded with these bytes pending, and
\* persistLifetimeTransferTotals
Commit(v, bytes) ==
    /\ session' = [session EXCEPT ![v] = Plus(@, bytes)]
    /\ lifetime' = [lifetime EXCEPT ![v] = Plus(@, bytes)]
    /\ disk' = Plus(lifetime[v], bytes)
    /\ pending' = [pending EXCEPT ![v] = Zero]
    /\ publishAt' = [publishAt EXCEPT ![v] = "nil"]

\* applyTransferTotals: called every half second
Refresh(v) ==
    /\ v \in alive
    /\ lastNative' = [lastNative EXCEPT ![v] = native]
    /\ LET bytes == Plus(pending[v], Delta(v))
       IN IF bytes # Zero /\ Schedule(v) = "due"
          THEN Commit(v, bytes)
          ELSE /\ pending' = [pending EXCEPT ![v] = bytes]
               /\ publishAt' = [publishAt EXCEPT ![v] = Schedule(v)]
               /\ UNCHANGED <<session, lifetime, disk>>
    /\ UNCHANGED <<native, alive, launches, windows, relayed, lost, single>>

-----------------------------------------------------------------------------
\* mutant: the lifetime totals are not loaded
WindowOpensUnloaded(v) ==
    /\ v \notin alive
    /\ windows < MaxWindows
    /\ windows' = windows + 1
    /\ single' = (single /\ windows = 0)
    /\ alive' = alive \cup {v}
    /\ lastNative' = [lastNative EXCEPT ![v] = native]
    /\ pending' = [pending EXCEPT ![v] = native]
    /\ publishAt' = [publishAt EXCEPT ![v] = IF native = Zero THEN "nil" ELSE "later"]
    /\ UNCHANGED <<native, session, lifetime, disk, launches, relayed, lost>>

\* A window opens: loadLifetimeTransferTotals, then the first poll of
\* startTransferPolling, which finds everything relayed since the launch.
WindowOpens(v) ==
    /\ v \notin alive
    /\ windows < MaxWindows
    /\ windows' = windows + 1
    /\ single' = (single /\ windows = 0)
    /\ alive' = alive \cup {v}
    /\ lifetime' = [lifetime EXCEPT ![v] = disk]
    /\ lastNative' = [lastNative EXCEPT ![v] = native]
    /\ pending' = [pending EXCEPT ![v] = native]
    /\ publishAt' = [publishAt EXCEPT ![v] = IF native = Zero THEN "nil" ELSE "later"]
    /\ UNCHANGED <<native, session, disk, launches, relayed, lost>>

\* the memory of a set of view models is gone
Discard(V) ==
    /\ alive' = alive \ V
    /\ lastNative' = [v \in View |-> IF v \in V THEN Zero ELSE lastNative[v]]
    /\ pending' = [v \in View |-> IF v \in V THEN Zero ELSE pending[v]]
    /\ session' = [v \in View |-> IF v \in V THEN Zero ELSE session[v]]
    /\ lifetime' = [v \in View |-> IF v \in V THEN Zero ELSE lifetime[v]]
    /\ publishAt' = [v \in View |-> IF v \in V THEN "nil" ELSE publishAt[v]]

\* deinit: nothing is published on the way
WindowCloses(v) ==
    /\ v \in alive
    /\ Discard({v})
    /\ UNCHANGED <<native, disk, launches, windows, relayed, lost, single>>

\* The system ends the process, and it is launched again.
Relaunch ==
    /\ launches < MaxLaunches
    /\ launches' = launches + 1
    /\ windows' = 0
    /\ lost' = Minus(relayed, disk)
    /\ native' = Zero
    /\ Discard(View)
    /\ UNCHANGED <<disk, relayed, single>>

-----------------------------------------------------------------------------
Next ==
    \/ \E d \in Direction : Record(d)
    \/ \E v \in View : PublishFallsDue(v) \/ Refresh(v) \/ WindowOpens(v) \/ WindowCloses(v)
    \/ Relaunch

Spec == Init /\ [][Next]_vars

\* The timer keeps firing and the clock keeps going.
FairSpec ==
    Spec /\ \A v \in View : WF_vars(Refresh(v)) /\ WF_vars(PublishFallsDue(v))

-----------------------------------------------------------------------------
\* A view model accounts for each byte of the process once, whatever its age:
\* what it shows and what it holds back add up to the counters it last read.
\* What is held back is always scheduled to be published, and nothing is
\* scheduled without any (nextTransferPublishAt).
SessionMatchesNative ==
    \A v \in alive :
        /\ Plus(session[v], pending[v]) = lastNative[v]
        /\ \A d \in Direction : lastNative[v][d] <= native[d]
        /\ pending[v] # Zero <=> publishAt[v] # "nil"

\* In the first window of a process, as long as earlier processes had no other
\* either, every unit ever relayed is on disk, held back or not yet read by the
\* window, or went with an earlier process; what is on disk is what the window
\* shows.  No kill makes it count anything twice.  (A second window does: its
\* last native counters are zero, those of the process are not.)
EveryByteIsAccountedFor ==
    \A v \in alive :
        single =>
            /\ disk = lifetime[v]
            /\ relayed = Plus(Plus(lost, disk), Plus(pending[v], Minus(native, lastNative[v])))

\* Bytes a window can read are published while it stays open.
RelayedIsPublished ==
    \A v \in View, d \in Direction, n \in 1 .. MaxRelayed :
        v \in alive /\ native[d] >= n ~> v \notin alive \/ session[v][d] >= n

=============================================================================
