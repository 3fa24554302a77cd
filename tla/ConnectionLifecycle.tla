------------------------- MODULE ConnectionLifecycle -------------------------
(***************************************************************************)
(* What the C core promises about the events it hands to the registered    *)
(* connection event handler, as seen per connection identifier.  A         *)
(* connection that was established is reported open once and ended at most *)
(* once, as closed or as an error; a connection that never came up is      *)
(* reported as an error and nothing else.  Every emitter (a TCP CONNECT    *)
(* relay, a UDP association) is shown to implement this specification and  *)
(* the dashboard is checked against it instead of against the emitters.    *)
(***************************************************************************)
CONSTANT Ids        \* connection identifiers

VARIABLE reported   \* the last state emitted for each identifier

Ended == {"closed", "error"}

ReportedType == reported \in [Ids -> {"none", "open"} \cup Ended]

Init == reported = [id \in Ids |-> "none"]

\* TWOSOCKS_CONNECTION_OPEN for a fresh identifier
Open(id) ==
    /\ reported[id] = "none"
    /\ reported' = [reported EXCEPT ![id] = "open"]

\* the terminal event of an open connection
End(id, state) ==
    /\ reported[id] = "open"
    /\ reported' = [reported EXCEPT ![id] = state]

\* the single event of a connection that never came up
Fail(id) ==
    /\ reported[id] = "none"
    /\ reported' = [reported EXCEPT ![id] = "error"]

Next ==
    \E id \in Ids :
        \/ Open(id)
        \/ \E state \in Ended : End(id, state)
        \/ Fail(id)

Spec == Init /\ [][Next]_reported
=============================================================================
