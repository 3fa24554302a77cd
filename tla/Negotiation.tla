---------------------------- MODULE Negotiation ----------------------------
(***************************************************************************)
(* What a client may expect of the proxy: a client that follows the        *)
(* protocol, message by message, is served what it asked for if it can be, *)
(* and nothing else; a client whose messages reach the server in pieces    *)
(* may also be refused.                                                    *)
(***************************************************************************)
EXTENDS Sequences

CONSTANTS
    NoAccount,       \* the server asks for no password
    Resolvable(_),   \* hosts that have an address
    RelayHosts(_),   \* what may be told the client of the other end
    Destination      \* destinations of datagrams

VARIABLES
    client, account,   \* who asks, and what the server wants proved
    whole,             \* every message has arrived in one piece so far
    phase,
    target,            \* what the client has been connected to
    told,              \* the address in the reply
    exchanged          \* the last datagram and its answer
vars == <<client, account, whole, phase, target, told, exchanged>>

Agrees == \E k \in DOMAIN client.offer :
              client.offer[k] = (IF account = NoAccount THEN 0 ELSE 2)
Proves == client.user = account.user /\ client.pass = account.pass
Asks == client.cmd \in {1, 3} /\ Resolvable(client.to)

Init ==
    /\ whole = TRUE /\ phase = "greeting"
    /\ target = <<>> /\ told = <<>> /\ exchanged = <<>>

Agree ==
    /\ phase = "greeting" /\ Agrees
    /\ phase' = IF account = NoAccount THEN "request" ELSE "credentials"
    /\ UNCHANGED <<target, told, exchanged>>

Prove ==
    /\ phase = "credentials" /\ Proves
    /\ phase' = "request"
    /\ UNCHANGED <<target, told, exchanged>>

Serve ==
    /\ phase = "request" /\ Asks
    /\ phase' = IF client.cmd = 1 THEN "connected" ELSE "associated"
    /\ target' = client.to
    /\ told' \in RelayHosts(client)
    /\ UNCHANGED exchanged

\* for a reason, as long as the messages are whole
Refuse ==
    /\ \/ phase = "greeting" /\ (whole' => ~Agrees)
       \/ phase = "credentials" /\ (whole' => ~Proves)
       \/ phase = "request" /\ (whole' => ~Asks)
       \/ phase = "associated" /\ ~whole'
    /\ phase' = "refused"
    /\ UNCHANGED <<target, told, exchanged>>

\* a datagram reaches its destination, the answer comes back in its name
Exchange ==
    /\ phase = "associated"
    /\ \E d \in Destination : exchanged' = [asked |-> d, sent |-> d, answered |-> d]
    /\ UNCHANGED <<phase, target, told>>

Next ==
    /\ whole' => whole
    /\ Agree \/ Prove \/ Serve \/ Refuse \/ Exchange \/ UNCHANGED <<phase, target, told, exchanged>>
    /\ UNCHANGED <<client, account>>

Spec == Init /\ [][Next]_vars
=============================================================================
