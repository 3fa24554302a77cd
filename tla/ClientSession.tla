---------------------------- MODULE ClientSession ----------------------------
(***************************************************************************)
(* The client threads: clientthread of sockssrv.c from the greeting to the *)
(* close of the control connection, for several clients at once.  They     *)
(* share the list of addresses that need no password (auth_ips, guarded by *)
(* a read-write lock) and the connection identifiers (guarded by           *)
(* connection_event_lock).                                                 *)
(*                                                                         *)
(* Abstracted: every recv returns one whole message of the protocol or     *)
(* something that is refused; what the two copy loops do in between (they  *)
(* are TcpRelay and UdpAssociation, which also emits its own events); the  *)
(* texts of replies.  A reply that cannot be written shows only where the  *)
(* code looks at the result.                                               *)
(***************************************************************************)
EXTENDS Naturals, Sequences, FiniteSets

CONSTANTS
    Client,      \* client threads
    Ip           \* client addresses

ASSUME ClientAssumption == IsFiniteSet(Client)

VARIABLES
    authUser,    \* auth_user and auth_pass are set
    authOnce,    \* auth_ips is allocated: option -1
    ip,          \* client.addr of each thread
    pc,          \* where each thread is
    state,       \* the state member of struct thread
    authIps,     \* auth_ips
    remote,      \* the second descriptor of the session, if it is open
    cid,         \* connection_id; 0 before it is drawn
    nextId,      \* next_connection_identifier_value
    reported,    \* the last event emitted for each identifier
    proved       \* history: the clients that have been told their password is right

config == <<authUser, authOnce, ip>>
vars == <<config, pc, state, authIps, remote, cid, nextId, reported, proved>>

Ids == 1 .. Cardinality(Client)
Offers == {<<>>, <<"none">>, <<"user">>, <<"none", "user">>, <<"user", "none">>}

TypeOK ==
    /\ authUser \in BOOLEAN /\ authOnce \in BOOLEAN
    /\ ip \in [Client -> Ip]
    /\ pc \in [Client -> {"recv", "whitelist", "connecting", "connected", "accepted",
                          "relaying", "associating", "associated", "closing", "done"}]
    /\ state \in [Client -> {"connected", "needAuth", "authed"}]
    /\ authIps \in Seq(Ip)
    /\ remote \in [Client -> {"none", "tcp", "udp"}]
    /\ cid \in [Client -> {0} \cup Ids]
    /\ nextId \in 1 .. Cardinality(Client) + 1
    /\ reported \in [Ids -> {"none", "open", "closed", "error"}]
    /\ proved \subseteq Client

\* the options socks_main accepts: a user with a password, -1 only with them
Options == {o \in SUBSET {"1", "u", "P"} : ("u" \in o <=> "P" \in o) /\ ("1" \in o => "P" \in o)}

Init ==
    /\ \E o \in Options : authUser = ("u" \in o) /\ authOnce = ("1" \in o)
    /\ ip \in [Client -> Ip]
    /\ pc = [c \in Client |-> "recv"]
    /\ state = [c \in Client |-> "connected"]
    /\ authIps = <<>>
    /\ remote = [c \in Client |-> "none"]
    /\ cid = [c \in Client |-> 0]
    /\ nextId = 1
    /\ reported = [id \in Ids |-> "none"]
    /\ proved = {}

Goto(c, label) == pc' = [pc EXCEPT ![c] = label]
Receiving(c, s) == pc[c] = "recv" /\ state[c] = s

-----------------------------------------------------------------------------
\* Authentication

IsInAuthedList(addr) == \E k \in DOMAIN authIps : authIps[k] = addr

\* whether check_auth_method takes one of the offered methods; for the list it
\* has to get the read lock
Acceptable(c, method, locked) ==
    \/ method = "none" /\ (~authUser \/ (authOnce /\ locked /\ IsInAuthedList(ip[c])))
    \/ method = "user" /\ authUser

\* check_auth_method: the first offered method that is acceptable
CheckAuthMethod(c, offer, locked) ==
    LET Accepted == {k \in DOMAIN offer : Acceptable(c, offer[k], locked)}
    IN IF Accepted = {} THEN "invalid"
       ELSE offer[CHOOSE k \in Accepted : \A j \in Accepted : k <= j]

\* a greeting; one that is malformed is answered like an empty offer
Greet(c, offer, locked) ==
    /\ Receiving(c, "connected")
    /\ LET method == CheckAuthMethod(c, offer, locked)
       IN /\ state' = [state EXCEPT ![c] = CASE method = "none" -> "authed"
                                             [] method = "user" -> "needAuth"
                                             [] OTHER -> "connected"]
          /\ IF method = "invalid" THEN Goto(c, "closing") ELSE UNCHANGED pc
    /\ UNCHANGED <<config, authIps, remote, cid, nextId, reported, proved>>

\* The reply is sent; the list is updated after it.
CredentialsAccepted(c) ==
    /\ Receiving(c, "needAuth")
    /\ proved' = proved \cup {c}
    /\ state' = [state EXCEPT ![c] = "authed"]
    /\ Goto(c, "whitelist")
    /\ UNCHANGED <<config, authIps, remote, cid, nextId, reported>>

\* mutant: the session goes on after the refusal has been sent
CredentialsRefusedOnly(c) ==
    /\ Receiving(c, "needAuth")
    /\ state' = [state EXCEPT ![c] = "authed"]
    /\ UNCHANGED <<config, pc, authIps, remote, cid, nextId, reported, proved>>

CredentialsRefused(c) ==
    /\ Receiving(c, "needAuth")
    /\ Goto(c, "closing")
    /\ UNCHANGED <<config, state, authIps, remote, cid, nextId, reported, proved>>

\* mutant: the list is not searched under the write lock
AddAuthIpUnsearched(c) ==
    /\ pc[c] = "whitelist"
    /\ authIps' = IF authOnce THEN Append(authIps, ip[c]) ELSE authIps
    /\ Goto(c, "recv")
    /\ UNCHANGED <<config, state, remote, cid, nextId, reported, proved>>

\* Under the write lock.  When the lock or memory for the list cannot be had,
\* the session goes on without the address being listed.
AddAuthIp(c) ==
    /\ pc[c] = "whitelist"
    /\ IF authOnce /\ ~IsInAuthedList(ip[c])
       THEN authIps' \in {authIps, Append(authIps, ip[c])}
       ELSE UNCHANGED authIps
    /\ Goto(c, "recv")
    /\ UNCHANGED <<config, state, remote, cid, nextId, reported, proved>>

-----------------------------------------------------------------------------
\* The request

\* recv fails or finds the connection closed
ReceiveEnds(c) ==
    /\ pc[c] = "recv"
    /\ Goto(c, "closing")
    /\ UNCHANGED <<config, state, authIps, remote, cid, nextId, reported, proved>>

\* the header is malformed, names another command, or its address does not resolve
RequestRefused(c) ==
    /\ Receiving(c, "authed")
    /\ Goto(c, "closing")
    /\ UNCHANGED <<config, state, authIps, remote, cid, nextId, reported, proved>>

\* mutant: next_connection_identifier does not increment
RequestConnectSameId(c) ==
    /\ Receiving(c, "authed")
    /\ cid' = [cid EXCEPT ![c] = nextId]
    /\ Goto(c, "connecting")
    /\ UNCHANGED <<config, state, authIps, remote, nextId, reported, proved>>

\* mutant: the identifier is drawn once for the target and once for the event
RequestConnectDrawsTwice(c) ==
    /\ Receiving(c, "authed")
    /\ cid' = [cid EXCEPT ![c] = nextId]
    /\ nextId' = nextId + 2
    /\ Goto(c, "connecting")
    /\ UNCHANGED <<config, state, authIps, remote, reported, proved>>

RequestConnect(c) ==
    /\ Receiving(c, "authed")
    /\ cid' = [cid EXCEPT ![c] = nextId]
    /\ nextId' = nextId + 1
    /\ Goto(c, "connecting")
    /\ UNCHANGED <<config, state, authIps, remote, reported, proved>>

Emit(c, s) == reported' = [reported EXCEPT ![cid[c]] = s]

\* connect_socks_target fails: an event, an error reply
ConnectFails(c) ==
    /\ pc[c] = "connecting"
    /\ Emit(c, "error")
    /\ Goto(c, "closing")
    /\ UNCHANGED <<config, state, authIps, remote, cid, nextId, proved>>

Connects(c) ==
    /\ pc[c] = "connecting"
    /\ remote' = [remote EXCEPT ![c] = "tcp"]
    /\ Goto(c, "connected")
    /\ UNCHANGED <<config, state, authIps, cid, nextId, reported, proved>>

\* mutant: the target's descriptor stays open
ConnectReplyFailsLeaks(c) ==
    /\ pc[c] = "connected"
    /\ Emit(c, "error")
    /\ Goto(c, "closing")
    /\ UNCHANGED <<config, state, authIps, remote, cid, nextId, proved>>

\* getsockname fails, or the success reply cannot be written
ConnectReplyFails(c) ==
    /\ pc[c] = "connected"
    /\ Emit(c, "error")
    /\ remote' = [remote EXCEPT ![c] = "none"]
    /\ Goto(c, "closing")
    /\ UNCHANGED <<config, state, authIps, cid, nextId, proved>>

\* the client knows before the event handler does
ConnectReplied(c) ==
    /\ pc[c] = "connected"
    /\ Goto(c, "accepted")
    /\ UNCHANGED <<config, state, authIps, remote, cid, nextId, reported, proved>>

EmitOpen(c) ==
    /\ pc[c] = "accepted"
    /\ Emit(c, "open")
    /\ Goto(c, "relaying")
    /\ UNCHANGED <<config, state, authIps, remote, cid, nextId, proved>>

\* copyloop returns its result
RelayEnds(c) ==
    /\ pc[c] = "relaying"
    /\ \E s \in {"closed", "error"} : Emit(c, s)
    /\ remote' = [remote EXCEPT ![c] = "none"]
    /\ Goto(c, "closing")
    /\ UNCHANGED <<config, state, authIps, cid, nextId, proved>>

\* udp_svc_setup fails: an error reply
AssociateFails(c) ==
    /\ Receiving(c, "authed")
    /\ Goto(c, "closing")
    /\ UNCHANGED <<config, state, authIps, remote, cid, nextId, reported, proved>>

RequestAssociate(c) ==
    /\ Receiving(c, "authed")
    /\ remote' = [remote EXCEPT ![c] = "udp"]
    /\ Goto(c, "associating")
    /\ UNCHANGED <<config, state, authIps, cid, nextId, reported, proved>>

AssociateReplied(c) ==
    /\ pc[c] = "associating"
    /\ Goto(c, "associated")
    /\ UNCHANGED <<config, state, authIps, remote, cid, nextId, reported, proved>>

\* populate_udp_response_addr or send_response fails, or copy_loop_udp returns
AssociationEnds(c) ==
    /\ pc[c] \in {"associating", "associated"}
    /\ remote' = [remote EXCEPT ![c] = "none"]
    /\ Goto(c, "closing")
    /\ UNCHANGED <<config, state, authIps, cid, nextId, reported, proved>>

\* breakloop
Close(c) ==
    /\ pc[c] = "closing"
    /\ Goto(c, "done")
    /\ UNCHANGED <<config, state, authIps, remote, cid, nextId, reported, proved>>

-----------------------------------------------------------------------------
Authentication(c) ==
    \/ \E offer \in Offers, locked \in BOOLEAN : Greet(c, offer, locked)
    \/ CredentialsAccepted(c) \/ CredentialsRefused(c) \/ AddAuthIp(c)

Request(c) ==
    \/ ReceiveEnds(c) \/ RequestRefused(c)
    \/ RequestConnect(c) \/ ConnectFails(c) \/ Connects(c)
    \/ ConnectReplyFails(c) \/ ConnectReplied(c) \/ EmitOpen(c) \/ RelayEnds(c)
    \/ RequestAssociate(c) \/ AssociateFails(c) \/ AssociateReplied(c) \/ AssociationEnds(c)
    \/ Close(c)

Thread(c) == Authentication(c) \/ Request(c)

Next == \E c \in Client : Thread(c)

Spec == Init /\ [][Next]_vars

-----------------------------------------------------------------------------
\* Nobody is served who has not given the password, or has, in auth-once mode,
\* the address of somebody who has.
ServedAreAuthorized ==
    \A c \in Client : remote[c] # "none" \/ cid[c] # 0 =>
        \/ ~authUser
        \/ c \in proved
        \/ authOnce /\ \E d \in proved : ip[d] = ip[c]

\* The list holds each address once, however many threads authenticate from it
\* at the same time, and only addresses of clients that gave the password; so
\* it does not grow with the number of sessions.
AuthIpsAreDistinct ==
    /\ \A j, k \in DOMAIN authIps : authIps[j] = authIps[k] => j = k
    /\ \A k \in DOMAIN authIps : \E d \in proved : ip[d] = authIps[k]

\* An identifier is reported open exactly while its session relays, and a
\* session that is over has closed its second descriptor and ended its
\* connection, on whichever way it left the loop.
ReportsMatchSessions ==
    /\ \A c \in Client :
        /\ remote[c] # "none" <=>
              pc[c] \in {"connected", "accepted", "relaying", "associating", "associated"}
        /\ cid[c] # 0 =>
              /\ reported[cid[c]] = "open" <=> pc[c] = "relaying"
              /\ pc[c] \in {"closing", "done"} => reported[cid[c]] \in {"closed", "error"}
    /\ \A id \in Ids : reported[id] # "none" => \E c \in Client : cid[c] = id

\* The events of all CONNECT sessions together follow the contract of the
\* event handler.
Lifecycle == INSTANCE ConnectionLifecycle
LifecycleSpec == Lifecycle!Spec

=============================================================================
