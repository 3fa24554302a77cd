------------------------ MODULE ClientSession_proofs ------------------------
(***************************************************************************)
(* The safety properties of ClientSession for every finite set of clients  *)
(* and every set of addresses, and that the sessions together implement    *)
(* the contract of the event handler.  At the end: that the negotiation of *)
(* one of them, byte by byte in Handshake, follows Negotiation.            *)
(*                                                                         *)
(* The properties need to know what a thread has behind it at each place   *)
(* (ControlPoint), and that the identifiers drawn so far are as many as    *)
(* the clients that hold one (IdsAreDrawn).                                *)
(***************************************************************************)
EXTENDS ClientSession, FiniteSetTheorems, SequenceTheorems, TLAPS

Authorized(c) ==
    \/ ~authUser
    \/ c \in proved
    \/ authOnce /\ \E d \in proved : ip[d] = ip[c]

Drawn == {c \in Client : cid[c] # 0}

\* The position of a thread and what it may rely on there.
ControlPoint ==
    \A c \in Client :
        /\ pc[c] \in {"recv", "whitelist", "associating", "associated"} => cid[c] = 0
        /\ pc[c] \in {"connecting", "connected", "accepted", "relaying"} => cid[c] # 0
        /\ pc[c] \in {"connecting", "connected", "accepted"} => reported[cid[c]] = "none"
        /\ pc[c] \notin {"recv", "closing", "done"} \/ cid[c] # 0 => state[c] = "authed"
        /\ pc[c] = "whitelist" => c \in proved
        /\ state[c] = "authed" => Authorized(c)

IdsAreDrawn ==
    /\ \A c \in Client : cid[c] < nextId
    /\ \A c, d \in Client : cid[c] = cid[d] /\ cid[c] # 0 => c = d
    /\ Cardinality(Drawn) = nextId - 1

Inv ==
    /\ TypeOK
    /\ AuthIpsAreDistinct
    /\ ReportsMatchSessions
    /\ ControlPoint
    /\ IdsAreDrawn

-----------------------------------------------------------------------------
LEMMA ClientsAreFinite == Cardinality(Client) \in Nat
BY ClientAssumption, FS_CardinalityType

\* A client without an identifier leaves one for it to draw.
LEMMA IdIsLeft ==
    ASSUME Inv, NEW c \in Client, cid[c] = 0
    PROVE  nextId \in Ids /\ reported[nextId] = "none"
<1>1. Drawn \subseteq Client \ {c}
  BY DEF Drawn
<1>2. IsFiniteSet(Client \ {c}) /\ Cardinality(Client \ {c}) = Cardinality(Client) - 1
  BY ClientAssumption, FS_RemoveElement
<1>3. Cardinality(Drawn) <= Cardinality(Client) - 1
  BY <1>1, <1>2, FS_Subset
<1>4. nextId \in Ids
  BY <1>3, ClientsAreFinite DEF Inv, TypeOK, IdsAreDrawn, Ids
<1>5. ~ \E d \in Client : cid[d] = nextId
  BY DEF Inv, IdsAreDrawn, TypeOK, Ids
<1> QED
  BY <1>4, <1>5 DEF Inv, ReportsMatchSessions

LEMMA InitInv == Init => Inv
<1> SUFFICES ASSUME Init PROVE Inv
  OBVIOUS
<1>1. TypeOK
  BY ClientsAreFinite DEF Init, TypeOK, Options, Ids
<1>2. Drawn = {}
  BY DEF Init, Drawn
<1>3. IdsAreDrawn
  BY <1>2, FS_EmptySet DEF Init, IdsAreDrawn
<1>4. AuthIpsAreDistinct /\ ReportsMatchSessions /\ ControlPoint
  BY DEF Init, AuthIpsAreDistinct, ReportsMatchSessions, ControlPoint, Ids
<1> QED
  BY <1>1, <1>3, <1>4 DEF Inv

\* A step that leaves the identifiers that are drawn alone.
LEMMA SameIds ==
    ASSUME Inv, UNCHANGED <<cid, nextId>> PROVE IdsAreDrawn'
BY DEF Inv, IdsAreDrawn, Drawn

-----------------------------------------------------------------------------
LEMMA AuthenticationInv ==
    ASSUME Inv, NEW c \in Client, Authentication(c) PROVE Inv'
<1> USE DEF Goto, Receiving, config
<1>1. CASE \E offer \in Offers, locked \in BOOLEAN : Greet(c, offer, locked)
  <2> PICK offer \in Offers, locked \in BOOLEAN : Greet(c, offer, locked)
    BY <1>1
  <2> DEFINE method == CheckAuthMethod(c, offer, locked)
  <2>1. method = "none" => Authorized(c)
    <3> DEFINE Accepted == {k \in DOMAIN offer : Acceptable(c, offer[k], locked)}
               first == CHOOSE k \in Accepted : \A j \in Accepted : k <= j
    <3> SUFFICES ASSUME method = "none" PROVE Authorized(c)
      OBVIOUS
    <3>1. Accepted # {} /\ method = offer[first]
      BY DEF CheckAuthMethod
    <3>2. Accepted \subseteq 1 .. 2
      BY DEF Offers
    <3>3. \E k \in Accepted : \A j \in Accepted : k <= j
      <4> HIDE DEF Accepted
      <4>1. PICK k \in Accepted : TRUE
        BY <3>1
      <4>2. CASE 1 \in Accepted
        <5>1. \A j \in Accepted : 1 <= j
          BY <3>2
        <5> QED BY <4>2, <5>1
      <4>3. CASE 1 \notin Accepted
        <5>1. \A j \in Accepted : j = 2
          BY <3>2, <4>3
        <5>2. k <= k
          BY <5>1
        <5> QED BY <5>1, <5>2
      <4> QED BY <4>2, <4>3
    <3>4. first \in Accepted
      <4> HIDE DEF Accepted
      <4> QED BY <3>3
    <3>5. Acceptable(c, "none", locked)
      BY <3>1, <3>4
    <3> QED
      BY <3>5 DEF Acceptable, IsInAuthedList, Authorized, Inv, AuthIpsAreDistinct
  <2>2. /\ state' = [state EXCEPT ![c] = CASE method = "none" -> "authed"
                                          [] method = "user" -> "needAuth"
                                          [] OTHER -> "connected"]
        /\ pc' = [pc EXCEPT ![c] = "closing"] \/ pc' = pc
        /\ UNCHANGED <<config, authIps, remote, cid, nextId, reported, proved>>
        /\ pc[c] = "recv"
    BY DEF Greet
  <2> HIDE DEF method
  <2>3. TypeOK'
    BY <2>2 DEF Inv, TypeOK
  <2>4. ControlPoint'
    BY <2>1, <2>2 DEF Inv, TypeOK, ControlPoint, Authorized
  <2>5. AuthIpsAreDistinct' /\ ReportsMatchSessions'
    BY <2>2 DEF Inv, TypeOK, AuthIpsAreDistinct, ReportsMatchSessions, ControlPoint
  <2> QED
    BY <2>2, <2>3, <2>4, <2>5, SameIds DEF Inv
<1>2. CASE CredentialsAccepted(c)
  <2>1. TypeOK' /\ ControlPoint'
    BY <1>2 DEF CredentialsAccepted, Inv, TypeOK, ControlPoint, Authorized
  <2>2. AuthIpsAreDistinct' /\ ReportsMatchSessions'
    BY <1>2 DEF CredentialsAccepted, Inv, TypeOK, AuthIpsAreDistinct, ReportsMatchSessions, ControlPoint
  <2> QED
    BY <1>2, <2>1, <2>2, SameIds DEF CredentialsAccepted, Inv
<1>3. CASE CredentialsRefused(c)
  <2>1. TypeOK' /\ ControlPoint'
    BY <1>3 DEF CredentialsRefused, Inv, TypeOK, ControlPoint, Authorized
  <2>2. AuthIpsAreDistinct' /\ ReportsMatchSessions'
    BY <1>3 DEF CredentialsRefused, Inv, TypeOK, AuthIpsAreDistinct, ReportsMatchSessions, ControlPoint
  <2> QED
    BY <1>3, <2>1, <2>2, SameIds DEF CredentialsRefused, Inv
<1>4. CASE AddAuthIp(c)
  <2>1. authIps' = authIps \/ (authIps' = Append(authIps, ip[c]) /\ ~IsInAuthedList(ip[c]))
    BY <1>4 DEF AddAuthIp
  <2>2. authIps' \in Seq(Ip) /\ AuthIpsAreDistinct'
    <3>1. CASE authIps' = authIps
      BY <1>4, <3>1 DEF AddAuthIp, Inv, TypeOK, AuthIpsAreDistinct
    <3>2. CASE authIps' = Append(authIps, ip[c]) /\ ~IsInAuthedList(ip[c])
      <4>1. c \in proved /\ ip[c] \in Ip
        BY <1>4 DEF AddAuthIp, Inv, TypeOK, ControlPoint
      <4>2. /\ authIps' \in Seq(Ip)
            /\ DOMAIN authIps' = DOMAIN authIps \cup {Len(authIps) + 1}
            /\ authIps'[Len(authIps) + 1] = ip[c]
            /\ \A k \in DOMAIN authIps : authIps'[k] = authIps[k]
        BY <3>2, <4>1 DEF Inv, TypeOK
      <4> QED
        BY <1>4, <3>2, <4>1, <4>2 DEF AddAuthIp, Inv, AuthIpsAreDistinct, IsInAuthedList
    <3> QED
      BY <2>1, <3>1, <3>2
  <2>3. TypeOK' /\ ControlPoint'
    BY <1>4, <2>2 DEF AddAuthIp, Inv, TypeOK, ControlPoint, Authorized
  <2>4. ReportsMatchSessions'
    BY <1>4 DEF AddAuthIp, Inv, TypeOK, ReportsMatchSessions, ControlPoint
  <2> QED
    BY <1>4, <2>2, <2>3, <2>4, SameIds DEF AddAuthIp, Inv
<1> QED
  BY <1>1, <1>2, <1>3, <1>4 DEF Authentication

LEMMA RequestInv ==
    ASSUME Inv, NEW c \in Client, Request(c) PROVE Inv'
<1> USE DEF Goto, Receiving, config, Emit
<1>1. CASE ReceiveEnds(c)
  <2>1. TypeOK' /\ ControlPoint'
    BY <1>1 DEF ReceiveEnds, Inv, TypeOK, ControlPoint, Authorized, IdsAreDrawn
  <2>2. AuthIpsAreDistinct' /\ ReportsMatchSessions'
    BY <1>1 DEF ReceiveEnds, Inv, TypeOK, AuthIpsAreDistinct, ReportsMatchSessions, ControlPoint, IdsAreDrawn
  <2> QED
    BY <1>1, <2>1, <2>2, SameIds DEF ReceiveEnds, Inv
<1>2. CASE RequestRefused(c)
  <2>1. TypeOK' /\ ControlPoint'
    BY <1>2 DEF RequestRefused, Inv, TypeOK, ControlPoint, Authorized, IdsAreDrawn
  <2>2. AuthIpsAreDistinct' /\ ReportsMatchSessions'
    BY <1>2 DEF RequestRefused, Inv, TypeOK, AuthIpsAreDistinct, ReportsMatchSessions, ControlPoint, IdsAreDrawn
  <2> QED
    BY <1>2, <2>1, <2>2, SameIds DEF RequestRefused, Inv
<1>3. CASE ConnectFails(c)
  <2>1. TypeOK' /\ ControlPoint'
    BY <1>3 DEF ConnectFails, Inv, TypeOK, ControlPoint, Authorized, IdsAreDrawn
  <2>2. AuthIpsAreDistinct' /\ ReportsMatchSessions'
    BY <1>3 DEF ConnectFails, Inv, TypeOK, AuthIpsAreDistinct, ReportsMatchSessions, ControlPoint, IdsAreDrawn
  <2> QED
    BY <1>3, <2>1, <2>2, SameIds DEF ConnectFails, Inv
<1>4. CASE Connects(c)
  <2>1. TypeOK' /\ ControlPoint'
    BY <1>4 DEF Connects, Inv, TypeOK, ControlPoint, Authorized, IdsAreDrawn
  <2>2. AuthIpsAreDistinct' /\ ReportsMatchSessions'
    BY <1>4 DEF Connects, Inv, TypeOK, AuthIpsAreDistinct, ReportsMatchSessions, ControlPoint, IdsAreDrawn
  <2> QED
    BY <1>4, <2>1, <2>2, SameIds DEF Connects, Inv
<1>5. CASE ConnectReplyFails(c)
  <2>1. TypeOK' /\ ControlPoint'
    BY <1>5 DEF ConnectReplyFails, Inv, TypeOK, ControlPoint, Authorized, IdsAreDrawn
  <2>2. AuthIpsAreDistinct' /\ ReportsMatchSessions'
    BY <1>5 DEF ConnectReplyFails, Inv, TypeOK, AuthIpsAreDistinct, ReportsMatchSessions, ControlPoint, IdsAreDrawn
  <2> QED
    BY <1>5, <2>1, <2>2, SameIds DEF ConnectReplyFails, Inv
<1>6. CASE ConnectReplied(c)
  <2>1. TypeOK' /\ ControlPoint'
    BY <1>6 DEF ConnectReplied, Inv, TypeOK, ControlPoint, Authorized, IdsAreDrawn
  <2>2. AuthIpsAreDistinct' /\ ReportsMatchSessions'
    BY <1>6 DEF ConnectReplied, Inv, TypeOK, AuthIpsAreDistinct, ReportsMatchSessions, ControlPoint, IdsAreDrawn
  <2> QED
    BY <1>6, <2>1, <2>2, SameIds DEF ConnectReplied, Inv
<1>7. CASE EmitOpen(c)
  <2>1. TypeOK' /\ ControlPoint'
    BY <1>7 DEF EmitOpen, Inv, TypeOK, ControlPoint, Authorized, IdsAreDrawn
  <2>2. AuthIpsAreDistinct' /\ ReportsMatchSessions'
    BY <1>7 DEF EmitOpen, Inv, TypeOK, AuthIpsAreDistinct, ReportsMatchSessions, ControlPoint, IdsAreDrawn
  <2> QED
    BY <1>7, <2>1, <2>2, SameIds DEF EmitOpen, Inv
<1>8. CASE RelayEnds(c)
  <2>1. TypeOK' /\ ControlPoint'
    BY <1>8 DEF RelayEnds, Inv, TypeOK, ControlPoint, Authorized, IdsAreDrawn
  <2>2. AuthIpsAreDistinct' /\ ReportsMatchSessions'
    BY <1>8 DEF RelayEnds, Inv, TypeOK, AuthIpsAreDistinct, ReportsMatchSessions, ControlPoint, IdsAreDrawn
  <2> QED
    BY <1>8, <2>1, <2>2, SameIds DEF RelayEnds, Inv
<1>9. CASE RequestAssociate(c)
  <2>1. TypeOK' /\ ControlPoint'
    BY <1>9 DEF RequestAssociate, Inv, TypeOK, ControlPoint, Authorized, IdsAreDrawn
  <2>2. AuthIpsAreDistinct' /\ ReportsMatchSessions'
    BY <1>9 DEF RequestAssociate, Inv, TypeOK, AuthIpsAreDistinct, ReportsMatchSessions, ControlPoint, IdsAreDrawn
  <2> QED
    BY <1>9, <2>1, <2>2, SameIds DEF RequestAssociate, Inv
<1>10. CASE AssociateFails(c)
  <2>1. TypeOK' /\ ControlPoint'
    BY <1>10 DEF AssociateFails, Inv, TypeOK, ControlPoint, Authorized, IdsAreDrawn
  <2>2. AuthIpsAreDistinct' /\ ReportsMatchSessions'
    BY <1>10 DEF AssociateFails, Inv, TypeOK, AuthIpsAreDistinct, ReportsMatchSessions, ControlPoint, IdsAreDrawn
  <2> QED
    BY <1>10, <2>1, <2>2, SameIds DEF AssociateFails, Inv
<1>11. CASE AssociateReplied(c)
  <2>1. TypeOK' /\ ControlPoint'
    BY <1>11 DEF AssociateReplied, Inv, TypeOK, ControlPoint, Authorized, IdsAreDrawn
  <2>2. AuthIpsAreDistinct' /\ ReportsMatchSessions'
    BY <1>11 DEF AssociateReplied, Inv, TypeOK, AuthIpsAreDistinct, ReportsMatchSessions, ControlPoint, IdsAreDrawn
  <2> QED
    BY <1>11, <2>1, <2>2, SameIds DEF AssociateReplied, Inv
<1>12. CASE AssociationEnds(c)
  <2>1. TypeOK' /\ ControlPoint'
    BY <1>12 DEF AssociationEnds, Inv, TypeOK, ControlPoint, Authorized, IdsAreDrawn
  <2>2. AuthIpsAreDistinct' /\ ReportsMatchSessions'
    BY <1>12 DEF AssociationEnds, Inv, TypeOK, AuthIpsAreDistinct, ReportsMatchSessions, ControlPoint, IdsAreDrawn
  <2> QED
    BY <1>12, <2>1, <2>2, SameIds DEF AssociationEnds, Inv
<1>13. CASE Close(c)
  <2>1. TypeOK' /\ ControlPoint'
    BY <1>13 DEF Close, Inv, TypeOK, ControlPoint, Authorized, IdsAreDrawn
  <2>2. AuthIpsAreDistinct' /\ ReportsMatchSessions'
    BY <1>13 DEF Close, Inv, TypeOK, AuthIpsAreDistinct, ReportsMatchSessions, ControlPoint, IdsAreDrawn
  <2> QED
    BY <1>13, <2>1, <2>2, SameIds DEF Close, Inv
<1>14. CASE RequestConnect(c)
  <2>1. cid[c] = 0 /\ state[c] = "authed" /\ nextId \in Nat \ {0} /\ 0 \notin Ids
    BY <1>14 DEF RequestConnect, Inv, TypeOK, ControlPoint, Ids
  <2>2. nextId \in Ids /\ reported[nextId] = "none"
    BY <2>1, IdIsLeft
  <2>3. TypeOK'
    BY <1>14, <2>2, ClientsAreFinite DEF RequestConnect, Inv, TypeOK, Ids
  <2>4. ControlPoint'
    BY <1>14, <2>1, <2>2 DEF RequestConnect, Inv, TypeOK, ControlPoint, Authorized
  <2>5. AuthIpsAreDistinct' /\ ReportsMatchSessions'
    BY <1>14, <2>1, <2>2 DEF RequestConnect, Inv, TypeOK, AuthIpsAreDistinct, ReportsMatchSessions, ControlPoint
  <2>6. IdsAreDrawn'
    <3>1. Drawn' = Drawn \cup {c} /\ c \notin Drawn
      BY <1>14, <2>1 DEF RequestConnect, Drawn, Inv, TypeOK
    <3>2. IsFiniteSet(Drawn)
      BY ClientAssumption, FS_Subset DEF Drawn
    <3>3. Cardinality(Drawn') = nextId' - 1
      <4>1. Cardinality(Drawn \cup {c}) = Cardinality(Drawn) + 1
        BY <3>1, <3>2, FS_AddElement
      <4>2. Cardinality(Drawn) = nextId - 1 /\ nextId' = nextId + 1
        BY <1>14 DEF RequestConnect, Inv, IdsAreDrawn
      <4> QED
        BY <2>1, <3>1, <4>1, <4>2
    <3>4. \A d \in Client : cid'[d] = IF d = c THEN nextId ELSE cid[d]
      BY <1>14 DEF RequestConnect, Inv, TypeOK
    <3>5. nextId' = nextId + 1 /\ \A d \in Client : cid[d] \in Int /\ cid[d] < nextId
      BY <1>14 DEF RequestConnect, Inv, TypeOK, IdsAreDrawn, Ids
    <3> QED
      BY <2>1, <3>3, <3>4, <3>5 DEF Inv, IdsAreDrawn
  <2> QED
    BY <2>3, <2>4, <2>5, <2>6 DEF Inv
<1> QED
  BY <1>1, <1>2, <1>3, <1>4, <1>5, <1>6, <1>7, <1>8, <1>9, <1>10, <1>11, <1>12, <1>13, <1>14 DEF Request

LEMMA NextInv == Inv /\ [Next]_vars => Inv'
<1>1. ASSUME Inv, UNCHANGED vars PROVE Inv'
  BY <1>1 DEF vars, config, Inv, TypeOK, AuthIpsAreDistinct, ReportsMatchSessions, ControlPoint,
              Authorized, IdsAreDrawn, Drawn
<1> QED
  BY <1>1, AuthenticationInv, RequestInv DEF Next, Thread

LEMMA Invariance == Spec => []Inv
BY InitInv, NextInv, PTL DEF Spec

\* Every variable keeps its range, whatever the number of clients: the
\* identifiers next_connection_identifier hands out suffice for them.
THEOREM TypeCorrect == Spec => []TypeOK
<1>1. Inv => TypeOK
  BY DEF Inv
<1> QED BY <1>1, Invariance, PTL

\* Nobody is served without having proved who it is, itself or in auth-once
\* mode somebody of its address.
THEOREM AccessIsAuthorized == Spec => []ServedAreAuthorized
<1>1. Inv => ServedAreAuthorized
  BY DEF Inv, ReportsMatchSessions, ControlPoint, ServedAreAuthorized, Authorized
<1> QED BY <1>1, Invariance, PTL

\* However many threads add to auth_ips at once, each address is there once.
THEOREM AuthIpsCorrect == Spec => []AuthIpsAreDistinct
<1>1. Inv => AuthIpsAreDistinct
  BY DEF Inv
<1> QED BY <1>1, Invariance, PTL

\* On every way out of the loop of clientthread the second descriptor is
\* closed and the connection's identifier is settled.
THEOREM ReportsCorrect == Spec => []ReportsMatchSessions
<1>1. Inv => ReportsMatchSessions
  BY DEF Inv
<1> QED BY <1>1, Invariance, PTL

-----------------------------------------------------------------------------
\* A step of any session is a step of the contract or none.
LEMMA StepImplementsLifecycle == Inv /\ [Next]_vars => [Lifecycle!Next]_reported
<1> SUFFICES ASSUME Inv, [Next]_vars, reported' # reported PROVE Lifecycle!Next
  OBVIOUS
<1> USE DEF Emit, Lifecycle!Next
<1>1. PICK c \in Client : Thread(c)
  BY DEF Next, vars
<1>2. \/ ConnectFails(c) \/ ConnectReplyFails(c) \/ EmitOpen(c) \/ RelayEnds(c)
  BY <1>1 DEF Thread, Authentication, Request, Greet, CredentialsAccepted, CredentialsRefused,
              AddAuthIp, ReceiveEnds, RequestRefused, RequestConnect, Connects, ConnectReplied,
              RequestAssociate, AssociateFails, AssociateReplied, AssociationEnds, Close
<1>3. cid[c] # 0 /\ cid[c] \in Ids
  BY <1>2 DEF ConnectFails, ConnectReplyFails, EmitOpen, RelayEnds, Inv, ControlPoint, TypeOK
<1>4. CASE ConnectFails(c)
  BY <1>3, <1>4 DEF ConnectFails, Inv, ControlPoint, Lifecycle!Fail
<1>5. CASE ConnectReplyFails(c)
  BY <1>3, <1>5 DEF ConnectReplyFails, Inv, ControlPoint, Lifecycle!Fail
<1>6. CASE EmitOpen(c)
  BY <1>3, <1>6 DEF EmitOpen, Inv, ControlPoint, Lifecycle!Open
<1>7. CASE RelayEnds(c)
  BY <1>3, <1>7 DEF RelayEnds, Inv, ReportsMatchSessions, Lifecycle!End, Lifecycle!Ended
<1> QED
  BY <1>2, <1>4, <1>5, <1>6, <1>7

\* The sessions together keep the promise of the event handler: per identifier
\* one open and one end, or a single error.
THEOREM ImplementsLifecycle == Spec => LifecycleSpec
<1>1. Init => Lifecycle!Init
  BY DEF Init, Lifecycle!Init
<1> QED
  BY <1>1, Invariance, StepImplementsLifecycle, PTL DEF Spec, LifecycleSpec, Lifecycle!Spec
-----------------------------------------------------------------------------
(***************************************************************************)
(* Handshake: one control connection at the level of bytes is negotiated   *)
(* as the contract of Negotiation has it, for all messages of clients that *)
(* fit the buffer, all addresses, and wherever TCP cuts the messages.      *)
(*                                                                         *)
(* The proof needs to know what is in the buffer and on the wire at each   *)
(* phase (AwaitsCredentials, AwaitsRequest): once a message has been cut,  *)
(* what is left of it comes before the next one and cannot pass for it.    *)
(***************************************************************************)
CONSTANTS
    Clients, Account, NoAccount, Names, Destination, Here, RelayPort, Leftover, BufSize
VARIABLES
    client, account, wire, sent, gone, whole, buf, stage, reply, target, exchanged

Bytes == INSTANCE Handshake WITH state <- stage

-----------------------------------------------------------------------------
\* Messages in a buffer

\* Cells from to from + len - 1 hold s.
LEMMA SliceHolds ==
    ASSUME NEW S, NEW s \in Seq(S), NEW b, NEW from \in Int,
           \A k \in 1 .. Len(s) : b[from + k - 1] = s[k]
    PROVE  Bytes!Slice(b, from, Len(s)) = s
  BY LenProperties DEF Bytes!Slice

\* The string functions see a text whole.
LEMMA TextIsString == ASSUME NEW s \in Bytes!Text PROVE Bytes!CString(s) = s
<1>1. s \in Seq(Bytes!Byte \ {0})
  BY DEF Bytes!Text
<1>2. \A k \in DOMAIN s : s[k] # 0
  BY <1>1, LenProperties
<1> QED
  BY <1>2 DEF Bytes!CString

LEMMA PortBytes ==
    ASSUME NEW p \in Bytes!PortNumber
    PROVE  /\ Bytes!Port(p) \in Seq(Bytes!Byte) /\ Len(Bytes!Port(p)) = 2
           /\ Bytes!Port(p)[1] * 256 + Bytes!Port(p)[2] = p
<1>1. p \in Nat /\ p < 65536
  BY DEF Bytes!PortNumber
<1>2. p \div 256 \in Bytes!Byte /\ p % 256 \in Bytes!Byte
  BY <1>1 DEF Bytes!Byte
<1>3. ((p \div 256) * 256) + (p % 256) = p
  BY <1>1, SMTT(30)
<1> DEFINE q == p \div 256
           r == p % 256
<1>4. Bytes!Port(p) = <<q, r>> /\ q \in Bytes!Byte /\ r \in Bytes!Byte /\ q * 256 + r = p
  BY <1>2, <1>3 DEF Bytes!Port
<1> HIDE DEF q, r
<1> QED
  BY <1>4

\* What recv writes stands at the beginning of the buffer.
LEMMA RecvWrites ==
    ASSUME BufSize \in Nat, NEW S, wire \in Seq(S), DOMAIN buf = 0 .. BufSize - 1, NEW n, Bytes!Recv(n)
    PROVE  /\ n \in 1 .. Len(wire)
           /\ \A k \in 0 .. n - 1 : k < BufSize => buf'[k] = wire[k + 1]
<1>1. Len(wire) \in Nat /\ n \in 1 .. Len(wire)
  BY LenProperties DEF Bytes!Recv
<1>2. \A k \in 1 .. n : wire[k] \in S
  BY <1>1, ElementOfSeq
<1>3. /\ Len(SubSeq(wire, 1, n)) = n
      /\ \A k \in 1 .. n : SubSeq(wire, 1, n)[k] = wire[k]
  BY <1>1, <1>2, SubSeqProperties
<1> DEFINE got == SubSeq(wire, 1, n)
<1>4. buf' = [k \in DOMAIN buf |-> IF k < n THEN got[k + 1] ELSE buf[k]]
  BY <1>3 DEF Bytes!Recv, Bytes!Overwritten
<1>5. \A k \in 1 .. n : got[k] = wire[k]
  BY <1>3
<1> HIDE DEF got
<1>6. ASSUME NEW k \in 0 .. n - 1, k < BufSize PROVE buf'[k] = wire[k + 1]
  <2>1. k \in DOMAIN buf /\ k < n /\ k + 1 \in 1 .. n
    BY <1>1, <1>6
  <2> QED
    BY <2>1, <1>4, <1>5
<1> QED
  BY <1>1, <1>4, <1>6

LEMMA TupleIsSeq ==
    ASSUME NEW S, NEW m \in Nat, NEW f \in [1 .. m -> S] PROVE f \in Seq(S) /\ Len(f) = m
<1>1. f \in Seq(S)
  BY SeqDef
<1> QED
  BY <1>1, LenProperties

\* The ends of an address are known by their place in it.
LEMMA EncodeBytes ==
    ASSUME NEW a \in Bytes!Addresses
    PROVE  LET l == IF a.type = Bytes!DNS THEN 1 ELSE 0
           IN /\ a.type \in {Bytes!IPV4, Bytes!IPV6, Bytes!DNS}
              /\ a.type = Bytes!DNS => a.host \in Bytes!Text
              /\ a.host \in Seq(Bytes!Byte) /\ a.port \in Bytes!PortNumber
              /\ Len(a.host) \in Nat /\ Len(a.host) \in Bytes!Byte \ {0}
              /\ a.type = Bytes!IPV4 => Len(a.host) = 4
              /\ a.type = Bytes!IPV6 => Len(a.host) = 16
              /\ Bytes!Encode(a) \in Seq(Bytes!Byte)
              /\ Len(Bytes!Encode(a)) = 3 + l + Len(a.host)
              /\ Bytes!Encode(a)[1] = a.type
              /\ a.type = Bytes!DNS => Bytes!Encode(a)[2] = Len(a.host)
              /\ \A k \in 1 .. Len(a.host) : Bytes!Encode(a)[1 + l + k] = a.host[k]
              /\ Bytes!Encode(a)[2 + l + Len(a.host)] = Bytes!Port(a.port)[1]
              /\ Bytes!Encode(a)[3 + l + Len(a.host)] = Bytes!Port(a.port)[2]
<1> DEFINE l == IF a.type = Bytes!DNS THEN 1 ELSE 0
           head == IF a.type = Bytes!DNS THEN <<Len(a.host)>> ELSE <<>>
           len == Len(a.host)
           port == a.port
           host == a.host
           type == a.type
<1>1. /\ a.type \in {Bytes!IPV4, Bytes!IPV6, Bytes!DNS} /\ a.port \in Bytes!PortNumber
      /\ a.type = Bytes!IPV4 => a.host \in [1 .. 4 -> Bytes!Byte]
      /\ a.type = Bytes!IPV6 => a.host \in [1 .. 16 -> Bytes!Byte]
      /\ a.type = Bytes!DNS => a.host \in Bytes!Text
  BY DEF Bytes!Addresses, Bytes!IPV4, Bytes!IPV6, Bytes!DNS
<1>2. a.host \in Seq(Bytes!Byte) /\ Len(a.host) \in Nat /\ Len(a.host) \in Bytes!Byte \ {0}
  <2>1. CASE a.type = Bytes!IPV4
    <3> DEFINE m == 4
    <3>1. m \in Nat /\ a.host \in [1 .. m -> Bytes!Byte]
      BY <1>1, <2>1
    <3> HIDE DEF m
    <3>2. a.host \in Seq(Bytes!Byte) /\ Len(a.host) = m
      BY <3>1, TupleIsSeq
    <3> QED
      BY <3>2 DEF m, Bytes!Byte
  <2>2. CASE a.type = Bytes!IPV6
    <3> DEFINE m == 16
    <3>1. m \in Nat /\ a.host \in [1 .. m -> Bytes!Byte]
      BY <1>1, <2>2
    <3> HIDE DEF m
    <3>2. a.host \in Seq(Bytes!Byte) /\ Len(a.host) = m
      BY <3>1, TupleIsSeq
    <3> QED
      BY <3>2 DEF m, Bytes!Byte
  <2>3. CASE a.type = Bytes!DNS
    BY <1>1, <2>3, SeqMonotonic DEF Bytes!Text, Bytes!Byte
  <2> QED
    BY <1>1, <2>1, <2>2, <2>3
<1>3. /\ a.type = Bytes!IPV4 => Len(a.host) = 4
      /\ a.type = Bytes!IPV6 => Len(a.host) = 16
  BY <1>1, TupleIsSeq
<1>4. /\ Bytes!Port(port) \in Seq(Bytes!Byte) /\ Len(Bytes!Port(port)) = 2
  BY <1>1, PortBytes
<1>5. /\ <<type>> \in Seq(Bytes!Byte) /\ Len(<<type>>) = 1 /\ <<type>>[1] = type
      /\ head \in Seq(Bytes!Byte) /\ Len(head) = l /\ (a.type = Bytes!DNS => head[1] = len)
  <2>1. type \in Bytes!Byte /\ len \in Bytes!Byte
    BY <1>1, <1>2 DEF Bytes!IPV4, Bytes!IPV6, Bytes!DNS, Bytes!Byte
  <2> QED
    BY <2>1
<1>6. Bytes!Encode(a) = ((<<type>> \o head) \o host) \o Bytes!Port(port)
  BY DEF Bytes!Encode
<1>7. l \in {0, 1} /\ len \in Nat \ {0}
  BY <1>2
<1> HIDE DEF head, len, port, host, type, l
<1>8. host \in Seq(Bytes!Byte) /\ Len(host) = len
  BY <1>2 DEF host, len
<1> DEFINE e1 == <<type>> \o head
           e2 == e1 \o host
           e3 == e2 \o Bytes!Port(port)
<1>9. /\ e1 \in Seq(Bytes!Byte) /\ Len(e1) = 1 + l
      /\ \A i \in 1 .. 1 + l : e1[i] = IF i <= 1 THEN <<type>>[i] ELSE head[i - 1]
  BY <1>5, <1>7, ConcatProperties
<1> HIDE DEF e1
<1>10. /\ e2 \in Seq(Bytes!Byte) /\ Len(e2) = 1 + l + len
       /\ \A i \in 1 .. 1 + l + len : e2[i] = IF i <= 1 + l THEN e1[i] ELSE host[i - (1 + l)]
  BY <1>7, <1>8, <1>9, ConcatProperties
<1> HIDE DEF e2
<1>11. /\ e3 \in Seq(Bytes!Byte) /\ Len(e3) = 3 + l + len
       /\ \A i \in 1 .. 3 + l + len :
              e3[i] = IF i <= 1 + l + len THEN e2[i] ELSE Bytes!Port(port)[i - (1 + l + len)]
  <2> DEFINE m == 1 + l + len
             p == Bytes!Port(port)
  <2>1. m \in Nat /\ m + 2 = 3 + l + len
    BY <1>7
  <2>2. e2 \in Seq(Bytes!Byte) /\ p \in Seq(Bytes!Byte) /\ Len(e2) = m /\ Len(p) = 2
    BY <1>4, <1>10
  <2> HIDE DEF m, p
  <2>3. /\ e2 \o p \in Seq(Bytes!Byte) /\ Len(e2 \o p) = m + 2
        /\ \A i \in 1 .. m + 2 : (e2 \o p)[i] = IF i <= m THEN e2[i] ELSE p[i - m]
    <3>1. /\ e2 \o p \in Seq(Bytes!Byte) /\ Len(e2 \o p) = Len(e2) + Len(p)
          /\ \A i \in 1 .. Len(e2) + Len(p) :
                 (e2 \o p)[i] = IF i <= Len(e2) THEN e2[i] ELSE p[i - Len(e2)]
      BY <2>2, ConcatProperties
    <3> QED
      BY <2>2, <3>1
  <2> QED
    BY <2>1, <2>3 DEF m, p
<1> HIDE DEF e3
<1>12. e3 = Bytes!Encode(a)
  BY <1>6 DEF e1, e2, e3
<1>13. e3[1] = type /\ (a.type = Bytes!DNS => e3[2] = len)
  <2>1. e3[1] = type
    BY <1>5, <1>7, <1>9, <1>10, <1>11
  <2>2. ASSUME a.type = Bytes!DNS PROVE e3[2] = len
    <3>1. l = 1
      BY <2>2 DEF l
    <3> QED
      BY <2>2, <3>1, <1>5, <1>7, <1>9, <1>10, <1>11
  <2> QED
    BY <2>1, <2>2
<1>14. \A k \in 1 .. len : e3[1 + l + k] = host[k]
  <2> TAKE k \in 1 .. len
  <2>1. e3[1 + l + k] = e2[1 + l + k]
    BY <1>7, <1>11
  <2>2. e2[1 + l + k] = host[k]
    BY <1>7, <1>10
  <2> QED
    BY <2>1, <2>2
<1>15. e3[2 + l + len] = Bytes!Port(port)[1] /\ e3[3 + l + len] = Bytes!Port(port)[2]
  <2> DEFINE m == 1 + l + len
             p == Bytes!Port(port)
  <2>1. m \in Nat /\ m + 1 = 2 + l + len /\ m + 2 = 3 + l + len
    BY <1>7
  <2>2. \A i \in 1 .. m + 2 : e3[i] = IF i <= m THEN e2[i] ELSE p[i - m]
    BY <2>1, <1>11
  <2> HIDE DEF m, p
  <2>3. e3[m + 1] = p[1] /\ e3[m + 2] = p[2]
    BY <2>1, <2>2
  <2> QED
    BY <2>1, <2>3 DEF p
<1> QED
  BY <1>1, <1>2, <1>3, <1>4, <1>5, <1>11, <1>12, <1>13, <1>14, <1>15 DEF l, head, len, port, host, type

\* An address that has not come whole is malformed; one that has is read back
\* as it was written, whatever stands behind it.
LEMMA ParsesAddress ==
    ASSUME NEW a \in Bytes!Addresses, NEW b, NEW at \in Nat, NEW n \in Int,
           \A k \in 0 .. n - 1 : k < Len(Bytes!Encode(a)) => b[at + k] = Bytes!Encode(a)[k + 1]
    PROVE  /\ n < Len(Bytes!Encode(a)) => Bytes!ParseAddrport(b, at, n) = Bytes!Malformed
           /\ n >= Len(Bytes!Encode(a)) => Bytes!ParseAddrport(b, at, n) =
                [type |-> a.type, host |-> a.host, port |-> a.port, len |-> Len(Bytes!Encode(a))]
<1> DEFINE l == IF a.type = Bytes!DNS THEN 1 ELSE 0
           h == Len(a.host)
           e == Bytes!Encode(a)
<1>1. /\ a.type \in {Bytes!IPV4, Bytes!IPV6, Bytes!DNS}
      /\ h \in Nat \ {0} /\ a.port \in Bytes!PortNumber /\ a.host \in Seq(Bytes!Byte)
      /\ a.type = Bytes!IPV4 => h = 4
      /\ a.type = Bytes!IPV6 => h = 16
      /\ Len(e) = 3 + l + h
      /\ e[1] = a.type
      /\ a.type = Bytes!DNS => e[2] = h
      /\ \A k \in 1 .. h : e[1 + l + k] = a.host[k]
      /\ e[2 + l + h] = Bytes!Port(a.port)[1]
      /\ e[3 + l + h] = Bytes!Port(a.port)[2]
  BY EncodeBytes
<1>2. l \in {0, 1} /\ (a.type = Bytes!DNS => l = 1) /\ (a.type # Bytes!DNS => l = 0)
  OBVIOUS
<1>3. \A k \in 0 .. n - 1 : k < Len(e) => b[at + k] = e[k + 1]
  OBVIOUS
<1> HIDE DEF l, h, e
<1>4. CASE n < 2
  BY <1>4, <1>1, <1>2 DEF Bytes!ParseAddrport, e
<1>5. CASE n >= 2
  <2>1. b[at] = a.type /\ (a.type = Bytes!DNS => b[at + 1] = h)
    <3>1. 0 \in 0 .. n - 1 /\ 1 \in 0 .. n - 1 /\ 0 < Len(e) /\ 1 < Len(e)
      BY <1>1, <1>2, <1>5
    <3>2. b[at + 0] = e[0 + 1] /\ b[at + 1] = e[1 + 1]
      BY <1>3, <3>1
    <3> QED
      BY <3>2, <1>1
  <2>2. Bytes!HostSize(b, at) = l + h
    BY <2>1, <1>1, <1>2 DEF Bytes!HostSize, Bytes!IPV4, Bytes!IPV6, Bytes!DNS
  <2>3. CASE n < Len(e)
    BY <2>2, <2>3, <1>1, <1>2 DEF Bytes!ParseAddrport, e
  <2>4. CASE n >= Len(e)
    <3>1. Bytes!ParseAddrport(b, at, n) = Bytes!Addrport(b, at)
      BY <2>2, <2>4, <1>1, <1>2, <1>5 DEF Bytes!ParseAddrport
    <3>2. \A k \in 1 .. h : b[at + 1 + l + k - 1] = a.host[k]
      <4> TAKE k \in 1 .. h
      <4>1. l + k \in 0 .. n - 1 /\ l + k < Len(e)
        BY <1>1, <1>2, <2>4
      <4>2. b[at + (l + k)] = e[(l + k) + 1]
        BY <1>3, <4>1
      <4> QED
        BY <4>2, <1>1, <1>2
    <3>3. b[at + (3 + l + h) - 2] = Bytes!Port(a.port)[1] /\ b[at + (3 + l + h) - 1] = Bytes!Port(a.port)[2]
      <4>1. /\ 1 + l + h \in 0 .. n - 1 /\ 1 + l + h < Len(e)
            /\ 2 + l + h \in 0 .. n - 1 /\ 2 + l + h < Len(e)
        BY <1>1, <1>2, <2>4
      <4>2. b[at + (1 + l + h)] = e[(1 + l + h) + 1] /\ b[at + (2 + l + h)] = e[(2 + l + h) + 1]
        BY <1>3, <4>1
      <4> QED
        BY <4>2, <1>1, <1>2
    <3>4. Bytes!Port(a.port)[1] * 256 + Bytes!Port(a.port)[2] = a.port
      BY <1>1, PortBytes
    <3>5. a.type = Bytes!DNS => Bytes!CString(Bytes!Slice(b, at + 2, b[at + 1])) = a.host
      <4> SUFFICES ASSUME a.type = Bytes!DNS PROVE Bytes!CString(Bytes!Slice(b, at + 2, h)) = a.host
        BY <2>1
      <4>1. a.host \in Bytes!Text
        BY EncodeBytes
      <4>2. \A k \in 1 .. Len(a.host) : b[(at + 2) + k - 1] = a.host[k]
        BY <3>2, <1>1, <1>2 DEF h
      <4> DEFINE from == at + 2
      <4>3. from \in Int /\ \A k \in 1 .. Len(a.host) : b[from + k - 1] = a.host[k]
        BY <4>2
      <4> HIDE DEF from
      <4>4. Bytes!Slice(b, from, Len(a.host)) = a.host
        BY <4>3, <1>1, SliceHolds
      <4> QED
        BY <4>1, <4>4, TextIsString DEF h, from
    <3>6. a.type # Bytes!DNS => Bytes!Slice(b, at + 1, Bytes!HostSize(b, at)) = a.host
      <4> SUFFICES ASSUME a.type # Bytes!DNS PROVE Bytes!Slice(b, at + 1, h) = a.host
        BY <2>2, <1>1, <1>2
      <4>2. \A k \in 1 .. Len(a.host) : b[(at + 1) + k - 1] = a.host[k]
        BY <3>2, <1>1, <1>2 DEF h
      <4> DEFINE from == at + 1
      <4>3. from \in Int /\ \A k \in 1 .. Len(a.host) : b[from + k - 1] = a.host[k]
        BY <4>2
      <4> HIDE DEF from
      <4>4. Bytes!Slice(b, from, Len(a.host)) = a.host
        BY <4>3, <1>1, SliceHolds
      <4> QED
        BY <4>4 DEF h, from
    <3>7. 1 + Bytes!HostSize(b, at) + 2 = 3 + l + h
      BY <2>2, <1>1, <1>2
    <3> DEFINE host == IF b[at] = Bytes!DNS THEN Bytes!CString(Bytes!Slice(b, at + 2, b[at + 1]))
                       ELSE Bytes!Slice(b, at + 1, Bytes!HostSize(b, at))
               minlen == 1 + Bytes!HostSize(b, at) + 2
               port == b[at + minlen - 2] * 256 + b[at + minlen - 1]
    <3>8. Bytes!Addrport(b, at) = [type |-> b[at], host |-> host, port |-> port, len |-> minlen]
      BY Zenon DEF Bytes!Addrport
    <3>9. host = a.host
      BY <2>1, <3>5, <3>6
    <3>10. port = a.port
      BY <3>3, <3>4, <3>7
    <3>11. minlen = 3 + l + h
      BY <3>7
    <3> HIDE DEF host, minlen, port
    <3>12. Bytes!Addrport(b, at) = [type |-> a.type, host |-> a.host, port |-> a.port, len |-> 3 + l + h]
      BY <2>1, <3>8, <3>9, <3>10, <3>11
    <3> QED
      BY <3>1, <3>12, <2>4, <1>1 DEF e
  <2> QED
    BY <2>3, <2>4, <1>1, <1>2
<1> QED
  BY <1>4, <1>5

-----------------------------------------------------------------------------
\* The messages of the client, byte by byte

LEMMA ConcatParts ==
    ASSUME NEW S, NEW s \in Seq(S), NEW t \in Seq(S)
    PROVE  /\ s \o t \in Seq(S) /\ Len(s \o t) = Len(s) + Len(t)
           /\ Len(s) \in Nat /\ Len(t) \in Nat
           /\ \A i \in 1 .. Len(s) : (s \o t)[i] = s[i]
           /\ \A i \in 1 .. Len(t) : (s \o t)[Len(s) + i] = t[i]
<1>1. /\ s \o t \in Seq(S) /\ Len(s \o t) = Len(s) + Len(t)
      /\ \A i \in 1 .. Len(s) + Len(t) :
             (s \o t)[i] = IF i <= Len(s) THEN s[i] ELSE t[i - Len(s)]
  BY ConcatProperties
<1>2. Len(s) \in Nat /\ Len(t) \in Nat
  BY LenProperties
<1>3. ASSUME NEW i \in 1 .. Len(t) PROVE (s \o t)[Len(s) + i] = t[i]
  <2>1. Len(s) + i \in 1 .. Len(s) + Len(t) /\ ~(Len(s) + i <= Len(s)) /\ (Len(s) + i) - Len(s) = i
    BY <1>2
  <2> QED
    BY <1>1, <2>1
<1> QED
  BY <1>1, <1>2, <1>3

LEMMA GreetingBytes ==
    ASSUME Bytes!HandshakeAssumption, client \in Clients
    PROVE  /\ Bytes!Greeting \in Seq(Bytes!Byte) /\ client.offer \in Seq(Bytes!Byte \ {5})
           /\ Len(client.offer) \in Nat /\ Len(client.offer) <= 255
           /\ Len(Bytes!Greeting) = 2 + Len(client.offer) /\ Len(Bytes!Greeting) <= BufSize
           /\ Bytes!Greeting[1] = 5 /\ Bytes!Greeting[2] = Len(client.offer)
           /\ \A k \in 1 .. Len(client.offer) : Bytes!Greeting[2 + k] = client.offer[k]
<1> DEFINE o == client.offer
           head == <<5, Len(o)>>
<1>1. o \in Seq(Bytes!Byte \ {5}) /\ Len(o) <= 255 /\ 2 + Len(o) <= BufSize
  BY DEF Bytes!HandshakeAssumption
<1>2. o \in Seq(Bytes!Byte) /\ Len(o) \in Nat
  BY <1>1, SeqMonotonic, LenProperties
<1>3. Bytes!Greeting = head \o o
  BY DEF Bytes!Greeting
<1> HIDE DEF o
<1>4. head \in Seq(Bytes!Byte) /\ Len(head) = 2 /\ head[1] = 5 /\ head[2] = Len(o)
  BY <1>1, <1>2 DEF Bytes!Byte
<1> HIDE DEF head
<1>5. /\ head \o o \in Seq(Bytes!Byte) /\ Len(head \o o) = Len(head) + Len(o)
      /\ \A i \in 1 .. Len(head) : (head \o o)[i] = head[i]
      /\ \A i \in 1 .. Len(o) : (head \o o)[Len(head) + i] = o[i]
  <2>1. head \in Seq(Bytes!Byte) /\ o \in Seq(Bytes!Byte)
    BY <1>2, <1>4
  <2> QED
    BY <2>1, ConcatParts
<1>6. /\ Bytes!Greeting \in Seq(Bytes!Byte) /\ Len(Bytes!Greeting) = 2 + Len(o)
      /\ Bytes!Greeting[1] = 5 /\ Bytes!Greeting[2] = Len(o)
      /\ \A i \in 1 .. Len(o) : Bytes!Greeting[2 + i] = o[i]
  BY <1>3, <1>4, <1>5
<1> QED
  BY <1>1, <1>2, <1>6 DEF o

LEMMA CredentialsBytes ==
    ASSUME Bytes!HandshakeAssumption, client \in Clients
    PROVE  LET u == Len(client.user)
               p == Len(client.pass)
           IN /\ client.user \in Bytes!Text /\ client.pass \in Bytes!Text
              /\ u \in Nat \ {0} /\ p \in Nat \ {0}
              /\ Bytes!Credentials \in Seq(Bytes!Byte)
              /\ Len(Bytes!Credentials) = 3 + u + p /\ Len(Bytes!Credentials) <= BufSize
              /\ Bytes!Credentials[1] = 1 /\ Bytes!Credentials[2] = u /\ Bytes!Credentials[3 + u] = p
              /\ \A k \in 1 .. u : Bytes!Credentials[2 + k] = client.user[k]
              /\ \A k \in 1 .. p : Bytes!Credentials[3 + u + k] = client.pass[k]
<1> DEFINE user == client.user
           pass == client.pass
           u == Len(user)
           p == Len(pass)
           head == <<1, u>>
           mid == <<p>>
           c1 == head \o user
           c2 == c1 \o mid
           c3 == c2 \o pass
<1>1. user \in Bytes!Text /\ pass \in Bytes!Text /\ 3 + u + p <= BufSize
  BY DEF Bytes!HandshakeAssumption
<1>2. /\ user \in Seq(Bytes!Byte) /\ u \in Nat \ {0} /\ u < 256
      /\ pass \in Seq(Bytes!Byte) /\ p \in Nat \ {0} /\ p < 256
  <2> SUFFICES ASSUME NEW s \in Bytes!Text PROVE s \in Seq(Bytes!Byte) /\ Len(s) \in Nat \ {0} /\ Len(s) < 256
    BY <1>1
  <2>1. s \in Seq(Bytes!Byte \ {0}) /\ s # <<>> /\ Len(s) < 256
    BY DEF Bytes!Text
  <2> QED
    BY <2>1, SeqMonotonic, LenProperties, EmptySeq
<1>3. Bytes!Credentials = c3
  BY DEF Bytes!Credentials
<1> HIDE DEF user, pass, u, p
<1>4. /\ head \in Seq(Bytes!Byte) /\ Len(head) = 2 /\ head[1] = 1 /\ head[2] = u
      /\ mid \in Seq(Bytes!Byte) /\ Len(mid) = 1 /\ mid[1] = p
      /\ Len(user) = u /\ Len(pass) = p
  BY <1>2 DEF Bytes!Byte, u, p
<1> HIDE DEF head, mid
<1>5. /\ c1 \in Seq(Bytes!Byte) /\ Len(c1) = 2 + u
      /\ c1[1] = 1 /\ c1[2] = u
      /\ \A k \in 1 .. u : c1[2 + k] = user[k]
  <2>1. /\ c1 \in Seq(Bytes!Byte) /\ Len(c1) = Len(head) + Len(user)
        /\ \A i \in 1 .. Len(head) : c1[i] = head[i]
        /\ \A i \in 1 .. Len(user) : c1[Len(head) + i] = user[i]
    <3>1. head \in Seq(Bytes!Byte) /\ user \in Seq(Bytes!Byte)
      BY <1>2, <1>4
    <3> QED
      BY <3>1, ConcatParts
  <2> HIDE DEF c1
  <2> QED
    BY <2>1, <1>4
<1> HIDE DEF c1
<1>6. /\ c2 \in Seq(Bytes!Byte) /\ Len(c2) = 3 + u
      /\ c2[1] = 1 /\ c2[2] = u /\ c2[3 + u] = p
      /\ \A k \in 1 .. u : c2[2 + k] = user[k]
  <2>1. /\ c2 \in Seq(Bytes!Byte) /\ Len(c2) = Len(c1) + Len(mid)
        /\ \A i \in 1 .. Len(c1) : c2[i] = c1[i]
        /\ \A i \in 1 .. Len(mid) : c2[Len(c1) + i] = mid[i]
    <3>1. c1 \in Seq(Bytes!Byte) /\ mid \in Seq(Bytes!Byte)
      BY <1>4, <1>5
    <3> QED
      BY <3>1, ConcatParts
  <2> HIDE DEF c2
  <2>2. c2[(2 + u) + 1] = p /\ (2 + u) + 1 = 3 + u
    BY <2>1, <1>2, <1>4, <1>5
  <2>3. \A k \in 1 .. u : 2 + k \in 1 .. Len(c1)
    BY <1>2, <1>5
  <2>4. c2[1] = 1 /\ c2[2] = u
    BY <2>1, <1>2, <1>5
  <2> QED
    BY <2>1, <2>2, <2>3, <2>4, <1>2, <1>4, <1>5
<1> HIDE DEF c2
<1>7. /\ c3 \in Seq(Bytes!Byte) /\ Len(c3) = 3 + u + p
      /\ c3[1] = 1 /\ c3[2] = u /\ c3[3 + u] = p
      /\ \A k \in 1 .. u : c3[2 + k] = user[k]
      /\ \A k \in 1 .. p : c3[3 + u + k] = pass[k]
  <2>1. /\ c3 \in Seq(Bytes!Byte) /\ Len(c3) = Len(c2) + Len(pass)
        /\ \A i \in 1 .. Len(c2) : c3[i] = c2[i]
        /\ \A i \in 1 .. Len(pass) : c3[Len(c2) + i] = pass[i]
    <3>1. c2 \in Seq(Bytes!Byte) /\ pass \in Seq(Bytes!Byte)
      BY <1>2, <1>6
    <3> QED
      BY <3>1, ConcatParts
  <2> HIDE DEF c3
  <2>2. /\ \A k \in 1 .. u : 2 + k \in 1 .. Len(c2)
        /\ 1 \in 1 .. Len(c2) /\ 2 \in 1 .. Len(c2) /\ 3 + u \in 1 .. Len(c2)
    BY <1>2, <1>6
  <2>3. c3[1] = 1 /\ c3[2] = u /\ c3[3 + u] = p
    BY <2>1, <2>2, <1>6
  <2>4. \A k \in 1 .. u : c3[2 + k] = user[k]
    BY <2>1, <2>2, <1>6
  <2> QED
    BY <2>1, <2>3, <2>4, <1>2, <1>4, <1>6
<1> HIDE DEF c3
<1> QED
  BY <1>1, <1>2, <1>3, <1>7 DEF user, pass, u, p

LEMMA RequestBytes ==
    ASSUME Bytes!HandshakeAssumption, client \in Clients
    PROVE  LET e == Bytes!Encode(client.to)
           IN /\ client.to \in Bytes!Addresses
              /\ Bytes!Request \in Seq(Bytes!Byte)
              /\ Len(Bytes!Request) = 3 + Len(e) /\ Len(Bytes!Request) <= BufSize
              /\ Bytes!Request[1] = 5 /\ Bytes!Request[2] = client.cmd /\ Bytes!Request[3] = 0
              /\ \A k \in 1 .. Len(e) : Bytes!Request[3 + k] = e[k]
<1> DEFINE e == Bytes!Encode(client.to)
           head == <<5, client.cmd, 0>>
<1>1. client.to \in Bytes!Addresses /\ client.cmd \in Bytes!Byte /\ 7 + Len(client.to.host) <= BufSize
  BY DEF Bytes!HandshakeAssumption
<1>2. /\ e \in Seq(Bytes!Byte) /\ Len(e) \in Nat
      /\ 3 + Len(e) <= BufSize
  <2> DEFINE l == IF client.to.type = Bytes!DNS THEN 1 ELSE 0
             h == Len(client.to.host)
  <2>1. Len(e) = 3 + l + h /\ h \in Nat /\ e \in Seq(Bytes!Byte) /\ l \in {0, 1}
    BY <1>1, EncodeBytes
  <2>2. BufSize \in Nat /\ 7 + h <= BufSize
    BY <1>1 DEF Bytes!HandshakeAssumption
  <2> HIDE DEF e, l, h
  <2> QED
    BY <2>1, <2>2
<1>3. Bytes!Request = head \o e
  BY DEF Bytes!Request
<1>4. /\ head \in Seq(Bytes!Byte) /\ Len(head) = 3
      /\ head[1] = 5 /\ head[2] = client.cmd /\ head[3] = 0
  BY <1>1 DEF Bytes!Byte
<1> HIDE DEF head, e
<1>5. /\ head \o e \in Seq(Bytes!Byte) /\ Len(head \o e) = Len(head) + Len(e)
      /\ \A i \in 1 .. Len(head) : (head \o e)[i] = head[i]
      /\ \A i \in 1 .. Len(e) : (head \o e)[Len(head) + i] = e[i]
  <2>1. head \in Seq(Bytes!Byte) /\ e \in Seq(Bytes!Byte)
    BY <1>2, <1>4
  <2> QED
    BY <2>1, ConcatParts
<1> QED
  BY <1>1, <1>2, <1>3, <1>4, <1>5 DEF e

LEMMA DatagramBytes ==
    ASSUME Bytes!HandshakeAssumption, NEW d \in Destination
    PROVE  LET e == Bytes!Encode(d)
           IN /\ d \in Bytes!Addresses /\ e \in Seq(Bytes!Byte) /\ Len(e) \in Nat
              /\ Bytes!Datagram(d) = (<<0, 0, 0>> \o e) \o Bytes!Payload
              /\ Bytes!Datagram(d) \in Seq(Bytes!Byte)
              /\ Len(Bytes!Datagram(d)) = 4 + Len(e) /\ Len(Bytes!Datagram(d)) <= BufSize
              /\ \A k \in 1 .. 3 : Bytes!Datagram(d)[k] = 0
              /\ \A k \in 1 .. Len(e) : Bytes!Datagram(d)[3 + k] = e[k]
<1> DEFINE e == Bytes!Encode(d)
           head == <<0, 0, 0>>
           d1 == head \o e
           d2 == d1 \o Bytes!Payload
<1>1. d \in Bytes!Addresses /\ 8 + Len(d.host) <= BufSize
  BY DEF Bytes!HandshakeAssumption
<1>2. e \in Seq(Bytes!Byte) /\ Len(e) \in Nat /\ 4 + Len(e) <= BufSize
  <2> DEFINE l == IF d.type = Bytes!DNS THEN 1 ELSE 0
             h == Len(d.host)
  <2>1. Len(e) = 3 + l + h /\ h \in Nat /\ e \in Seq(Bytes!Byte) /\ l \in {0, 1}
    BY <1>1, EncodeBytes
  <2>2. BufSize \in Nat /\ 8 + h <= BufSize
    BY <1>1 DEF Bytes!HandshakeAssumption
  <2> HIDE DEF e, l, h
  <2> QED
    BY <2>1, <2>2
<1>3. Bytes!Datagram(d) = d2
  BY DEF Bytes!Datagram
<1>4. /\ head \in Seq(Bytes!Byte) /\ Len(head) = 3 /\ \A k \in 1 .. 3 : head[k] = 0
      /\ Bytes!Payload \in Seq(Bytes!Byte) /\ Len(Bytes!Payload) = 1
  BY DEF Bytes!Byte, Bytes!Payload
<1> HIDE DEF head, e
<1>5. /\ d1 \in Seq(Bytes!Byte) /\ Len(d1) = 3 + Len(e)
      /\ \A i \in 1 .. 3 : d1[i] = 0
      /\ \A i \in 1 .. Len(e) : d1[3 + i] = e[i]
  <2>1. /\ d1 \in Seq(Bytes!Byte) /\ Len(d1) = Len(head) + Len(e)
        /\ \A i \in 1 .. Len(head) : d1[i] = head[i]
        /\ \A i \in 1 .. Len(e) : d1[Len(head) + i] = e[i]
    <3>1. head \in Seq(Bytes!Byte) /\ e \in Seq(Bytes!Byte)
      BY <1>2, <1>4
    <3> QED
      BY <3>1, ConcatParts
  <2> HIDE DEF d1
  <2> QED
    BY <2>1, <1>4
<1>6. d2 = (head \o e) \o Bytes!Payload
  OBVIOUS
<1> HIDE DEF d1
<1>7. /\ d2 \in Seq(Bytes!Byte) /\ Len(d2) = Len(d1) + 1
      /\ \A i \in 1 .. Len(d1) : d2[i] = d1[i]
  <2> DEFINE rest == Bytes!Payload
  <2>1. d1 \in Seq(Bytes!Byte) /\ rest \in Seq(Bytes!Byte) /\ d2 = d1 \o rest
    BY <1>4, <1>5
  <2>2. Len(rest) = 1
    BY <1>4
  <2> HIDE DEF rest, d2
  <2>3. /\ d1 \o rest \in Seq(Bytes!Byte) /\ Len(d1 \o rest) = Len(d1) + Len(rest)
        /\ \A i \in 1 .. Len(d1) : (d1 \o rest)[i] = d1[i]
    BY <2>1, ConcatParts
  <2> QED
    BY <2>1, <2>2, <2>3
<1> HIDE DEF d2
<1>8. /\ \A k \in 1 .. 3 : d2[k] = 0
      /\ \A k \in 1 .. Len(e) : d2[3 + k] = e[k]
  <2>1. /\ \A k \in 1 .. 3 : k \in 1 .. Len(d1)
        /\ \A k \in 1 .. Len(e) : 3 + k \in 1 .. Len(d1)
    BY <1>2, <1>5
  <2> QED
    BY <2>1, <1>5, <1>7
<1> QED
  BY <1>1, <1>2, <1>3, <1>5, <1>6, <1>7, <1>8 DEF e, head

-----------------------------------------------------------------------------
\* What clientthread makes of them

\* A method is only agreed on if the client offered it, and it is if the
\* greeting has come whole.
LEMMA GreetingRead ==
    ASSUME Bytes!HandshakeAssumption, client \in Clients, NEW b, NEW n \in 1 .. Len(Bytes!Greeting),
           \A k \in 0 .. n - 1 : b[k] = Bytes!Greeting[k + 1], NEW needed \in BOOLEAN
    PROVE  LET method == IF needed THEN Bytes!AM_USERNAME ELSE Bytes!AM_NO_AUTH
               offered == \E k \in DOMAIN client.offer : client.offer[k] = method
           IN /\ Bytes!CheckAuthMethod(b, n, needed) \in {method, Bytes!AM_INVALID}
              /\ Bytes!CheckAuthMethod(b, n, needed) = method => offered /\ n >= 2
              /\ n = Len(Bytes!Greeting) /\ offered => Bytes!CheckAuthMethod(b, n, needed) = method
<1> DEFINE method == IF needed THEN Bytes!AM_USERNAME ELSE Bytes!AM_NO_AUTH
           o == client.offer
           len == Len(client.offer)
           found == \E k \in 2 .. n - 1 : k < 2 + b[1] /\ b[k] = method
<1>1. /\ len \in Nat /\ Len(Bytes!Greeting) = 2 + len /\ Bytes!Greeting[1] = 5 /\ Bytes!Greeting[2] = len
      /\ \A k \in 1 .. len : Bytes!Greeting[2 + k] = o[k]
  BY GreetingBytes
<1>2. DOMAIN o = 1 .. len
  BY GreetingBytes, LenProperties
<1>3. Bytes!CheckAuthMethod(b, n, needed) = IF b[0] = 5 /\ n >= 2 /\ found THEN method ELSE Bytes!AM_INVALID
  BY DEF Bytes!CheckAuthMethod
<1>4. method # Bytes!AM_INVALID
  BY DEF Bytes!AM_USERNAME, Bytes!AM_NO_AUTH, Bytes!AM_INVALID
<1> HIDE DEF method, o, len
<1>5. n \in 1 .. 2 + len /\ \A k \in 0 .. n - 1 : b[k] = Bytes!Greeting[k + 1]
  BY <1>1
<1>6. b[0] = 5
  <2>1. b[0] = Bytes!Greeting[0 + 1]
    BY <1>1, <1>5
  <2> QED
    BY <1>1, <2>1
<1>7. n >= 2 => b[1] = len
  <2>1. n >= 2 => b[1] = Bytes!Greeting[1 + 1]
    BY <1>1, <1>5
  <2> QED
    BY <1>1, <2>1
<1>8. ASSUME NEW k \in 2 .. n - 1 PROVE k - 1 \in 1 .. len /\ b[k] = o[k - 1]
  <2>1. k - 1 \in 1 .. len /\ k \in 0 .. n - 1 /\ 2 + (k - 1) = k + 1
    BY <1>1, <1>5
  <2>2. b[k] = Bytes!Greeting[k + 1] /\ Bytes!Greeting[2 + (k - 1)] = o[k - 1]
    BY <1>1, <1>5, <2>1
  <2> QED
    BY <2>1, <2>2
<1>9. n >= 2 /\ found => \E k \in 1 .. len : o[k] = method
  BY <1>8
<1>10. ASSUME n = 2 + len, NEW k \in 1 .. len, o[k] = method PROVE n >= 2 /\ found
  <2>1. n >= 2 /\ k + 1 \in 2 .. n - 1 /\ k + 1 < 2 + b[1] /\ (k + 1) - 1 = k
    BY <1>1, <1>7, <1>10
  <2>2. b[k + 1] = o[k]
    BY <2>1, <1>8
  <2> QED
    BY <2>1, <2>2, <1>10
<1> HIDE DEF found
<1> QED
  BY <1>1, <1>2, <1>3, <1>4, <1>6, <1>9, <1>10 DEF method, o

\* The rest of a greeting that was answered begins like no later message.
LEMMA RestOfGreeting ==
    ASSUME Bytes!HandshakeAssumption, client \in Clients, NEW n \in 2 .. Len(Bytes!Greeting)
    PROVE  LET rest == SubSeq(Bytes!Greeting, n + 1, Len(Bytes!Greeting))
           IN /\ rest \in Seq(Bytes!Byte \ {5})
              /\ (\E k \in DOMAIN client.offer : client.offer[k] = Bytes!AM_USERNAME)
                    => rest \in Seq(Bytes!Byte \ {1})
              /\ n = Len(Bytes!Greeting) => rest = <<>>
<1> DEFINE o == client.offer
           len == Len(client.offer)
           g == Bytes!Greeting
<1>1. /\ len \in Nat /\ Len(g) = 2 + len /\ o \in Seq(Bytes!Byte \ {5})
      /\ \A k \in 1 .. len : g[2 + k] = o[k]
  BY GreetingBytes
<1>2. DOMAIN o = 1 .. len
  BY <1>1, LenProperties
<1> HIDE DEF o, len, g
<1>3. n \in 2 .. 2 + len
  BY <1>1 DEF g
<1>4. ASSUME NEW k \in n + 1 .. Len(g)
      PROVE  k - 2 \in DOMAIN o /\ g[k] = o[k - 2] /\ g[k] \in Bytes!Byte \ {5}
  <2>1. k - 2 \in 1 .. len /\ 2 + (k - 2) = k
    BY <1>1, <1>3
  <2>2. g[2 + (k - 2)] = o[k - 2] /\ o[k - 2] \in Bytes!Byte \ {5}
    BY <1>1, <1>2, <2>1, LenProperties
  <2> QED
    BY <1>2, <2>1, <2>2
<1>5. n + 1 \in Int /\ Len(g) \in Int
  BY <1>1
<1>6. SubSeq(g, n + 1, Len(g)) \in Seq(Bytes!Byte \ {5})
  <2>1. \A k \in n + 1 .. Len(g) : g[k] \in Bytes!Byte \ {5}
    BY <1>4
  <2> QED
    BY <1>5, <2>1, SubSeqProperties
<1>7. ASSUME NEW j \in DOMAIN o, o[j] = Bytes!AM_USERNAME
      PROVE  SubSeq(g, n + 1, Len(g)) \in Seq(Bytes!Byte \ {1})
  <2>1. \A k \in DOMAIN o : o[k] # 1
    BY <1>7 DEF Bytes!HandshakeAssumption, o
  <2>2. \A k \in n + 1 .. Len(g) : g[k] \in Bytes!Byte \ {1}
    BY <2>1, <1>4
  <2> QED
    BY <1>5, <2>2, SubSeqProperties
<1>8. n = Len(g) => SubSeq(g, n + 1, Len(g)) = <<>>
  BY <1>5, SubSeqEmpty
<1> QED
  BY <1>6, <1>7, <1>8 DEF o, g

\* The credentials are taken for right if they have come whole and are.
LEMMA CredentialsRead ==
    ASSUME Bytes!HandshakeAssumption, client \in Clients, NEW b, NEW n \in 1 .. Len(Bytes!Credentials),
           \A k \in 0 .. n - 1 : b[k] = Bytes!Credentials[k + 1], NEW a
    PROVE  Bytes!CheckCredentials(b, n, a) = Bytes!EC_SUCCESS
             <=> n = Len(Bytes!Credentials) /\ client.user = a.user /\ client.pass = a.pass
<1> DEFINE u == Len(client.user)
           p == Len(client.pass)
           c == Bytes!Credentials
<1>1. /\ client.user \in Bytes!Text /\ client.pass \in Bytes!Text
      /\ u \in Nat \ {0} /\ p \in Nat \ {0}
      /\ Len(c) = 3 + u + p
      /\ c[1] = 1 /\ c[2] = u /\ c[3 + u] = p
      /\ \A k \in 1 .. u : c[2 + k] = client.user[k]
      /\ \A k \in 1 .. p : c[3 + u + k] = client.pass[k]
  BY CredentialsBytes
<1>2. n \in 1 .. Len(c) /\ \A k \in 0 .. n - 1 : b[k] = c[k + 1]
  OBVIOUS
<1> HIDE DEF u, p, c
<1>3. Bytes!EC_GENERAL_FAILURE # Bytes!EC_SUCCESS /\ Bytes!EC_NOT_ALLOWED # Bytes!EC_SUCCESS
  BY DEF Bytes!EC_GENERAL_FAILURE, Bytes!EC_SUCCESS, Bytes!EC_NOT_ALLOWED
<1>4. n \in 1 .. 3 + u + p
  BY <1>1, <1>2
<1>7. u \in Nat /\ p \in Nat
  BY <1>1
<1>5. CASE n < 5
  <2>1. Bytes!CheckCredentials(b, n, a) = Bytes!EC_GENERAL_FAILURE
    BY <1>5 DEF Bytes!CheckCredentials
  <2> QED
    BY <2>1, <1>1, <1>3, <1>5 DEF c
<1>6. CASE n >= 5
  <2>1. b[0] = 1 /\ b[1] = u
    <3>1. 0 \in 0 .. n - 1 /\ 1 \in 0 .. n - 1
      BY <1>4, <1>6
    <3>2. b[0] = c[0 + 1] /\ b[1] = c[1 + 1]
      BY <1>2, <3>1
    <3> QED
      BY <1>1, <3>2
  <2>2. CASE n < 4 + u
    <3>1. n < 2 + b[1] + 2
      BY <2>1, <2>2, <1>1, <1>4
    <3>2. Bytes!CheckCredentials(b, n, a) = Bytes!EC_GENERAL_FAILURE
      BY <3>1 DEF Bytes!CheckCredentials
    <3> QED
      BY <3>2, <2>2, <1>1, <1>3 DEF c
  <2>3. CASE n >= 4 + u
    <3>1. b[2 + u] = p
      <4>1. 2 + u \in 0 .. n - 1 /\ (2 + u) + 1 = 3 + u
        BY <2>3, <1>1, <1>4
      <4>2. b[2 + u] = c[(2 + u) + 1]
        BY <1>2, <4>1
      <4> QED
        BY <1>1, <4>1, <4>2
    <3>2. CASE n < 3 + u + p
      <4>1. n < 2 + b[1] + 1 + b[2 + b[1]]
        BY <2>1, <3>1, <3>2, <1>1, <1>4
      <4>2. Bytes!CheckCredentials(b, n, a) = Bytes!EC_GENERAL_FAILURE
        BY <4>1 DEF Bytes!CheckCredentials
      <4> QED
        BY <4>2, <3>2, <1>1, <1>3, <1>4 DEF c
    <3>3. CASE n = 3 + u + p
      <4>1. Bytes!CString(Bytes!Slice(b, 2, u)) = client.user
        <5> DEFINE from == 2
        <5>1. ASSUME NEW k \in 1 .. u PROVE b[from + k - 1] = client.user[k]
          <6>1. k + 1 \in 0 .. n - 1 /\ from + k - 1 = k + 1 /\ (k + 1) + 1 = 2 + k
            BY <3>3, <1>7
          <6>2. b[k + 1] = c[(k + 1) + 1]
            BY <1>2, <6>1
          <6> QED
            BY <1>1, <6>1, <6>2
        <5>2. client.user \in Seq(Bytes!Byte \ {0}) /\ Len(client.user) = u /\ from \in Int
          BY <1>1 DEF Bytes!Text, u
        <5> HIDE DEF from
        <5>3. Bytes!Slice(b, from, u) = client.user
          BY <5>1, <5>2, SliceHolds
        <5> QED
          BY <5>3, <1>1, TextIsString DEF from
      <4>2. Bytes!CString(Bytes!Slice(b, 3 + u, p)) = client.pass
        <5> DEFINE from == 3 + u
        <5>1. ASSUME NEW k \in 1 .. p PROVE b[from + k - 1] = client.pass[k]
          <6>1. /\ 2 + u + k \in 0 .. n - 1 /\ from + k - 1 = 2 + u + k
                /\ (2 + u + k) + 1 = 3 + u + k
            BY <3>3, <1>7
          <6>2. b[2 + u + k] = c[(2 + u + k) + 1]
            BY <1>2, <6>1
          <6> QED
            BY <1>1, <6>1, <6>2
        <5>2. client.pass \in Seq(Bytes!Byte \ {0}) /\ Len(client.pass) = p /\ from \in Int
          BY <1>1 DEF Bytes!Text, p
        <5> HIDE DEF from
        <5>3. Bytes!Slice(b, from, p) = client.pass
          BY <5>1, <5>2, SliceHolds
        <5> QED
          BY <5>3, <1>1, TextIsString DEF from
      <4>3. ~(n < 5 \/ b[0] # 1 \/ n < 2 + b[1] + 2 \/ n < 2 + b[1] + 1 + b[2 + b[1]])
        BY <2>1, <2>3, <3>1, <3>3, <1>1, <1>6
      <4>4. /\ Bytes!CString(Bytes!Slice(b, 2, b[1])) = client.user
            /\ Bytes!CString(Bytes!Slice(b, 3 + b[1], b[2 + b[1]])) = client.pass
        BY <2>1, <3>1, <4>1, <4>2
      <4>5. Bytes!CheckCredentials(b, n, a) =
              IF client.user = a.user /\ client.pass = a.pass THEN Bytes!EC_SUCCESS ELSE Bytes!EC_NOT_ALLOWED
        BY <4>3, <4>4, Zenon DEF Bytes!CheckCredentials
      <4> QED
        BY <4>5, <3>3, <1>1, <1>3 DEF c
    <3> QED
      BY <3>2, <3>3, <1>1, <1>4
  <2> QED
    BY <2>2, <2>3, <1>1, <1>4
<1> QED
  BY <1>4, <1>5, <1>6

LEMMA AddressIsRecord == ASSUME NEW a \in Bytes!Addresses PROVE Bytes!Address(a) = a
  BY DEF Bytes!Addresses, Bytes!Address

\* An address has an address exactly if the abstract specification says so.
LEMMA LookupFinds ==
    ASSUME NEW a \in Bytes!Addresses
    PROVE  /\ Bytes!Lookup(a) # <<>> <=> Bytes!HasAddress(a)
           /\ Bytes!Lookup(a) # <<>> => Bytes!Lookup(a).type = IF a.type = Bytes!DNS THEN Bytes!IPV4 ELSE a.type
           /\ a.type # Bytes!DNS => Bytes!Lookup(a).host = a.host
<1>1. CASE a.type # Bytes!DNS
  <2>1. Bytes!Lookup(a) = [type |-> a.type, host |-> a.host]
    BY <1>1 DEF Bytes!Lookup
  <2>2. Bytes!Lookup(a) # <<>>
    BY <2>1
  <2> QED
    BY <1>1, <2>1, <2>2 DEF Bytes!HasAddress
<1>2. CASE a.type = Bytes!DNS /\ a.host \in DOMAIN Names
  <2>1. Bytes!Lookup(a) = [type |-> Bytes!IPV4, host |-> Names[a.host]]
    BY <1>2 DEF Bytes!Lookup
  <2>2. Bytes!Lookup(a) # <<>>
    BY <2>1
  <2> QED
    BY <1>2, <2>1, <2>2 DEF Bytes!HasAddress
<1>3. CASE a.type = Bytes!DNS /\ a.host \notin DOMAIN Names
  <2>1. Bytes!Lookup(a) = <<>>
    BY <1>3 DEF Bytes!Lookup
  <2> QED
    BY <1>3, <2>1 DEF Bytes!HasAddress
<1> QED
  BY <1>1, <1>2, <1>3

LEMMA LookupAsWritten ==
    ASSUME NEW a, NEW c, a.type = c.type, a.host = c.host PROVE Bytes!Lookup(a) = Bytes!Lookup(c)
  BY DEF Bytes!Lookup

\* A request is understood if it has come whole, and then as it was meant.
LEMMA RequestRead ==
    ASSUME Bytes!HandshakeAssumption, client \in Clients, NEW b, NEW n \in 1 .. Len(Bytes!Request),
           \A k \in 0 .. n - 1 : b[k] = Bytes!Request[k + 1]
    PROVE  LET request == Bytes!ParseRequest(b, n)
           IN /\ n < Len(Bytes!Request) \/ client.cmd \notin {Bytes!CONNECT, Bytes!UDP_ASSOCIATE}
                    => Bytes!Resolve(request.to) = <<>>
              /\ n = Len(Bytes!Request) /\ client.cmd \in {Bytes!CONNECT, Bytes!UDP_ASSOCIATE}
                    => /\ request.cmd = client.cmd /\ Bytes!Address(request.to) = client.to
                       /\ Bytes!Resolve(request.to) = Bytes!Lookup(client.to)
<1> DEFINE e == Bytes!Encode(client.to)
           to == client.to
           r == Bytes!Request
           at == 3
<1>1. /\ to \in Bytes!Addresses /\ Len(r) = 3 + Len(e)
      /\ r[1] = 5 /\ r[2] = client.cmd /\ r[3] = 0
      /\ \A k \in 1 .. Len(e) : r[3 + k] = e[k]
  BY RequestBytes
<1>2. Len(e) \in Nat
  BY <1>1, EncodeBytes, LenProperties
<1>3. n \in 1 .. Len(r) /\ \A k \in 0 .. n - 1 : b[k] = r[k + 1]
  OBVIOUS
<1>4. Bytes!Resolve(Bytes!Malformed) = <<>>
  BY DEF Bytes!Resolve, Bytes!Malformed
<1> HIDE DEF e, to, r, at
<1>5. at \in Nat /\ n - 3 \in Int /\ n \in 1 .. 3 + Len(e)
  BY <1>1, <1>2, <1>3 DEF at
<1>6. \A k \in 0 .. (n - 3) - 1 : k < Len(e) => b[at + k] = e[k + 1]
  <2> TAKE k \in 0 .. (n - 3) - 1
  <2>1. ASSUME k < Len(e) PROVE b[at + k] = e[k + 1]
    <3>1. /\ 3 + k \in 0 .. n - 1 /\ (3 + k) + 1 = 3 + (k + 1) /\ k + 1 \in 1 .. Len(e)
          /\ at + k = 3 + k
      BY <1>2, <1>5, <2>1 DEF at
    <3>2. b[3 + k] = r[(3 + k) + 1] /\ r[3 + (k + 1)] = e[k + 1]
      BY <1>1, <1>3, <3>1
    <3> QED
      BY <3>1, <3>2
  <2> QED
    BY <2>1
<1>7. /\ n - 3 < Len(e) => Bytes!ParseAddrport(b, at, n - 3) = Bytes!Malformed
      /\ n - 3 >= Len(e) => Bytes!ParseAddrport(b, at, n - 3) =
           [type |-> to.type, host |-> to.host, port |-> to.port, len |-> Len(e)]
  <2> DEFINE m == n - 3
  <2>1. /\ to \in Bytes!Addresses /\ at \in Nat /\ m \in Int
        /\ \A k \in 0 .. m - 1 : k < Len(Bytes!Encode(to)) => b[at + k] = Bytes!Encode(to)[k + 1]
    BY <1>1, <1>5, <1>6 DEF e, to
  <2> HIDE DEF m
  <2>2. ASSUME NEW a \in Bytes!Addresses,
               \A k \in 0 .. m - 1 : k < Len(Bytes!Encode(a)) => b[at + k] = Bytes!Encode(a)[k + 1]
        PROVE  /\ m < Len(Bytes!Encode(a)) => Bytes!ParseAddrport(b, at, m) = Bytes!Malformed
               /\ m >= Len(Bytes!Encode(a)) => Bytes!ParseAddrport(b, at, m) =
                    [type |-> a.type, host |-> a.host, port |-> a.port, len |-> Len(Bytes!Encode(a))]
    BY <2>1, <2>2, ParsesAddress
  <2>3. /\ m < Len(Bytes!Encode(to)) => Bytes!ParseAddrport(b, at, m) = Bytes!Malformed
        /\ m >= Len(Bytes!Encode(to)) => Bytes!ParseAddrport(b, at, m) =
             [type |-> to.type, host |-> to.host, port |-> to.port, len |-> Len(Bytes!Encode(to))]
    BY <2>1, <2>2
  <2> QED
    BY <2>3 DEF m, e, to
<1>8. CASE n < 3
  <2>1. Bytes!ParseRequest(b, n).to = Bytes!Malformed
    BY <1>8 DEF Bytes!ParseRequest
  <2> QED
    BY <2>1, <1>1, <1>2, <1>4, <1>8 DEF r
<1>9. CASE n >= 3
  <2>1. b[0] = 5 /\ b[1] = client.cmd /\ b[2] = 0
    <3>1. 0 \in 0 .. n - 1 /\ 1 \in 0 .. n - 1 /\ 2 \in 0 .. n - 1
      BY <1>5, <1>9
    <3>2. b[0] = r[0 + 1] /\ b[1] = r[1 + 1] /\ b[2] = r[2 + 1]
      BY <1>3, <3>1
    <3> QED
      BY <1>1, <3>2
  <2>2. CASE client.cmd \notin {Bytes!CONNECT, Bytes!UDP_ASSOCIATE}
    <3>1. Bytes!ParseRequest(b, n).to = Bytes!Malformed
      BY <2>1, <2>2 DEF Bytes!ParseRequest
    <3> QED
      BY <3>1, <2>2, <1>4
  <2>3. CASE client.cmd \in {Bytes!CONNECT, Bytes!UDP_ASSOCIATE}
    <3>1. Bytes!ParseRequest(b, n) = [cmd |-> client.cmd, to |-> Bytes!ParseAddrport(b, at, n - 3)]
      BY <2>1, <2>3, <1>5, <1>9 DEF Bytes!ParseRequest, at
    <3>2. CASE n < Len(r)
      <4>1. Bytes!ParseRequest(b, n).to = Bytes!Malformed
        BY <3>1, <3>2, <1>1, <1>2, <1>5, <1>7
      <4> QED
        BY <4>1, <3>2, <1>4 DEF r
    <3>3. CASE n = Len(r)
      <4> DEFINE got == Bytes!ParseRequest(b, n).to
      <4>1. /\ Bytes!ParseRequest(b, n).cmd = client.cmd
            /\ got = [type |-> to.type, host |-> to.host, port |-> to.port, len |-> Len(e)]
        BY <3>1, <3>3, <1>1, <1>2, <1>5, <1>7
      <4> HIDE DEF got
      <4>2. got.type = to.type /\ got.host = to.host /\ got.port = to.port /\ got.len = Len(e)
        BY <4>1
      <4>3. Bytes!Address(got) = Bytes!Address(to)
        BY <4>2 DEF Bytes!Address
      <4>4. Bytes!Resolve(got) = Bytes!Lookup(to)
        BY <4>2, <1>2, LookupAsWritten DEF Bytes!Resolve
      <4> QED
        BY <4>1, <4>3, <4>4, <3>3, <2>3, <1>1, <1>2, AddressIsRecord DEF to, r, got
    <3> QED
      BY <3>2, <3>3, <1>1, <1>2, <1>5
  <2> QED
    BY <2>2, <2>3
<1> QED
  BY <1>5, <1>8, <1>9

LEMMA Misread ==
    ASSUME NEW b, NEW n
    PROVE  /\ b[0] # 5 => Bytes!Resolve(Bytes!ParseRequest(b, n).to) = <<>>
           /\ \A a : b[0] # 1 => Bytes!CheckCredentials(b, n, a) # Bytes!EC_SUCCESS
<1>1. Bytes!Resolve(Bytes!Malformed) = <<>>
  BY DEF Bytes!Resolve, Bytes!Malformed
<1>2. b[0] # 5 => Bytes!ParseRequest(b, n).to = Bytes!Malformed
  BY DEF Bytes!ParseRequest
<1>3. \A a : b[0] # 1 => Bytes!CheckCredentials(b, n, a) = Bytes!EC_GENERAL_FAILURE
  BY DEF Bytes!CheckCredentials
<1> QED
  BY <1>1, <1>2, <1>3 DEF Bytes!EC_GENERAL_FAILURE, Bytes!EC_SUCCESS

\* The header put in front of an answer is the one the client wrote.
LEMMA HeaderAsWritten ==
    ASSUME NEW d \in Bytes!Addresses
    PROVE  Bytes!UdpHeader(d) = <<0, 0, 0>> \o Bytes!Encode(d)
<1> DEFINE head == IF d.type = Bytes!DNS THEN <<Len(d.host)>> ELSE <<>>
           z == <<0, 0, 0>>
           t == <<d.type>>
           host == d.host
           p == Bytes!Port(d.port)
           zt == <<0, 0, 0, d.type>>
           name == head \o host
<1>1. /\ d.type \in Bytes!Byte /\ host \in Seq(Bytes!Byte) /\ Len(host) \in Bytes!Byte /\ p \in Seq(Bytes!Byte)
  <2>1. /\ d.type \in {Bytes!IPV4, Bytes!IPV6, Bytes!DNS} /\ d.port \in Bytes!PortNumber
        /\ host \in Seq(Bytes!Byte) /\ Len(host) \in Bytes!Byte
    BY EncodeBytes
  <2>2. d.type \in Bytes!Byte
    BY <2>1 DEF Bytes!Byte, Bytes!IPV4, Bytes!IPV6, Bytes!DNS
  <2> QED
    BY <2>1, <2>2, PortBytes
<1>2. head \in Seq(Bytes!Byte) /\ z \in Seq(Bytes!Byte) /\ t \in Seq(Bytes!Byte)
  <2>1. 0 \in Bytes!Byte
    BY DEF Bytes!Byte
  <2> DEFINE len == Len(host)
  <2>2. head = IF d.type = Bytes!DNS THEN <<len>> ELSE <<>>
    OBVIOUS
  <2>3. len \in Bytes!Byte /\ d.type \in Bytes!Byte
    BY <1>1
  <2> HIDE DEF len, head
  <2> QED
    BY <2>1, <2>2, <2>3
<1>3. zt = z \o t
  BY <1>1
<1>4. Bytes!Encode(d) = ((t \o head) \o host) \o p
  BY DEF Bytes!Encode
<1>5. Bytes!UdpHeader(d) = (zt \o (IF d.type = Bytes!DNS THEN <<Len(d.host)>> \o d.host ELSE d.host)) \o p
  BY DEF Bytes!UdpHeader
<1>6. (IF d.type = Bytes!DNS THEN <<Len(d.host)>> \o d.host ELSE d.host) = name
  BY <1>1, ConcatEmptySeq
<1> HIDE DEF head, z, t, host, p, zt
<1>7. name \in Seq(Bytes!Byte)
  BY <1>1, <1>2, ConcatProperties
<1>8. (t \o head) \o host = t \o name
  BY <1>1, <1>2, ConcatAssociative
<1> HIDE DEF name
<1> DEFINE np == name \o p
           start == z \o t
<1>9. /\ t \in Seq(Bytes!Byte) /\ name \in Seq(Bytes!Byte) /\ p \in Seq(Bytes!Byte) /\ z \in Seq(Bytes!Byte)
      /\ np \in Seq(Bytes!Byte) /\ start \in Seq(Bytes!Byte)
  BY <1>1, <1>2, <1>7, ConcatProperties
<1>10. np = name \o p /\ start = z \o t
  OBVIOUS
<1> HIDE DEF np, start
<1>11. (t \o name) \o p = t \o (name \o p)
  BY <1>9, ConcatAssociative
<1>12. (start \o name) \o p = start \o (name \o p)
  BY <1>9, ConcatAssociative
<1>13. (z \o t) \o np = z \o (t \o np)
  BY <1>9, ConcatAssociative
<1> QED
  BY <1>3, <1>4, <1>5, <1>6, <1>8, <1>10, <1>11, <1>12, <1>13 DEF z

\* A datagram with its whole header is understood, and what is sent back in its
\* name carries that header.
LEMMA DatagramRead ==
    ASSUME Bytes!HandshakeAssumption, NEW d \in Destination, NEW b, NEW n \in 1 .. Len(Bytes!Datagram(d)),
           \A k \in 0 .. n - 1 : b[k] = Bytes!Datagram(d)[k + 1]
    PROVE  LET a == Bytes!ExtractUdpData(b, n)
           IN \/ a.len < 0 /\ n < Len(Bytes!Datagram(d))
              \/ ~(a.len < 0) /\ Bytes!Address(a) = d /\ Bytes!UdpHeader(a) \o Bytes!Payload = Bytes!Datagram(d)
<1> DEFINE e == Bytes!Encode(d)
           r == Bytes!Datagram(d)
           at == 3
<1>1. /\ d \in Bytes!Addresses /\ Len(e) \in Nat /\ Len(r) = 4 + Len(e)
      /\ \A k \in 1 .. 3 : r[k] = 0
      /\ \A k \in 1 .. Len(e) : r[3 + k] = e[k]
      /\ r = (<<0, 0, 0>> \o e) \o Bytes!Payload
  BY DatagramBytes
<1>3. n \in 1 .. Len(r) /\ \A k \in 0 .. n - 1 : b[k] = r[k + 1]
  OBVIOUS
<1> HIDE DEF e, r, at
<1>5. at \in Nat /\ n - 3 \in Int /\ n \in 1 .. 4 + Len(e)
  BY <1>1, <1>3 DEF at
<1>6. \A k \in 0 .. (n - 3) - 1 : k < Len(e) => b[at + k] = e[k + 1]
  <2> TAKE k \in 0 .. (n - 3) - 1
  <2>1. ASSUME k < Len(e) PROVE b[at + k] = e[k + 1]
    <3>1. /\ 3 + k \in 0 .. n - 1 /\ (3 + k) + 1 = 3 + (k + 1) /\ k + 1 \in 1 .. Len(e)
          /\ at + k = 3 + k
      BY <1>1, <1>5, <2>1 DEF at
    <3>2. b[3 + k] = r[(3 + k) + 1] /\ r[3 + (k + 1)] = e[k + 1]
      BY <1>1, <1>3, <3>1
    <3> QED
      BY <3>1, <3>2
  <2> QED
    BY <2>1
<1>7. /\ n - 3 < Len(e) => Bytes!ParseAddrport(b, at, n - 3) = Bytes!Malformed
      /\ n - 3 >= Len(e) => Bytes!ParseAddrport(b, at, n - 3) =
           [type |-> d.type, host |-> d.host, port |-> d.port, len |-> Len(e)]
  BY <1>1, <1>5, <1>6, ParsesAddress DEF e
<1> DEFINE a == Bytes!ExtractUdpData(b, n)
<1>8. CASE n - 3 < Len(e)
  <2>1. Bytes!ParseAddrport(b, 3, n - 3).len < 0
    BY <1>7, <1>8 DEF at, Bytes!Malformed
  <2>2. a = Bytes!Malformed
    BY <2>1 DEF Bytes!ExtractUdpData
  <2> QED
    BY <2>2, <1>1, <1>5, <1>8 DEF Bytes!Malformed, r
<1>9. CASE n - 3 >= Len(e)
  <2> DEFINE parsed == [type |-> d.type, host |-> d.host, port |-> d.port, len |-> Len(e)]
  <2>1. Bytes!ParseAddrport(b, 3, n - 3) = parsed
    BY <1>7, <1>9 DEF at
  <2>2. ~\E k \in 0 .. 2 : b[k] # 0
    <3> SUFFICES ASSUME NEW k \in 0 .. 2 PROVE b[k] = 0
      OBVIOUS
    <3>1. k \in 0 .. n - 1 /\ k + 1 \in 1 .. 3
      BY <1>1, <1>5, <1>9
    <3> QED
      BY <1>1, <1>3, <3>1
  <2>3. parsed.len = Len(e)
    OBVIOUS
  <2>4. ~(n < 3) /\ ~(Len(e) < 0)
    BY <1>1, <1>5, <1>9
  <2>5. a = [parsed EXCEPT !.len = 3 + @]
    BY <2>1, <2>2, <2>3, <2>4 DEF Bytes!ExtractUdpData
  <2>6. a.type = d.type /\ a.host = d.host /\ a.port = d.port /\ a.len = 3 + Len(e)
    BY <2>5
  <2> HIDE DEF a
  <2>7. Bytes!Address(a) = Bytes!Address(d) /\ Bytes!UdpHeader(a) = Bytes!UdpHeader(d)
    BY <2>6 DEF Bytes!Address, Bytes!UdpHeader
  <2>8. ~(a.len < 0)
    BY <2>6, <1>1, <1>5
  <2>9. d \in Bytes!Addresses /\ Bytes!Datagram(d) = (<<0, 0, 0>> \o Bytes!Encode(d)) \o Bytes!Payload
    BY <1>1 DEF r, e
  <2>10. Bytes!Address(a) = d /\ Bytes!UdpHeader(a) = <<0, 0, 0>> \o Bytes!Encode(d)
    BY <2>7, <2>9, AddressIsRecord, HeaderAsWritten
  <2> QED
    BY <2>8, <2>9, <2>10 DEF a
<1> QED
  BY <1>1, <1>5, <1>8, <1>9

-----------------------------------------------------------------------------
\* The invariant

\* Between the pieces of a greeting and the next message on the wire there may
\* be a rest of the greeting, which is not the beginning of that message.
AwaitsCredentials ==
    /\ account = Account
    /\ \E rest \in Seq(Bytes!Byte \ {1}) :
          /\ whole => rest = <<>>
          /\ \/ sent = "greeting" /\ reply = <<5, Bytes!AM_USERNAME>> /\ wire = rest
             \/ sent = "credentials" /\ reply = <<>> /\ wire = rest \o Bytes!Credentials

AwaitsRequest ==
    \E rest \in Seq(Bytes!Byte \ {5}) :
        /\ whole => rest = <<>>
        /\ \/ sent = "greeting" /\ reply = <<5, Bytes!AM_NO_AUTH>> /\ wire = rest
           \/ sent = "credentials" /\ reply = <<1, Bytes!EC_SUCCESS>> /\ wire = rest
           \/ sent = "request" /\ reply = <<>> /\ wire = rest \o Bytes!Request

Agreed ==
    /\ DOMAIN buf = 0 .. BufSize - 1
    /\ client \in Clients /\ account \in {Account, NoAccount}
    /\ stage \in {"connected", "needAuth", "authed", "relaying", "associated", "closed"}
    /\ gone => ~whole
    /\ stage \in {"connected", "needAuth", "authed"} => target = <<>>
    /\ stage \in {"relaying", "associated"} \/ target # <<>> => sent = "request"
    /\ stage = "connected" => sent = "greeting" /\ reply = <<>> /\ wire = Bytes!Greeting
    /\ stage = "needAuth" => AwaitsCredentials
    /\ stage = "authed" => AwaitsRequest

LEMMA FirstMessage == Bytes!HandshakeAssumption /\ Bytes!Init => Agreed /\ Bytes!Promise!Init
<1> SUFFICES ASSUME Bytes!HandshakeAssumption, Bytes!Init PROVE Agreed /\ Bytes!Promise!Init
  OBVIOUS
<1>1. DOMAIN buf = 0 .. BufSize - 1
  BY DEF Bytes!Init, Bytes!Fresh
<1> QED
  BY <1>1 DEF Bytes!Init, Agreed, Bytes!Promise!Init, Bytes!Phase, Bytes!Told

\* The states of clientthread as the phases of the abstract specification.
LEMMA Phases ==
    /\ stage = "connected" => Bytes!Phase = "greeting"
    /\ stage = "needAuth" => Bytes!Phase = "credentials"
    /\ stage = "authed" => Bytes!Phase = "request"
    /\ stage = "relaying" => Bytes!Phase = "connected"
    /\ stage = "associated" => Bytes!Phase = "associated"
    /\ stage = "closed" => Bytes!Phase = "refused"
    /\ stage' = "connected" => Bytes!Phase' = "greeting"
    /\ stage' = "needAuth" => Bytes!Phase' = "credentials"
    /\ stage' = "authed" => Bytes!Phase' = "request"
    /\ stage' = "relaying" => Bytes!Phase' = "connected"
    /\ stage' = "associated" => Bytes!Phase' = "associated"
    /\ stage' = "closed" => Bytes!Phase' = "refused"
    /\ stage' = stage => Bytes!Phase' = Bytes!Phase
  BY DEF Bytes!Phase

LEMMA NothingTold ==
    /\ target = <<>> => Bytes!Told = <<>>
    /\ target' = <<>> => Bytes!Told' = <<>>
    /\ target' = target /\ reply' = reply => Bytes!Told' = Bytes!Told
  BY DEF Bytes!Told

LEMMA Refuses ==
    ASSUME stage \in {"connected", "needAuth", "authed"}, stage' = "closed",
           target = <<>>, UNCHANGED <<target, exchanged, Bytes!config>>, whole' => whole,
           stage = "connected" => (whole' => ~Bytes!Promise!Agrees),
           stage = "needAuth" => (whole' => ~Bytes!Promise!Proves),
           stage = "authed" => (whole' => ~Bytes!Promise!Asks)
    PROVE  Bytes!Promise!Next
<1>1. Bytes!Told' = Bytes!Told
  BY NothingTold
<1>2. Bytes!Promise!Refuse
  BY <1>1, Phases DEF Bytes!Promise!Refuse
<1> QED
  BY <1>2 DEF Bytes!Promise!Next, Bytes!config

\* The first byte read is one of the rest of the greeting if there is one ...
LEMMA RestRead ==
    ASSUME Bytes!HandshakeAssumption, client \in Clients, DOMAIN buf = 0 .. BufSize - 1,
           NEW version, NEW rest \in Seq(Bytes!Byte \ {version}), rest # <<>>,
           NEW message \in Seq(Bytes!Byte), wire = rest \o message, NEW n, Bytes!Recv(n)
    PROVE  buf'[0] # version
<1>1. BufSize \in Nat /\ 0 < BufSize
  <2>1. BufSize \in Nat
    BY DEF Bytes!HandshakeAssumption
  <2> DEFINE len == Len(client.offer)
  <2>2. len \in Nat /\ 2 + len <= BufSize
    BY GreetingBytes
  <2> HIDE DEF len
  <2> QED
    BY <2>1, <2>2
<1>2. rest \in Seq(Bytes!Byte)
  BY SeqMonotonic
<1>3. wire \in Seq(Bytes!Byte)
  BY <1>2, ConcatProperties
<1>4. /\ n \in 1 .. Len(wire)
      /\ \A k \in 0 .. n - 1 : k < BufSize => buf'[k] = wire[k + 1]
  BY <1>1, <1>3, RecvWrites
<1>5. Len(rest) \in Nat \ {0}
  BY EmptySeq
<1>6. rest[1] \in Bytes!Byte \ {version}
  BY <1>5, ElementOfSeq
<1>7. \A i \in 1 .. Len(rest) : (rest \o message)[i] = rest[i]
  BY <1>2, ConcatParts
<1>8. wire[1] = rest[1]
  BY <1>5, <1>7
<1>9. buf'[0] = wire[1]
  <2>1. Len(wire) \in Nat
    BY <1>3, LenProperties
  <2>2. 0 \in 0 .. n - 1 /\ 0 + 1 = 1
    BY <1>4, <2>1
  <2> QED
    BY <2>2, <1>1, <1>4
<1> QED
  BY <1>6, <1>8, <1>9

\* ... and otherwise what is read is a beginning of the message.
LEMMA MessageRead ==
    ASSUME Bytes!HandshakeAssumption, DOMAIN buf = 0 .. BufSize - 1,
           wire \in Seq(Bytes!Byte), Len(wire) <= BufSize, NEW n, Bytes!Recv(n)
    PROVE  n \in 1 .. Len(wire) /\ \A k \in 0 .. n - 1 : buf'[k] = wire[k + 1]
<1>1. BufSize \in Nat
  BY DEF Bytes!HandshakeAssumption
<1>2. /\ n \in 1 .. Len(wire)
      /\ \A k \in 0 .. n - 1 : k < BufSize => buf'[k] = wire[k + 1]
  BY <1>1, RecvWrites
<1>3. \A k \in 0 .. n - 1 : k < BufSize
  <2>1. Len(wire) \in Nat
    BY LenProperties
  <2> QED
    BY <2>1, <1>1, <1>2
<1> QED
  BY <1>2, <1>3

-----------------------------------------------------------------------------
\* The steps

LEMMA GreetingStep ==
    ASSUME Bytes!HandshakeAssumption, Agreed, NEW n, Bytes!RecvGreeting(n) PROVE Agreed' /\ Bytes!Promise!Next
<1> DEFINE needed == account # NoAccount
           m == Bytes!CheckAuthMethod(buf', n, needed)
           method == IF needed THEN Bytes!AM_USERNAME ELSE Bytes!AM_NO_AUTH
           offered == \E k \in DOMAIN client.offer : client.offer[k] = method
           rest == SubSeq(Bytes!Greeting, n + 1, Len(Bytes!Greeting))
<1>1. /\ client \in Clients /\ account \in {Account, NoAccount} /\ target = <<>>
      /\ stage = "connected" /\ sent = "greeting" /\ wire = Bytes!Greeting /\ (gone => ~whole)
  BY DEF Bytes!RecvGreeting, Agreed
<1>2. /\ Bytes!Greeting \in Seq(Bytes!Byte) /\ Len(Bytes!Greeting) \in Nat
      /\ BufSize \in Nat /\ Len(Bytes!Greeting) <= BufSize
  BY <1>1, GreetingBytes, LenProperties DEF Bytes!HandshakeAssumption
<1>3. /\ n \in 1 .. Len(Bytes!Greeting) /\ DOMAIN buf' = 0 .. BufSize - 1
      /\ \A k \in 0 .. n - 1 : buf'[k] = Bytes!Greeting[k + 1]
  <2>1. Bytes!Recv(n) /\ DOMAIN buf = 0 .. BufSize - 1
    BY DEF Bytes!RecvGreeting, Agreed
  <2>2. DOMAIN buf' = 0 .. BufSize - 1
    BY <2>1 DEF Bytes!Recv, Bytes!Overwritten
  <2> QED
    BY <2>1, <2>2, <1>1, <1>2, MessageRead
<1>4. /\ UNCHANGED <<client, account, sent, gone, target, exchanged>>
      /\ wire' = rest /\ (whole' => whole /\ n = Len(Bytes!Greeting))
      /\ reply' = <<5, m>>
      /\ stage' = CASE m = Bytes!AM_NO_AUTH -> "authed"
                    [] m = Bytes!AM_USERNAME -> "needAuth"
                    [] m = Bytes!AM_INVALID -> "closed"
  BY <1>1 DEF Bytes!RecvGreeting, Bytes!Recv, Bytes!config
<1>5. /\ m \in {method, Bytes!AM_INVALID}
      /\ m = method => offered /\ n >= 2
      /\ n = Len(Bytes!Greeting) /\ offered => m = method
  <2>1. needed \in BOOLEAN
    OBVIOUS
  <2> HIDE DEF needed
  <2> QED
    BY <2>1, <1>1, <1>3, GreetingRead
<1>9. /\ m = Bytes!AM_NO_AUTH => stage' = "authed"
      /\ m = Bytes!AM_USERNAME => stage' = "needAuth"
      /\ m = Bytes!AM_INVALID => stage' = "closed"
  <2> HIDE DEF m
  <2> QED
    BY <1>4 DEF Bytes!AM_INVALID, Bytes!AM_USERNAME, Bytes!AM_NO_AUTH
<1>6. offered <=> Bytes!Promise!Agrees
  BY DEF Bytes!Promise!Agrees, Bytes!AM_USERNAME, Bytes!AM_NO_AUTH
<1> HIDE DEF m, offered, rest
<1>7. CASE m = Bytes!AM_INVALID
  <2>1. stage' = "closed" /\ m # method
    BY <1>4, <1>7 DEF Bytes!AM_INVALID, Bytes!AM_USERNAME, Bytes!AM_NO_AUTH
  <2>2. Bytes!Promise!Next
    BY <2>1, <1>1, <1>4, <1>5, <1>6, Refuses DEF Bytes!config
  <2>3. Agreed'
    BY <2>1, <1>1, <1>3, <1>4 DEF Agreed
  <2> QED
    BY <2>2, <2>3
<1>8. CASE m = method
  <2>1. offered /\ n \in 2 .. Len(Bytes!Greeting)
    BY <1>2, <1>3, <1>5, <1>8
  <2>2. /\ rest \in Seq(Bytes!Byte \ {5}) /\ (n = Len(Bytes!Greeting) => rest = <<>>)
        /\ (\E k \in DOMAIN client.offer : client.offer[k] = Bytes!AM_USERNAME)
              => rest \in Seq(Bytes!Byte \ {1})
    BY <2>1, <1>1, RestOfGreeting DEF rest
  <2>3. Bytes!Told' = Bytes!Told
    BY <1>1, <1>4, NothingTold
  <2>4. CASE ~needed
    <3>1. m = Bytes!AM_NO_AUTH /\ stage' = "authed"
      BY <1>8, <1>9, <2>4
    <3>2. AwaitsRequest'
      BY <3>1, <2>2, <1>1, <1>4 DEF AwaitsRequest
    <3>3. Agreed'
      BY <3>1, <3>2, <1>1, <1>3, <1>4 DEF Agreed
    <3>4. Bytes!Promise!Agree
      BY <3>1, <2>1, <2>3, <2>4, <1>1, <1>4, <1>6, Phases DEF Bytes!Promise!Agree
    <3> QED
      BY <3>3, <3>4, <1>4 DEF Bytes!Promise!Next
  <2>5. CASE needed
    <3>1. m = Bytes!AM_USERNAME /\ stage' = "needAuth" /\ account = Account
      BY <1>1, <1>8, <1>9, <2>5
    <3>2. rest \in Seq(Bytes!Byte \ {1})
      BY <2>1, <2>2, <2>5 DEF offered
    <3>3. AwaitsCredentials'
      BY <3>1, <3>2, <2>2, <1>1, <1>4 DEF AwaitsCredentials
    <3>4. Agreed'
      BY <3>1, <3>3, <1>1, <1>3, <1>4 DEF Agreed
    <3>5. Bytes!Promise!Agree
      BY <3>1, <2>1, <2>3, <2>5, <1>1, <1>4, <1>6, Phases DEF Bytes!Promise!Agree
    <3> QED
      BY <3>4, <3>5, <1>4 DEF Bytes!Promise!Next
  <2> QED
    BY <2>4, <2>5
<1> QED
  BY <1>5, <1>7, <1>8

LEMMA CredentialsStep ==
    ASSUME Bytes!HandshakeAssumption, Agreed, NEW n, Bytes!RecvCredentials(n) PROVE Agreed' /\ Bytes!Promise!Next
<1> DEFINE ret == Bytes!CheckCredentials(buf', n, account)
<1>1. /\ client \in Clients /\ account = Account /\ target = <<>>
      /\ stage = "needAuth" /\ (gone => ~whole) /\ AwaitsCredentials
      /\ DOMAIN buf = 0 .. BufSize - 1 /\ Bytes!Recv(n)
  BY DEF Bytes!RecvCredentials, Agreed, AwaitsCredentials
<1>2. /\ UNCHANGED <<client, account, sent, gone, target, exchanged>>
      /\ n \in 1 .. Len(wire)
      /\ wire' = SubSeq(wire, n + 1, Len(wire)) /\ (whole' => whole /\ n = Len(wire))
      /\ DOMAIN buf' = 0 .. BufSize - 1
      /\ reply' = <<1, ret>>
      /\ stage' = IF ret = Bytes!EC_SUCCESS THEN "authed" ELSE "closed"
  BY <1>1 DEF Bytes!RecvCredentials, Bytes!Recv, Bytes!config, Bytes!Overwritten
<1> HIDE DEF ret
<1>3. ASSUME ret # Bytes!EC_SUCCESS, whole' => ~Bytes!Promise!Proves PROVE Agreed' /\ Bytes!Promise!Next
  <2>1. stage' = "closed"
    BY <1>2, <1>3
  <2>2. Bytes!Promise!Next
    BY <2>1, <1>1, <1>2, <1>3, Refuses DEF Bytes!config
  <2>3. Agreed'
    BY <2>1, <1>1, <1>2 DEF Agreed
  <2> QED
    BY <2>2, <2>3
<1>4. PICK rest \in Seq(Bytes!Byte \ {1}) :
          /\ whole => rest = <<>>
          /\ \/ sent = "greeting" /\ wire = rest
             \/ sent = "credentials" /\ wire = rest \o Bytes!Credentials
  BY <1>1 DEF AwaitsCredentials
<1>5. /\ Bytes!Credentials \in Seq(Bytes!Byte) /\ Len(Bytes!Credentials) <= BufSize
      /\ <<>> \in Seq(Bytes!Byte) /\ Len(<<>>) = 0 /\ 0 <= BufSize
  <2>1. BufSize \in Nat
    BY DEF Bytes!HandshakeAssumption
  <2>2. Bytes!Credentials \in Seq(Bytes!Byte) /\ Len(Bytes!Credentials) <= BufSize
    BY <1>1, CredentialsBytes
  <2> QED
    BY <2>1, <2>2, EmptySeq
<1>6. CASE rest # <<>>
  <2>1. buf'[0] # 1
    <3>1. CASE sent = "greeting"
      <4>1. wire = rest \o <<>>
        BY <3>1, <1>4, ConcatEmptySeq
      <4> QED
        BY <4>1, <1>1, <1>5, <1>6, RestRead
    <3>2. CASE sent = "credentials"
      <4>1. wire = rest \o Bytes!Credentials
        BY <3>2, <1>4
      <4> QED
        BY <4>1, <1>1, <1>5, <1>6, RestRead
    <3> QED
      BY <3>1, <3>2, <1>4
  <2>2. ret # Bytes!EC_SUCCESS
    BY <2>1, Misread DEF ret
  <2>3. ~whole'
    BY <1>2, <1>4, <1>6
  <2> QED
    BY <2>2, <2>3, <1>3
<1>7. CASE rest = <<>>
  <2>1. sent = "credentials" /\ wire = rest \o Bytes!Credentials
    BY <1>2, <1>4, <1>5, <1>7
  <2>2. /\ wire = Bytes!Credentials /\ n \in 1 .. Len(Bytes!Credentials)
        /\ \A k \in 0 .. n - 1 : buf'[k] = Bytes!Credentials[k + 1]
    <3>1. wire = Bytes!Credentials
      BY <2>1, <1>5, <1>7, ConcatEmptySeq
    <3> QED
      BY <3>1, <1>1, <1>5, MessageRead
  <2>3. ret = Bytes!EC_SUCCESS <=> n = Len(Bytes!Credentials) /\ Bytes!Promise!Proves
    BY <2>2, <1>1, CredentialsRead DEF ret, Bytes!Promise!Proves
  <2>4. CASE ret # Bytes!EC_SUCCESS
    BY <2>2, <2>3, <2>4, <1>2, <1>3
  <2>5. CASE ret = Bytes!EC_SUCCESS
    <3>1. n = Len(Bytes!Credentials) /\ Bytes!Promise!Proves /\ stage' = "authed"
      BY <2>3, <2>5, <1>2
    <3>2. wire' = <<>>
      <4>1. Len(Bytes!Credentials) \in Nat
        BY <1>5, LenProperties
      <4> QED
        BY <4>1, <3>1, <2>2, <1>2, SubSeqEmpty
    <3>3. <<>> \in Seq(Bytes!Byte \ {5})
      BY EmptySeq
    <3>4. AwaitsRequest'
      BY <3>2, <3>3, <2>1, <2>5, <1>2 DEF AwaitsRequest
    <3>5. Agreed'
      BY <3>1, <3>4, <1>1, <1>2 DEF Agreed
    <3>6. Bytes!Told' = Bytes!Told
      BY <1>1, <1>2, NothingTold
    <3>7. Bytes!Promise!Prove
      BY <3>1, <3>6, <1>1, <1>2, Phases DEF Bytes!Promise!Prove
    <3> QED
      BY <3>5, <3>7, <1>2 DEF Bytes!Promise!Next
  <2> QED
    BY <2>4, <2>5
<1> QED
  BY <1>6, <1>7

\* What is told a client is the host in the reply.
LEMMA ResponseTold ==
    ASSUME NEW host \in Seq(Bytes!Byte), NEW type
    PROVE  LET r == Bytes!Response(type, host, RelayPort) IN SubSeq(r, 5, Len(r) - 2) = host
<1> DEFINE hi == RelayPort \div 256
           lo == RelayPort % 256
           S == Bytes!Byte \cup {type, hi, lo}
           head == <<5, Bytes!EC_SUCCESS, 0, type>>
           tail == Bytes!Port(RelayPort)
           h == head \o host
           r == h \o tail
           len == Len(host)
<1>1. host \in Seq(S) /\ len \in Nat
  <2>1. Bytes!Byte \subseteq S
    OBVIOUS
  <2> HIDE DEF S
  <2> QED
    BY <2>1, SeqMonotonic, LenProperties
<1>2. /\ head \in Seq(S) /\ Len(head) = 4
      /\ tail \in Seq(S) /\ Len(tail) = 2
  <2>1. 5 \in S /\ Bytes!EC_SUCCESS \in S /\ 0 \in S /\ type \in S /\ hi \in S /\ lo \in S
    BY DEF Bytes!Byte, Bytes!EC_SUCCESS
  <2>2. tail = <<hi, lo>>
    BY DEF Bytes!Port
  <2> HIDE DEF S, hi, lo, tail
  <2> QED
    BY <2>1, <2>2
<1> HIDE DEF S, head, tail, len
<1>3. /\ h \in Seq(S) /\ Len(h) = Len(head) + Len(host)
      /\ \A i \in 1 .. Len(host) : h[Len(head) + i] = host[i]
  <2>1. head \in Seq(S) /\ host \in Seq(S)
    BY <1>1, <1>2
  <2> QED
    BY <2>1, ConcatParts
<1> HIDE DEF h
<1>4. /\ r \in Seq(S) /\ Len(r) = Len(h) + Len(tail)
      /\ \A i \in 1 .. Len(h) : r[i] = h[i]
  <2>1. h \in Seq(S) /\ tail \in Seq(S)
    BY <1>2, <1>3
  <2> QED
    BY <2>1, ConcatParts
<1> HIDE DEF r
<1>5. Len(r) = 6 + len
  BY <1>1, <1>2, <1>3, <1>4 DEF len
<1>6. ASSUME NEW i \in 1 .. len PROVE r[4 + i] = host[i]
  <2>1. h[4 + i] = host[i]
    BY <1>2, <1>3 DEF len
  <2>2. 4 + i \in 1 .. Len(h)
    BY <1>1, <1>2, <1>3 DEF len
  <2> QED
    BY <2>1, <2>2, <1>4
<1> DEFINE m == 4 + len
           got == SubSeq(r, 5, m)
<1>7. m \in Int /\ m = Len(r) - 2
  BY <1>1, <1>5
<1>8. \A i \in 5 .. m : r[i] \in Bytes!Byte /\ r[i] = host[i - 4]
  <2> TAKE i \in 5 .. m
  <2>1. i - 4 \in 1 .. len /\ 4 + (i - 4) = i
    BY <1>1
  <2>2. r[4 + (i - 4)] = host[i - 4]
    BY <1>6, <2>1
  <2>3. host[i - 4] \in Bytes!Byte
    BY <2>1, ElementOfSeq DEF len
  <2> QED
    BY <2>1, <2>2, <2>3
<1>9. /\ got \in Seq(Bytes!Byte) /\ Len(got) = IF 5 <= m THEN m - 5 + 1 ELSE 0
      /\ \A i \in 1 .. m - 5 + 1 : got[i] = r[5 + i - 1]
  <2> HIDE DEF m
  <2>1. \A i \in 5 .. m : r[i] \in Bytes!Byte
    BY <1>8
  <2> QED
    BY <2>1, <1>7, SubSeqProperties
<1> HIDE DEF got
<1>10. Len(got) = len
  BY <1>1, <1>9
<1>11. ASSUME NEW i \in 1 .. len PROVE got[i] = host[i]
  <2>1. i \in 1 .. m - 5 + 1 /\ 5 + i - 1 = 4 + i
    BY <1>1
  <2> QED
    BY <2>1, <1>6, <1>9
<1>12. got = host
  BY <1>9, <1>10, <1>11, SeqEqual DEF len
<1>13. r = Bytes!Response(type, host, RelayPort)
  BY DEF Bytes!Response, r, h, head, tail
<1> HIDE DEF m
<1> QED
  BY <1>7, <1>12, <1>13 DEF got

\* The address in the reply is the one the abstract specification allows.
LEMMA RelayHost ==
    ASSUME Bytes!HandshakeAssumption, client \in Clients, client.cmd \in {Bytes!CONNECT, Bytes!UDP_ASSOCIATE},
           NEW to, to = Bytes!Lookup(client.to), to # <<>>
    PROVE  LET host == IF client.cmd = Bytes!CONNECT THEN Here[to.type] ELSE Bytes!UdpResponseHost(to)
           IN host \in Seq(Bytes!Byte) /\ host \in Bytes!AddressesOf(client)
<1> DEFINE host == IF client.cmd = Bytes!CONNECT THEN Here[to.type] ELSE Bytes!UdpResponseHost(to)
           type == IF client.to.type = Bytes!DNS THEN Bytes!IPV4 ELSE client.to.type
<1>1. /\ client.to \in Bytes!Addresses
      /\ Here[Bytes!IPV4] \in Seq(Bytes!Byte) /\ Here[Bytes!IPV6] \in Seq(Bytes!Byte)
  BY DEF Bytes!HandshakeAssumption
<1>2. client.to.type \in {Bytes!IPV4, Bytes!IPV6, Bytes!DNS} /\ client.to.host \in Seq(Bytes!Byte)
  BY <1>1, EncodeBytes
<1>3. to.type = type /\ (client.to.type # Bytes!DNS => to.host = client.to.host)
  BY <1>1, LookupFinds
<1>4. type \in {Bytes!IPV4, Bytes!IPV6} /\ (type = Bytes!IPV6 => client.to.type # Bytes!DNS)
  BY <1>2 DEF Bytes!IPV4, Bytes!IPV6, Bytes!DNS
<1>5. host = IF client.cmd = Bytes!UDP_ASSOCIATE /\ type = Bytes!IPV6 /\ Bytes!Unspecified(client.to.host)
             THEN client.to.host ELSE Here[type]
  <2>1. CASE client.cmd = Bytes!CONNECT
    BY <2>1, <1>3 DEF Bytes!CONNECT, Bytes!UDP_ASSOCIATE
  <2>2. CASE client.cmd # Bytes!CONNECT /\ type = Bytes!IPV4
    BY <2>2, <1>3 DEF Bytes!UdpResponseHost, Bytes!IPV4, Bytes!IPV6
  <2>3. CASE client.cmd # Bytes!CONNECT /\ type = Bytes!IPV6
    <3>1. to.host = client.to.host /\ to.type = Bytes!IPV6 /\ to.type # Bytes!IPV4
      BY <2>3, <1>3, <1>4 DEF Bytes!IPV4, Bytes!IPV6
    <3> HIDE DEF type
    <3> QED
      BY <2>3, <3>1 DEF Bytes!UdpResponseHost
  <2> QED
    BY <2>1, <2>2, <2>3, <1>4
<1>6. host \in Bytes!AddressesOf(client)
  BY <1>5 DEF Bytes!AddressesOf
<1> HIDE DEF host, type
<1>7. host \in Seq(Bytes!Byte)
  BY <1>1, <1>2, <1>4, <1>5
<1> QED
  BY <1>6, <1>7 DEF host

LEMMA RequestStep ==
    ASSUME Bytes!HandshakeAssumption, Agreed, NEW n, Bytes!RecvRequest(n) PROVE Agreed' /\ Bytes!Promise!Next
<1> DEFINE request == Bytes!ParseRequest(buf', n)
           to == Bytes!Resolve(request.to)
<1>1. /\ client \in Clients /\ account \in {Account, NoAccount} /\ target = <<>>
      /\ stage = "authed" /\ (gone => ~whole) /\ AwaitsRequest
      /\ DOMAIN buf = 0 .. BufSize - 1 /\ Bytes!Recv(n)
  BY DEF Bytes!RecvRequest, Agreed
<1>2. /\ UNCHANGED <<client, account, sent, gone, exchanged>>
      /\ n \in 1 .. Len(wire)
      /\ (whole' => whole /\ n = Len(wire))
      /\ DOMAIN buf' = 0 .. BufSize - 1
      /\ to = <<>> => stage' = "closed" /\ UNCHANGED <<reply, target>>
      /\ to # <<>> =>
           /\ stage' = IF request.cmd = Bytes!CONNECT THEN "relaying" ELSE "associated"
           /\ reply' = IF request.cmd = Bytes!CONNECT
                       THEN Bytes!Response(to.type, Here[to.type], RelayPort)
                       ELSE Bytes!Response(to.type, Bytes!UdpResponseHost(to), RelayPort)
           /\ target' = Bytes!Address(request.to)
  BY <1>1 DEF Bytes!RecvRequest, Bytes!Recv, Bytes!config, Bytes!Overwritten
<1> HIDE DEF request, to
<1>3. ASSUME to = <<>>, whole' => ~Bytes!Promise!Asks PROVE Agreed' /\ Bytes!Promise!Next
  <2>1. stage' = "closed" /\ UNCHANGED <<reply, target>>
    BY <1>2, <1>3
  <2>2. Bytes!Promise!Next
    BY <2>1, <1>1, <1>2, <1>3, Refuses DEF Bytes!config
  <2>3. Agreed'
    BY <2>1, <1>1, <1>2 DEF Agreed
  <2> QED
    BY <2>2, <2>3
<1>4. PICK rest \in Seq(Bytes!Byte \ {5}) :
          /\ whole => rest = <<>>
          /\ \/ sent # "request" /\ wire = rest
             \/ sent = "request" /\ wire = rest \o Bytes!Request
  BY <1>1 DEF AwaitsRequest
<1>5. /\ Bytes!Request \in Seq(Bytes!Byte) /\ Len(Bytes!Request) <= BufSize
      /\ <<>> \in Seq(Bytes!Byte) /\ Len(<<>>) = 0
  BY <1>1, RequestBytes, EmptySeq
<1>6. CASE rest # <<>>
  <2>1. buf'[0] # 5
    <3>1. CASE sent # "request"
      <4>1. wire = rest \o <<>>
        BY <3>1, <1>4, ConcatEmptySeq
      <4> QED
        BY <4>1, <1>1, <1>5, <1>6, RestRead
    <3>2. CASE sent = "request"
      <4>1. wire = rest \o Bytes!Request
        BY <3>2, <1>4
      <4> QED
        BY <4>1, <1>1, <1>5, <1>6, RestRead
    <3> QED
      BY <3>1, <3>2
  <2>2. to = <<>>
    BY <2>1, Misread DEF to, request
  <2>3. ~whole'
    BY <1>2, <1>4, <1>6
  <2> QED
    BY <2>2, <2>3, <1>3
<1>7. CASE rest = <<>>
  <2>1. sent = "request" /\ wire = rest \o Bytes!Request
    BY <1>2, <1>4, <1>5, <1>7
  <2>2. /\ wire = Bytes!Request /\ n \in 1 .. Len(Bytes!Request)
        /\ \A k \in 0 .. n - 1 : buf'[k] = Bytes!Request[k + 1]
    <3>1. wire = Bytes!Request
      BY <2>1, <1>5, <1>7, ConcatEmptySeq
    <3> QED
      BY <3>1, <1>1, <1>5, MessageRead
  <2>3. /\ n < Len(Bytes!Request) \/ client.cmd \notin {Bytes!CONNECT, Bytes!UDP_ASSOCIATE} => to = <<>>
        /\ n = Len(Bytes!Request) /\ client.cmd \in {Bytes!CONNECT, Bytes!UDP_ASSOCIATE}
              => /\ request.cmd = client.cmd /\ Bytes!Address(request.to) = client.to
                 /\ to = Bytes!Lookup(client.to)
    BY <2>2, <1>1, RequestRead DEF to, request
  <2>4. /\ n < Len(Bytes!Request) \/ n = Len(Bytes!Request)
        /\ n < Len(Bytes!Request) => n # Len(Bytes!Request)
    <3>1. Len(Bytes!Request) \in Nat
      BY <1>5, LenProperties
    <3> QED
      BY <3>1, <2>2
  <2>5. client.to \in Bytes!Addresses
    BY <1>1, RequestBytes
  <2>6. Bytes!Promise!Asks <=> client.cmd \in {Bytes!CONNECT, Bytes!UDP_ASSOCIATE} /\ Bytes!Lookup(client.to) # <<>>
    BY <2>5, LookupFinds DEF Bytes!Promise!Asks, Bytes!CONNECT, Bytes!UDP_ASSOCIATE
  <2>7. CASE to = <<>>
    BY <2>2, <2>3, <2>4, <2>6, <2>7, <1>2, <1>3
  <2>8. CASE to # <<>>
    <3>1. /\ n = Len(Bytes!Request) /\ client.cmd \in {Bytes!CONNECT, Bytes!UDP_ASSOCIATE}
          /\ request.cmd = client.cmd /\ Bytes!Address(request.to) = client.to
          /\ to = Bytes!Lookup(client.to) /\ Bytes!Promise!Asks
      BY <2>3, <2>4, <2>6, <2>8
    <3> DEFINE host == IF client.cmd = Bytes!CONNECT THEN Here[to.type] ELSE Bytes!UdpResponseHost(to)
    <3>2. host \in Seq(Bytes!Byte) /\ host \in Bytes!AddressesOf(client)
      BY <3>1, <2>8, <1>1, RelayHost
    <3>3. /\ reply' = Bytes!Response(to.type, host, RelayPort) /\ target' = client.to
          /\ stage' = IF client.cmd = Bytes!CONNECT THEN "relaying" ELSE "associated"
      BY <3>1, <2>8, <1>2
    <3> HIDE DEF host
    <3>4. SubSeq(reply', 5, Len(reply') - 2) = host
      BY <3>2, <3>3, ResponseTold
    <3>5. target' # <<>>
      <4>1. Bytes!Address(client.to) # <<>>
        BY DEF Bytes!Address
      <4> QED
        BY <4>1, <3>3, <2>5, AddressIsRecord
    <3>6. Bytes!Told' = host
      BY <3>4, <3>5 DEF Bytes!Told
    <3>7. Bytes!Phase = "request" /\ Bytes!Phase' = IF client.cmd = 1 THEN "connected" ELSE "associated"
      BY <3>3, <1>1, Phases DEF Bytes!CONNECT
    <3>8. Bytes!Promise!Serve
      BY <3>1, <3>2, <3>3, <3>6, <3>7, <1>2 DEF Bytes!Promise!Serve
    <3>9. Agreed'
      BY <3>3, <2>1, <1>1, <1>2 DEF Agreed
    <3> QED
      BY <3>8, <3>9, <1>2 DEF Bytes!Promise!Next
  <2> QED
    BY <2>7, <2>8
<1> QED
  BY <1>6, <1>7

LEMMA RecvEndsStep == ASSUME Agreed, Bytes!RecvEnds PROVE Agreed' /\ Bytes!Promise!Next
<1>1. /\ stage \in {"connected", "needAuth", "authed"} /\ target = <<>> /\ ~whole
      /\ stage' = "closed"
      /\ UNCHANGED <<client, account, wire, sent, gone, whole, buf, reply, target, exchanged>>
  BY DEF Bytes!RecvEnds, Agreed, Bytes!config
<1>2. Bytes!Promise!Next
  BY <1>1, Refuses DEF Bytes!config
<1>3. Agreed'
  BY <1>1 DEF Agreed
<1> QED
  BY <1>2, <1>3

LEMMA DatagramStep ==
    ASSUME Bytes!HandshakeAssumption, Agreed, NEW d \in Destination, NEW fresh \in Bytes!Fresh,
           NEW n \in 1 .. Len(Bytes!Datagram(d)), Bytes!RecvDatagram(d, n, fresh)
    PROVE  Agreed' /\ Bytes!Promise!Next
<1> DEFINE old == IF exchanged = <<>> THEN fresh ELSE buf
           piece == SubSeq(Bytes!Datagram(d), 1, n)
           b == Bytes!Overwritten(old, piece)
           a == Bytes!ExtractUdpData(b, n)
           answer == Bytes!UdpHeader(a) \o Bytes!Payload
<1>1. /\ stage = "associated" /\ sent = "request" /\ DOMAIN old = 0 .. BufSize - 1
      /\ UNCHANGED <<client, account, wire, sent, gone, reply, target>>
  BY DEF Bytes!RecvDatagram, Agreed, Bytes!Fresh, Bytes!config
<1>2. /\ a.len < 0 => /\ stage' = "closed" /\ buf' = b
                       /\ whole' = (whole /\ n = Len(Bytes!Datagram(d))) /\ UNCHANGED exchanged
      /\ ~(a.len < 0) =>
           /\ buf' = Bytes!Overwritten(b, answer)
           /\ exchanged' = [asked |-> d, sent |-> Bytes!Address(a),
                            answered |-> IF answer = Bytes!Datagram(d) THEN d ELSE <<>>]
           /\ UNCHANGED <<stage, whole>>
  BY DEF Bytes!RecvDatagram
<1>3. BufSize \in Nat /\ Bytes!Datagram(d) \in Seq(Bytes!Byte) /\ Len(Bytes!Datagram(d)) <= BufSize
  BY DatagramBytes DEF Bytes!HandshakeAssumption
<1>4. \A k \in 0 .. n - 1 : b[k] = Bytes!Datagram(d)[k + 1]
  <2> DEFINE r == Bytes!Datagram(d)
  <2>1. r \in Seq(Bytes!Byte) /\ Len(r) \in Nat /\ n \in 1 .. Len(r) /\ Len(r) <= BufSize
    BY <1>3, LenProperties
  <2> HIDE DEF r
  <2>2. \A k \in 1 .. n : r[k] \in Bytes!Byte
    BY <2>1, ElementOfSeq
  <2>3. /\ Len(SubSeq(r, 1, n)) = n
        /\ \A k \in 1 .. n : SubSeq(r, 1, n)[k] = r[k]
    BY <2>1, <2>2, SubSeqProperties
  <2>4. piece = SubSeq(r, 1, n)
    BY DEF r
  <2> HIDE DEF piece, old
  <2>5. b = [k \in DOMAIN old |-> IF k < n THEN piece[k + 1] ELSE old[k]]
    BY <2>3, <2>4 DEF Bytes!Overwritten
  <2> HIDE DEF b
  <2>6. ASSUME NEW k \in 0 .. n - 1 PROVE b[k] = r[k + 1]
    <3>1. k \in DOMAIN old /\ k < n /\ k + 1 \in 1 .. n
      BY <2>1, <1>1, <1>3
    <3>2. b[k] = piece[k + 1]
      BY <3>1, <2>5
    <3> QED
      BY <3>1, <3>2, <2>3, <2>4
  <2> QED
    BY <2>6 DEF r
<1>5. DOMAIN b = 0 .. BufSize - 1 /\ DOMAIN Bytes!Overwritten(b, answer) = 0 .. BufSize - 1
  BY <1>1 DEF Bytes!Overwritten
<1> HIDE DEF b
<1>6. \/ a.len < 0 /\ n < Len(Bytes!Datagram(d))
      \/ ~(a.len < 0) /\ Bytes!Address(a) = d /\ answer = Bytes!Datagram(d)
  BY <1>4, DatagramRead
<1> HIDE DEF a, answer
<1>7. Bytes!Told' = Bytes!Told
  BY <1>1, NothingTold
<1>8. CASE a.len < 0
  <2> DEFINE z == Len(Bytes!Datagram(d))
  <2>1. n < z /\ n \in 1 .. z /\ z \in Nat
    BY <1>3, <1>6, <1>8, LenProperties
  <2>2. stage' = "closed" /\ buf' = b /\ whole' = (whole /\ n = z) /\ UNCHANGED exchanged
    BY <1>2, <1>8
  <2> HIDE DEF z
  <2>3. ~whole'
    <3>1. n # z
      BY <2>1
    <3>2. whole' = (whole /\ n = z)
      BY <2>2
    <3> QED
      BY <3>1, <3>2, Zenon
  <2>4. Bytes!Promise!Refuse
    BY <1>1, <1>7, <2>2, <2>3, Phases DEF Bytes!Promise!Refuse
  <2>5. Agreed'
    BY <1>1, <1>5, <2>2, <2>3 DEF Agreed
  <2> QED
    BY <2>4, <2>5, <1>1, <2>2, <2>3 DEF Bytes!Promise!Next
<1>9. CASE ~(a.len < 0)
  <2>1. exchanged' = [asked |-> d, sent |-> d, answered |-> d]
    BY <1>2, <1>6, <1>9
  <2>2. Bytes!Promise!Exchange
    BY <2>1, <1>1, <1>2, <1>7, <1>9, Phases DEF Bytes!Promise!Exchange
  <2>3. Agreed'
    BY <1>1, <1>2, <1>5, <1>9 DEF Agreed
  <2> QED
    BY <2>2, <2>3, <1>1, <1>2, <1>9 DEF Bytes!Promise!Next
<1> QED
  BY <1>8, <1>9

LEMMA ClientSendsStep ==
    ASSUME Agreed, Bytes!ClientSendsCredentials \/ Bytes!ClientSendsRequest
    PROVE  Agreed' /\ UNCHANGED Bytes!Promise!vars
<1>1. /\ UNCHANGED <<client, account, gone, whole, buf, stage, target, exchanged>>
      /\ reply' = <<>> /\ sent # "request" /\ reply # <<>>
  <2>1. CASE Bytes!ClientSendsCredentials
    BY <2>1 DEF Bytes!ClientSendsCredentials, Bytes!ClientSends, Bytes!config
  <2>2. CASE Bytes!ClientSendsRequest
    BY <2>2 DEF Bytes!ClientSendsRequest, Bytes!ClientSends, Bytes!config
  <2> QED
    BY <2>1, <2>2
<1>2. target = <<>> /\ stage \notin {"connected", "relaying", "associated"}
  BY <1>1 DEF Agreed
<1>3. UNCHANGED Bytes!Promise!vars
  <2>1. Bytes!Told' = Bytes!Told /\ Bytes!Phase' = Bytes!Phase
    BY <1>1, <1>2, NothingTold, Phases
  <2> QED
    BY <2>1, <1>1 DEF Bytes!Promise!vars
<1>4. CASE Bytes!ClientSendsCredentials
  <2>1. /\ sent = "greeting" /\ reply = <<5, Bytes!AM_USERNAME>>
        /\ sent' = "credentials" /\ wire' = wire \o Bytes!Credentials
    BY <1>4 DEF Bytes!ClientSendsCredentials, Bytes!ClientSends
  <2>2. stage # "authed"
    BY <2>1 DEF Agreed, AwaitsRequest, Bytes!AM_USERNAME, Bytes!AM_NO_AUTH
  <2>3. Bytes!Credentials' = Bytes!Credentials
    BY <1>1 DEF Bytes!Credentials
  <2>4. stage = "needAuth" => AwaitsCredentials'
    BY <2>1, <2>3, <1>1 DEF Agreed, AwaitsCredentials
  <2> QED
    BY <2>1, <2>2, <2>4, <1>1, <1>2, <1>3 DEF Agreed
<1>5. CASE Bytes!ClientSendsRequest
  <2>1. /\ sent \in {"greeting", "credentials"} /\ reply # <<>> /\ reply[2] = 0
        /\ sent' = "request" /\ wire' = wire \o Bytes!Request
    BY <1>5 DEF Bytes!ClientSendsRequest, Bytes!ClientSends
  <2>2. stage # "needAuth"
    BY <2>1 DEF Agreed, AwaitsCredentials, Bytes!AM_USERNAME
  <2>3. Bytes!Request' = Bytes!Request
    BY <1>1 DEF Bytes!Request
  <2>4. stage = "authed" => AwaitsRequest'
    BY <2>1, <2>3, <1>1 DEF Agreed, AwaitsRequest
  <2> QED
    BY <2>1, <2>2, <2>4, <1>1, <1>2, <1>3 DEF Agreed
<1> QED
  BY <1>4, <1>5

LEMMA ClientLeavesStep == ASSUME Agreed, Bytes!ClientLeaves PROVE Agreed' /\ Bytes!Promise!Next
<1>1. /\ UNCHANGED <<client, account, wire, sent, buf, stage, reply, target, exchanged>>
      /\ whole' = FALSE /\ gone' = TRUE
  BY DEF Bytes!ClientLeaves, Bytes!config
<1>2. UNCHANGED <<Bytes!Greeting, Bytes!Credentials, Bytes!Request>>
  BY <1>1 DEF Bytes!Greeting, Bytes!Credentials, Bytes!Request
<1>3. Bytes!Told' = Bytes!Told /\ Bytes!Phase' = Bytes!Phase
  BY <1>1, NothingTold, Phases
<1>4. Agreed'
  BY <1>1, <1>2 DEF Agreed, AwaitsCredentials, AwaitsRequest
<1> QED
  BY <1>1, <1>3, <1>4 DEF Bytes!Promise!Next

LEMMA StepKeepsThePromise ==
    ASSUME Bytes!HandshakeAssumption, Agreed, [Bytes!Next]_Bytes!vars
    PROVE  Agreed' /\ [Bytes!Promise!Next]_Bytes!Promise!vars
<1>1. CASE Bytes!Negotiating
  <2>1. Agreed' /\ Bytes!Promise!Next
    BY <1>1, GreetingStep, CredentialsStep, RequestStep, RecvEndsStep DEF Bytes!Negotiating
  <2> QED
    BY <2>1
<1>2. ASSUME NEW d \in Destination, NEW fresh \in Bytes!Fresh, NEW n \in 1 .. Len(Bytes!Datagram(d)),
             Bytes!RecvDatagram(d, n, fresh)
      PROVE  Agreed' /\ [Bytes!Promise!Next]_Bytes!Promise!vars
  BY <1>2, DatagramStep
<1>3. CASE Bytes!ClientSendsCredentials \/ Bytes!ClientSendsRequest
  BY <1>3, ClientSendsStep
<1>4. CASE Bytes!ClientLeaves
  BY <1>4, ClientLeavesStep
<1>5. CASE UNCHANGED Bytes!vars
  <2>1. UNCHANGED <<client, account, wire, sent, gone, whole, buf, stage, reply, target, exchanged>>
    BY <1>5 DEF Bytes!vars, Bytes!config
  <2>2. UNCHANGED <<Bytes!Greeting, Bytes!Credentials, Bytes!Request>>
    BY <2>1 DEF Bytes!Greeting, Bytes!Credentials, Bytes!Request
  <2>3. Bytes!Told' = Bytes!Told /\ Bytes!Phase' = Bytes!Phase
    BY <2>1, NothingTold, Phases
  <2> QED
    BY <2>1, <2>2, <2>3 DEF Agreed, AwaitsCredentials, AwaitsRequest, Bytes!Promise!vars
<1> QED
  BY <1>1, <1>2, <1>3, <1>4, <1>5 DEF Bytes!Next

\* NegotiationSpec: wherever TCP cuts the messages, whatever was in the buffer
\* before and at whatever point the client leaves, a client is served what it
\* asked for or refused, with whole messages only for a reason.
THEOREM ImplementsNegotiation ==
    ASSUME Bytes!HandshakeAssumption PROVE Bytes!Spec => Bytes!NegotiationSpec
<1>1. Bytes!Init => Agreed /\ Bytes!Promise!Init
  BY FirstMessage
<1>2. Agreed /\ [Bytes!Next]_Bytes!vars => Agreed' /\ [Bytes!Promise!Next]_Bytes!Promise!vars
  BY StepKeepsThePromise
<1> QED
  BY <1>1, <1>2, PTL DEF Bytes!Spec, Bytes!NegotiationSpec, Bytes!Promise!Spec

-----------------------------------------------------------------------------
\* What a client is served.  (Handshake leaves out auth-once, under which another
\* client of the same address may have proved itself: ServedAreAuthorized.)

ServedAsAsked ==
    /\ stage \in {"authed", "relaying", "associated"} /\ account # NoAccount
          => client.user = account.user /\ client.pass = account.pass
    /\ stage \in {"relaying", "associated"}
          => client.cmd \in {Bytes!CONNECT, Bytes!UDP_ASSOCIATE} /\ target = client.to
    /\ target # <<>> => target = client.to
    /\ exchanged # <<>> => exchanged.sent = exchanged.asked /\ exchanged.answered = exchanged.asked

\* The same of the contract.
PromiseKept ==
    /\ Bytes!Phase \in {"request", "connected", "associated"} /\ account # NoAccount
          => Bytes!Promise!Proves
    /\ Bytes!Phase \in {"connected", "associated"} => client.cmd \in {1, 3} /\ target = client.to
    /\ target # <<>> => target = client.to
    /\ exchanged # <<>> => exchanged.sent = exchanged.asked /\ exchanged.answered = exchanged.asked

\* However TCP cuts the messages and whatever was in the buffer: with a password
\* set nobody comes past the credentials who has not written it (clientthread,
\* SS_3_AUTHED), the address connected to is the one the request has, and each
\* datagram goes where its header says.
THEOREM ServiceIsAsAsked ==
    ASSUME Bytes!HandshakeAssumption PROVE Bytes!Spec => []ServedAsAsked
<1>1. Bytes!Promise!Init => PromiseKept
  BY DEF Bytes!Promise!Init, PromiseKept
<1>2. PromiseKept /\ [Bytes!Promise!Next]_Bytes!Promise!vars => PromiseKept'
  <2> SUFFICES ASSUME PromiseKept, [Bytes!Promise!Next]_Bytes!Promise!vars PROVE PromiseKept'
    OBVIOUS
  <2> USE DEF PromiseKept, Bytes!Promise!Proves
  <2>1. CASE UNCHANGED Bytes!Promise!vars
    BY <2>1 DEF Bytes!Promise!vars
  <2>2. CASE Bytes!Promise!Next
    <3>1. UNCHANGED <<client, account>>
      BY <2>2 DEF Bytes!Promise!Next
    <3>2. CASE Bytes!Promise!Agree
      BY <3>1, <3>2 DEF Bytes!Promise!Agree
    <3>3. CASE Bytes!Promise!Prove
      BY <3>1, <3>3 DEF Bytes!Promise!Prove
    <3>4. CASE Bytes!Promise!Serve
      BY <3>1, <3>4 DEF Bytes!Promise!Serve, Bytes!Promise!Asks
    <3>5. CASE Bytes!Promise!Refuse
      BY <3>1, <3>5 DEF Bytes!Promise!Refuse
    <3>6. CASE Bytes!Promise!Exchange
      BY <3>1, <3>6 DEF Bytes!Promise!Exchange
    <3>7. CASE UNCHANGED <<Bytes!Phase, target, exchanged>>
      BY <3>1, <3>7
    <3> QED
      BY <2>2, <3>2, <3>3, <3>4, <3>5, <3>6, <3>7 DEF Bytes!Promise!Next
  <2> QED
    BY <2>1, <2>2
<1>3. PromiseKept => ServedAsAsked
  BY DEF PromiseKept, ServedAsAsked, Bytes!Promise!Proves, Bytes!Phase, Bytes!CONNECT, Bytes!UDP_ASSOCIATE
<1>4. Bytes!Spec => Bytes!Promise!Init /\ [][Bytes!Promise!Next]_Bytes!Promise!vars
  BY ImplementsNegotiation DEF Bytes!NegotiationSpec, Bytes!Promise!Spec
<1> QED
  BY <1>1, <1>2, <1>3, <1>4, PTL
=============================================================================
