----------------------------- MODULE Handshake -----------------------------
(***************************************************************************)
(* One control connection of clientthread at the level of bytes, up to the *)
(* point where the request is served, and the datagrams of an association. *)
(* TCP may hand a message over in pieces; each recv is taken for a whole   *)
(* message, and all go into the same buffer.  The client follows RFC 1928: *)
(* it sends a message when it has the answer to the one before.            *)
(*                                                                         *)
(* Abstracted: the auth-once list (ClientSession), the outcome of connect, *)
(* which is success for an address that resolves, and the relay itself.    *)
(***************************************************************************)
EXTENDS WireFormat

CONSTANTS
    Clients,         \* sessions clients may want: offer, user, pass, cmd, to
    Account, NoAccount,
    Names,           \* the names that resolve, with their addresses
    Destination,     \* destinations of datagrams
    Here,            \* our address as sockets see it, by type
    RelayPort,
    Leftover,        \* bytes a new buffer may be filled with
    BufSize          \* bound: cells of a buffer

Byte == {x \in Nat : x < 256}
PortNumber == {p \in Nat : p < 65536}
Text == {s \in Seq(Byte \ {0}) : s # <<>> /\ Len(s) < 256}
Addresses ==
    LET Of(type, hosts) == [type : {type}, host : hosts, port : PortNumber]
    IN Of(IPV4, [1 .. 4 -> Byte]) \cup Of(IPV6, [1 .. 16 -> Byte]) \cup Of(DNS, Text)

\* Clients write what RFC 1928 and RFC 1929 have them write, in messages that
\* fit the buffer.  The rest of a greeting that came in pieces is read as the
\* next message: no method a client offers may be the version of the request
\* (5), nor that of the credentials (1) if it can be asked for those.
ASSUME HandshakeAssumption ==
    /\ NoAccount # Account
    /\ BufSize \in Nat
    /\ \A c \in Clients :
        /\ c.offer \in Seq(Byte \ {5}) /\ Len(c.offer) <= 255 /\ 2 + Len(c.offer) <= BufSize
        /\ ~\E j, k \in DOMAIN c.offer : c.offer[j] = 1 /\ c.offer[k] = AM_USERNAME
        /\ c.user \in Text /\ c.pass \in Text /\ 3 + Len(c.user) + Len(c.pass) <= BufSize
        /\ c.cmd \in Byte /\ c.to \in Addresses /\ 7 + Len(c.to.host) <= BufSize
    /\ \A d \in Destination : d \in Addresses /\ 8 + Len(d.host) <= BufSize
    /\ \A type \in {IPV4, IPV6} : Here[type] \in Seq(Byte)

VARIABLES
    client, account,   \* who asks; auth_user and auth_pass
    wire,              \* bytes under way to the server
    sent,              \* the last message the client has sent
    gone,              \* the client has closed its end
    whole,             \* history: every message has arrived in one piece
    buf, state, reply, \* of clientthread; reply is what the client has not read
    target,            \* requested_addr
    exchanged          \* the last datagram, where it went, who answered

config == <<client, account>>
vars == <<config, wire, sent, gone, whole, buf, state, reply, target, exchanged>>

Address(a) == [type |-> a.type, host |-> a.host, port |-> a.port]

\* resolve_tcp, resolve_udp: the first address getaddrinfo finds, or none
Lookup(a) ==
    CASE a.type # DNS -> [type |-> a.type, host |-> a.host]
      [] a.type = DNS /\ a.host \in DOMAIN Names -> [type |-> IPV4, host |-> Names[a.host]]
      [] OTHER -> <<>>

\* resolveSocks5Addrport of an address that parsed; <<>> when it fails
Resolve(a) == IF a.len < 0 THEN <<>> ELSE Lookup(a)

\* what the client writes
Encode(a) ==
    <<a.type>> \o (IF a.type = DNS THEN <<Len(a.host)>> ELSE <<>>) \o a.host \o Port(a.port)
Greeting == <<5, Len(client.offer)>> \o client.offer
Credentials ==
    <<1, Len(client.user)>> \o client.user \o <<Len(client.pass)>> \o client.pass
Request == <<5, client.cmd, 0>> \o Encode(client.to)
Payload == <<7>>
Datagram(d) == <<0, 0, 0>> \o Encode(d) \o Payload

Fresh == {[k \in 0 .. BufSize - 1 |-> x] : x \in Leftover}
Overwritten(b, bytes) == [k \in DOMAIN b |-> IF k < Len(bytes) THEN bytes[k + 1] ELSE b[k]]

Init ==
    /\ client \in Clients
    /\ account \in {Account, NoAccount}
    /\ wire = Greeting
    /\ sent = "greeting"
    /\ gone = FALSE
    /\ whole = TRUE
    /\ buf \in Fresh
    /\ state = "connected"
    /\ reply = <<>>
    /\ target = <<>>
    /\ exchanged = <<>>

-----------------------------------------------------------------------------
\* clientthread

\* recv returns n bytes
Recv(n) ==
    /\ n \in 1 .. Len(wire)
    /\ wire' = SubSeq(wire, n + 1, Len(wire))
    /\ buf' = Overwritten(buf, SubSeq(wire, 1, n))
    /\ whole' = (whole /\ n = Len(wire))
    /\ UNCHANGED <<config, sent, gone>>

\* mutant: only a request for credentials is sent
RecvGreetingSilent(n) ==
    /\ state = "connected"
    /\ Recv(n)
    /\ LET method == CheckAuthMethod(buf', n, account # NoAccount)
       IN /\ reply' = IF method = AM_NO_AUTH THEN <<>> ELSE <<5, method>>
          /\ state' = CASE method = AM_NO_AUTH -> "authed"
                        [] method = AM_USERNAME -> "needAuth"
                        [] method = AM_INVALID -> "closed"
    /\ UNCHANGED <<target, exchanged>>

RecvGreeting(n) ==
    /\ state = "connected"
    /\ Recv(n)
    /\ LET method == CheckAuthMethod(buf', n, account # NoAccount)
       IN /\ reply' = <<5, method>>
          /\ state' = CASE method = AM_NO_AUTH -> "authed"
                        [] method = AM_USERNAME -> "needAuth"
                        [] method = AM_INVALID -> "closed"
    /\ UNCHANGED <<target, exchanged>>

RecvCredentials(n) ==
    /\ state = "needAuth"
    /\ Recv(n)
    /\ LET ret == CheckCredentials(buf', n, account)
       IN /\ reply' = <<1, ret>>
          /\ state' = IF ret = EC_SUCCESS THEN "authed" ELSE "closed"
    /\ UNCHANGED <<target, exchanged>>

Unspecified(host) == \A k \in DOMAIN host : host[k] = 0

\* udp_svc_setup and getsockname: a socket connected to an address has ours, one
\* that is only bound has none; then the one the control connection came in on
\* (an IPv4 address) takes its place
UdpResponseHost(to) ==
    LET own == IF Unspecified(to.host) THEN to.host ELSE Here[to.type]
    IN IF Unspecified(own) /\ to.type = IPV4 THEN Here[IPV4] ELSE own

\* a request that does not parse or resolve ends the session without a reply
RecvRequest(n) ==
    /\ state = "authed"
    /\ Recv(n)
    /\ LET request == ParseRequest(buf', n)
           to == Resolve(request.to)
       IN IF to = <<>>
          THEN state' = "closed" /\ UNCHANGED <<reply, target>>
          ELSE /\ state' = IF request.cmd = CONNECT THEN "relaying" ELSE "associated"
               /\ reply' = IF request.cmd = CONNECT
                           THEN Response(to.type, Here[to.type], RelayPort)
                           ELSE Response(to.type, UdpResponseHost(to), RelayPort)
               /\ target' = Address(request.to)
    /\ UNCHANGED exchanged

\* recv returns 0
RecvEnds ==
    /\ state \in {"connected", "needAuth", "authed"}
    /\ gone /\ wire = <<>>
    /\ state' = "closed"
    /\ UNCHANGED <<config, wire, sent, gone, whole, buf, reply, target, exchanged>>

\* A datagram of an association, or the beginning of one from a client that gets
\* it wrong.  copy_loop_udp has a buffer of its own, in which the answer of the
\* destination is put together as well.
RecvDatagram(d, n, fresh) ==
    /\ state = "associated"
    /\ n \in 1 .. Len(Datagram(d))
    /\ LET b == Overwritten(IF exchanged = <<>> THEN fresh ELSE buf, SubSeq(Datagram(d), 1, n))
           a == ExtractUdpData(b, n)
       IN IF a.len < 0
          THEN /\ state' = "closed" /\ buf' = b
               /\ whole' = (whole /\ n = Len(Datagram(d))) /\ UNCHANGED exchanged
          ELSE /\ LET answer == UdpHeader(a) \o Payload
                  IN /\ buf' = Overwritten(b, answer)
                     /\ exchanged' = [asked |-> d, sent |-> Address(a),
                                      answered |-> IF answer = Datagram(d) THEN d ELSE <<>>]
               /\ UNCHANGED <<state, whole>>
    /\ UNCHANGED <<config, wire, sent, gone, reply, target>>

-----------------------------------------------------------------------------
\* The client

ClientSends(message, bytes) ==
    /\ wire' = wire \o bytes
    /\ sent' = message
    /\ reply' = <<>>
    /\ UNCHANGED <<config, gone, whole, buf, state, target, exchanged>>

ClientSendsCredentials ==
    /\ ~gone /\ sent = "greeting" /\ reply = <<5, AM_USERNAME>>
    /\ ClientSends("credentials", Credentials)

ClientSendsRequest ==
    /\ ~gone /\ sent \in {"greeting", "credentials"} /\ reply # <<>> /\ reply[2] = 0
    /\ ClientSends("request", Request)

ClientLeaves ==
    /\ ~gone /\ state \in {"connected", "needAuth", "authed"}
    /\ gone' = TRUE
    /\ whole' = FALSE
    /\ UNCHANGED <<config, wire, sent, buf, state, reply, target, exchanged>>

-----------------------------------------------------------------------------
Negotiating ==
    (\E n \in 1 .. Len(wire) : RecvGreeting(n) \/ RecvCredentials(n) \/ RecvRequest(n)) \/ RecvEnds

Next ==
    \/ Negotiating
    \/ \E d \in Destination, fresh \in Fresh :
          \E n \in 1 .. Len(Datagram(d)) : RecvDatagram(d, n, fresh)
    \/ ClientSendsCredentials \/ ClientSendsRequest \/ ClientLeaves

Spec == Init /\ [][Next]_vars

\* the network delivers, and the client goes on once it has its answer
FairSpec ==
    /\ Spec
    /\ WF_vars(Negotiating) /\ WF_vars(ClientSendsCredentials \/ ClientSendsRequest)

-----------------------------------------------------------------------------
\* Wherever TCP cuts its messages, a client is served exactly the address it
\* asked for, once it has passed what the server wants, and otherwise refused;
\* with whole messages it is refused only for a reason.  The address it is told
\* is one it can send to, unless it asked for any IPv6 address over a control
\* connection of IPv4; a datagram goes where its header says and the answer
\* carries the header the client would have written.
Phase ==
    CASE state = "connected" -> "greeting"
      [] state = "needAuth" -> "credentials"
      [] state = "authed" -> "request"
      [] state = "relaying" -> "connected"
      [] state = "associated" -> "associated"
      [] state = "closed" -> "refused"
Told == IF target = <<>> THEN <<>> ELSE SubSeq(reply, 5, Len(reply) - 2)
HasAddress(a) == a.type # DNS \/ a.host \in DOMAIN Names
AddressesOf(c) ==
    LET type == IF c.to.type = DNS THEN IPV4 ELSE c.to.type
    IN {IF c.cmd = UDP_ASSOCIATE /\ type = IPV6 /\ Unspecified(c.to.host)
        THEN c.to.host ELSE Here[type]}
Promise == INSTANCE Negotiation WITH
    phase <- Phase, told <- Told, Resolvable <- HasAddress, RelayHosts <- AddressesOf
NegotiationSpec == Promise!Spec

\* Both sides never wait for each other: the session is served or closed,
\* however its messages are cut.
NegotiationEnds == <>(state \in {"relaying", "associated", "closed"})

=============================================================================
