---------------------------- MODULE MCHandshake ----------------------------
\* Handshake for TLC: sessions of real clients.  Every way to offer methods,
\* right and wrong passwords, addresses of each type, one of them a name
\* that does not resolve, and commands the server does and does not know.
EXTENDS Handshake

V4(last) == [type |-> IPV4, host |-> <<10, 0, 0, last>>, port |-> 443]
Unspecified4 == [type |-> IPV4, host |-> <<0, 0, 0, 0>>, port |-> 0]
V6(last) == [type |-> IPV6, host |-> <<32, 1, 13, 184, 0, 0, 0, 0, 0, 0, 0, 0, 0, 0, 0, last>>,
             port |-> 853]
Unspecified6 == [type |-> IPV6, host |-> [k \in 1 .. 16 |-> 0], port |-> 0]
Name(n) == [type |-> DNS, host |-> n, port |-> 80]
Known == <<97, 98, 99>>
Unknown == <<97, 100>>

Session(offer, pass, cmd, to) ==
    [offer |-> offer, user |-> <<117>>, pass |-> pass, cmd |-> cmd, to |-> to]
MCAccount == [user |-> <<117>>, pass |-> <<112, 119>>]
MCClients ==
    {Session(offer, <<112, 119>>, cmd, to) :
        offer \in {<<0>>, <<0, 2>>, <<2, 0>>},
        cmd \in {CONNECT, UDP_ASSOCIATE},
        to \in {V4(9), V6(9), Name(Known), Name(Unknown), Unspecified4, Unspecified6}}
    \cup {Session(<<2>>, pass, 2, V4(9)) : pass \in {<<112>>, <<112, 120>>, <<112, 119>>}}
    \cup {Session(<<1>>, <<112, 119>>, CONNECT, V4(9))}
MCNames == [n \in {Known} |-> <<10, 0, 0, 8>>]
MCDestination == {V4(9), V4(0), V6(9), Name(Known)}
MCHere == [type \in {IPV4, IPV6} |-> IF type = IPV4 THEN V4(1).host ELSE V6(1).host]
=============================================================================
