----------------------------- MODULE WireFormat -----------------------------
(***************************************************************************)
(* The messages of SOCKS5 as sockssrv.c reads and writes them: byte by     *)
(* byte from a buffer b, numbered from 0 as in C, of which the last recv   *)
(* wrote the first n cells.  What is behind them is left from before; only *)
(* the tests of n keep the functions from reading it.                      *)
(***************************************************************************)
EXTENDS Integers, Sequences, FiniteSetsExt

IPV4 == 1
DNS == 3
IPV6 == 4
CONNECT == 1
UDP_ASSOCIATE == 3
AM_NO_AUTH == 0
AM_USERNAME == 2
AM_INVALID == 255
EC_SUCCESS == 0
EC_GENERAL_FAILURE == 1
EC_NOT_ALLOWED == 2

Slice(b, from, len) == [k \in 1 .. len |-> b[from + k - 1]]

\* what the string functions see of an array
CString(s) ==
    LET zeros == {k \in DOMAIN s : s[k] = 0}
    IN IF zeros = {} THEN s ELSE SubSeq(s, 1, Min(zeros) - 1)

\* check_auth_method; without a user nothing needs to be proved
CheckAuthMethod(b, n, needed) ==
    LET method == IF needed THEN AM_USERNAME ELSE AM_NO_AUTH
    IN IF /\ b[0] = 5 /\ n >= 2
          /\ \E k \in 2 .. n - 1 : k < 2 + b[1] /\ b[k] = method
       THEN method ELSE AM_INVALID

CheckCredentials(b, n, account) ==
    IF \/ n < 5 \/ b[0] # 1
       \/ n < 2 + b[1] + 2
       \/ n < 2 + b[1] + 1 + b[2 + b[1]]
    THEN EC_GENERAL_FAILURE
    ELSE IF /\ CString(Slice(b, 2, b[1])) = account.user
            /\ CString(Slice(b, 3 + b[1], b[2 + b[1]])) = account.pass
         THEN EC_SUCCESS ELSE EC_NOT_ALLOWED

\* an address, and how many bytes it took; -1 for one that is malformed
Malformed == [type |-> 0, host |-> <<>>, port |-> 0, len |-> -1]

\* the bytes of the host, with the length of a name before them
HostSize(b, at) ==
    CASE b[at] = IPV4 -> 4
      [] b[at] = IPV6 -> 16
      [] b[at] = DNS -> 1 + b[at + 1]
      [] OTHER -> 0

Addrport(b, at) ==
    LET minlen == 1 + HostSize(b, at) + 2
    IN [type |-> b[at],
        host |-> IF b[at] = DNS THEN CString(Slice(b, at + 2, b[at + 1]))
                 ELSE Slice(b, at + 1, HostSize(b, at)),
        port |-> b[at + minlen - 2] * 256 + b[at + minlen - 1],
        len |-> minlen]

\* mutant: the length of what was received is not compared
ParseAddrportUnchecked(b, at, n) ==
    IF n < 2 \/ HostSize(b, at) = 0 THEN Malformed ELSE Addrport(b, at)

\* inet_ntop writes each address in one way, so the bytes stand for the text
ParseAddrport(b, at, n) ==
    IF n < 2 \/ HostSize(b, at) = 0 \/ n < 1 + HostSize(b, at) + 2
    THEN Malformed ELSE Addrport(b, at)

\* parse_socks_request_header before the address is resolved
ParseRequest(b, n) ==
    IF n < 3 \/ b[0] # 5 \/ b[1] \notin {CONNECT, UDP_ASSOCIATE} \/ b[2] # 0
    THEN [cmd |-> 0, to |-> Malformed]
    ELSE [cmd |-> b[1], to |-> ParseAddrport(b, 3, n - 3)]

\* len is the place of the payload
ExtractUdpData(b, n) ==
    LET a == ParseAddrport(b, 3, n - 3)
    IN IF n < 3 \/ (\E k \in 0 .. 2 : b[k] # 0) \/ a.len < 0
       THEN Malformed ELSE [a EXCEPT !.len = 3 + @]

Port(p) == <<p \div 256, p % 256>>

\* the header in front of a datagram from a destination
UdpHeader(a) ==
    <<0, 0, 0, a.type>> \o (IF a.type = DNS THEN <<Len(a.host)>> \o a.host ELSE a.host)
    \o Port(a.port)

\* send_response
Response(type, host, port) == <<5, EC_SUCCESS, 0, type>> \o host \o Port(port)
=============================================================================
