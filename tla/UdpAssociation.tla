--------------------------- MODULE UdpAssociation ---------------------------
(***************************************************************************)
(* One UDP ASSOCIATE session: copy_loop_udp of sockssrv.c, run by the      *)
(* client's thread from the moment the association has been answered.      *)
(*                                                                         *)
(* The thread keeps two parallel arrays, the poll set fds[2 ..] and the    *)
(* list sock_list, that must describe the same destination sockets.  It    *)
(* alternates between poll() and a pass over what poll reported.  Around   *)
(* it the kernel lets replies and ICMP errors arrive, hands out            *)
(* descriptors, and the client closes its TCP control connection.          *)
(*                                                                         *)
(* Abstracted: payloads and byte counters, the text of addresses, and the  *)
(* registered handler (it is set before the server starts).  fds[0] and    *)
(* fds[1] are not stored: what poll says of them decides the branch taken. *)
(* Interrupted calls (EINTR, EAGAIN) on poll and on the control connection *)
(* return to the same poll and are stuttering steps.                       *)
(***************************************************************************)
EXTENDS Naturals, Sequences

CONSTANTS
    Addr,        \* the destinations a client datagram can name
    Fd,          \* the descriptors the kernel can give to destination sockets
    NoAddr,      \* "this descriptor is not open"
    NoFd,        \* content of a slot of fds that was never used
    MaxPollFds,  \* UDP_MAX_POLL_FDS: the size of fds, control and client included
    MaxId        \* bound: identifiers an association may draw in the model

ASSUME UdpAssumption ==
    /\ NoAddr \notin Addr
    /\ NoFd \notin Fd
    /\ MaxPollFds \in Nat /\ MaxPollFds >= 2
    /\ MaxId \in Nat

VARIABLES
    pc,          \* where the thread is
    fds,         \* struct pollfd fds[UDP_MAX_POLL_FDS], from slot 2 on
    pollFds,     \* poll_fds: the number of slots in use, 2 included
    sockList,    \* sock_list
    udpIsBound,  \* udp_is_bound
    i,           \* the variable of the loop the thread is in
    final,       \* association_final_state
    nextId,      \* next_connection_identifier_value
    reported,    \* the last event emitted for each identifier
    peer,        \* kernel: the address each open destination socket is connected to
    net,         \* kernel: what is waiting on each destination socket
    ctl          \* the client's end of the control connection

threadVars == <<pc, fds, pollFds, sockList, udpIsBound, i, final, nextId, reported>>
vars == <<threadVars, peer, net, ctl>>

Ids == 1 .. MaxId
Slots == 2 .. MaxPollFds - 1
Live == 2 .. pollFds - 1               \* the slots handed to poll
Revent == {"in", "err"}                \* POLLIN; any of POLLERR, POLLNVAL, POLLHUP
Waiting == {"idle", "data", "fault"}
Item == [fd : Fd, id : Ids, addr : Addr]   \* struct fd_socks5addr

TypeOK ==
    /\ pc \in {"start", "poll", "client", "send", "sweep", "ending", "done", "aborted"}
    /\ fds \in [Slots -> [fd : Fd \cup {NoFd}, revents : SUBSET Revent]]
    /\ pollFds \in 2 .. MaxPollFds
    /\ sockList \in Seq(Item)
    /\ udpIsBound \in BOOLEAN
    /\ i \in Nat
    /\ final \in {"closed", "error"}
    /\ nextId \in 1 .. MaxId + 1
    /\ reported \in [Ids -> {"none", "open", "closed", "error"}]
    /\ peer \in [Fd -> Addr \cup {NoAddr}]
    /\ net \in [Fd -> Waiting]
    /\ ctl \in {"open", "eof"}

-----------------------------------------------------------------------------
\* The operations the loop is built from.

\* sblist_search by descriptor and by address: the first match, 0 for none
SearchByFd(fd) ==
    IF \E k \in DOMAIN sockList : sockList[k].fd = fd
    THEN CHOOSE k \in DOMAIN sockList :
            sockList[k].fd = fd /\ \A j \in 1 .. k - 1 : sockList[j].fd # fd
    ELSE 0

SearchByAddr(a) ==
    IF \E k \in DOMAIN sockList : sockList[k].addr = a
    THEN CHOOSE k \in DOMAIN sockList :
            sockList[k].addr = a /\ \A j \in 1 .. k - 1 : sockList[j].addr # a
    ELSE 0

\* sblist_delete: the items behind the deleted one move up
Deleted(list, k) ==
    [j \in 1 .. Len(list) - 1 |-> IF j < k THEN list[j] ELSE list[j + 1]]

\* mutant: the count shrinks, nothing moves
RemoveUdpPollfdInPlace(fd) ==
    /\ UNCHANGED fds
    /\ pollFds' = IF \E s \in Live : fds[s].fd = fd THEN pollFds - 1 ELSE pollFds

\* The entries behind the removed one move up with their revents; the last
\* slot keeps what it held.
RemoveUdpPollfd(fd) ==
    IF \E s \in Live : fds[s].fd = fd
    THEN LET at == CHOOSE s \in Live : fds[s].fd = fd /\ \A r \in 2 .. s - 1 : fds[r].fd # fd
         IN /\ fds' = [s \in Slots |-> IF s >= at /\ s + 1 < pollFds THEN fds[s + 1] ELSE fds[s]]
            /\ pollFds' = pollFds - 1
    ELSE UNCHANGED <<fds, pollFds>>

Emit(id, state) == reported' = [reported EXCEPT ![id] = state]

CloseFds(S) ==
    /\ peer' = [f \in Fd |-> IF f \in S THEN NoAddr ELSE peer[f]]
    /\ net' = [f \in Fd |-> IF f \in S THEN "idle" ELSE net[f]]

\* mutant: the item is read through its place in the list after the deletion
CloseUdpDestinationReadLate(k, state) ==
    /\ CloseFds({sockList[k].fd})
    /\ RemoveUdpPollfd(sockList[k].fd)
    /\ sockList' = Deleted(sockList, k)
    /\ Emit(IF k < Len(sockList) THEN sockList[k + 1].id ELSE sockList[k].id, state)

CloseUdpDestination(k, state) ==
    /\ CloseFds({sockList[k].fd})
    /\ RemoveUdpPollfd(sockList[k].fd)
    /\ sockList' = Deleted(sockList, k)
    /\ Emit(sockList[k].id, state)

\* goto UDP_LOOP_END
EndAssociation(state) ==
    /\ pc' = "ending"
    /\ final' = state
    /\ i' = 1
    /\ UNCHANGED <<fds, pollFds, sockList, udpIsBound, nextId, reported, peer, net, ctl>>

GotoPoll == pc' = "poll"
GotoSweep == pc' = "sweep" /\ i' = 2

-----------------------------------------------------------------------------
Init ==
    /\ pc = "start"
    /\ fds = [s \in Slots |-> [fd |-> NoFd, revents |-> {}]]
    /\ pollFds = 2
    /\ sockList = <<>>
    /\ udpIsBound \in BOOLEAN
    /\ i = 0
    /\ final = "closed"
    /\ nextId = 1
    /\ reported = [id \in Ids |-> "none"]
    /\ peer = [f \in Fd |-> NoAddr]
    /\ net = [f \in Fd |-> "idle"]
    /\ ctl \in {"open", "eof"}

\* getpeername succeeds or fails with ENOTCONN (udpIsBound says which), and
\* the buffer and the list are allocated
Start ==
    /\ pc = "start"
    /\ GotoPoll
    /\ UNCHANGED <<fds, pollFds, sockList, udpIsBound, i, final, nextId, reported, peer, net, ctl>>

StartOutOfMemory ==
    /\ pc = "start"
    /\ EndAssociation("error")

\* getpeername fails in any other way
StartAborts ==
    /\ pc = "start"
    /\ pc' = "aborted"
    /\ UNCHANGED <<fds, pollFds, sockList, udpIsBound, i, final, nextId, reported, peer, net, ctl>>

-----------------------------------------------------------------------------
\* poll() and the two control descriptors

\* fifteen minutes without anything to report
PollTimesOut ==
    /\ pc = "poll"
    /\ ctl = "open"
    /\ \A s \in Live : net[fds[s].fd] = "idle"
    /\ EndAssociation("closed")

\* the client closed the control connection: POLLHUP, or read returns 0
ControlCloses ==
    /\ pc = "poll"
    /\ ctl = "eof"
    /\ EndAssociation("closed")

\* poll fails, reports an error on fds[0] or fds[1], or the control
\* connection cannot be read or carries data
ControlFails ==
    /\ pc = "poll"
    /\ EndAssociation("error")

\* What poll may report for a destination socket: a pending socket error is
\* an error condition, readiness for reading, or both.
Report(waiting) ==
    CASE waiting = "idle" -> {{}}
      [] waiting = "data" -> {{"in"}}
      [] waiting = "fault" -> {{"err"}, {"in"}, {"err", "in"}}

\* poll returns with nothing on the control connection; it rewrites revents
\* of the slots it was given and of no other
PollReports ==
    /\ pc = "poll"
    /\ ctl = "open"
    /\ \E r \in [Live -> SUBSET Revent] :
        /\ \A s \in Live : r[s] \in Report(net[fds[s].fd])
        /\ fds' = [s \in Slots |-> IF s \in Live THEN [fds[s] EXCEPT !.revents = r[s]] ELSE fds[s]]
        /\ \/ pc' = "client" /\ i' = i
           \/ (\E s \in Live : r[s] # {}) /\ GotoSweep
    /\ UNCHANGED <<pollFds, sockList, udpIsBound, final, nextId, reported, peer, net, ctl>>

-----------------------------------------------------------------------------
\* A datagram from the client

\* recv is interrupted
ClientInterrupted ==
    /\ pc = "client"
    /\ GotoPoll
    /\ UNCHANGED <<fds, pollFds, sockList, udpIsBound, i, final, nextId, reported, peer, net, ctl>>

\* recv fails, the first sender cannot be connected to, or the header is malformed
ClientFails ==
    /\ pc = "client"
    /\ EndAssociation("error")

\* a datagram for a destination that already has a socket
ClientSendsToKnown(a) ==
    /\ pc = "client"
    /\ SearchByAddr(a) # 0
    /\ udpIsBound' = TRUE
    /\ pc' = "send"
    /\ i' = SearchByAddr(a)
    /\ UNCHANGED <<fds, pollFds, sockList, final, nextId, reported, peer, net, ctl>>

\* a datagram for a new destination whose socket cannot be had: the name does
\* not resolve, socket or connect fails, fds is full, or the list cannot grow
ClientSendsToUnreachable(a) ==
    /\ pc = "client"
    /\ SearchByAddr(a) = 0
    /\ nextId <= MaxId
    /\ udpIsBound' = TRUE
    /\ Emit(nextId, "error")
    /\ nextId' = nextId + 1
    /\ GotoPoll
    /\ UNCHANGED <<fds, pollFds, sockList, i, final, peer, net, ctl>>

\* The next slot of fds gets the descriptor and the events asked for; its
\* revents are left as they are.
AddPollfd(fd) ==
    /\ fds' = [fds EXCEPT ![pollFds].fd = fd]
    /\ pollFds' = pollFds + 1

\* mutant: the size of fds is not looked at
ClientSendsToNewUnbounded(a, fd) ==
    /\ pc = "client"
    /\ SearchByAddr(a) = 0
    /\ peer[fd] = NoAddr
    /\ nextId <= MaxId
    /\ udpIsBound' = TRUE
    /\ peer' = [peer EXCEPT ![fd] = a]
    /\ nextId' = nextId + 1
    /\ sockList' = Append(sockList, [fd |-> fd, id |-> nextId, addr |-> a])
    /\ AddPollfd(fd)
    /\ Emit(nextId, "open")
    /\ pc' = "send"
    /\ i' = Len(sockList) + 1
    /\ UNCHANGED <<final, net, ctl>>

\* mutant: the list is not searched first
ClientSendsToNewUnsearched(a, fd) ==
    /\ pc = "client"
    /\ peer[fd] = NoAddr
    /\ pollFds < MaxPollFds
    /\ nextId <= MaxId
    /\ udpIsBound' = TRUE
    /\ peer' = [peer EXCEPT ![fd] = a]
    /\ nextId' = nextId + 1
    /\ sockList' = Append(sockList, [fd |-> fd, id |-> nextId, addr |-> a])
    /\ AddPollfd(fd)
    /\ Emit(nextId, "open")
    /\ pc' = "send"
    /\ i' = Len(sockList) + 1
    /\ UNCHANGED <<final, net, ctl>>

\* a datagram for a new destination: a connected socket, known to both arrays
ClientSendsToNew(a, fd) ==
    /\ pc = "client"
    /\ SearchByAddr(a) = 0
    /\ peer[fd] = NoAddr
    /\ pollFds < MaxPollFds
    /\ nextId <= MaxId
    /\ udpIsBound' = TRUE
    /\ peer' = [peer EXCEPT ![fd] = a]
    /\ nextId' = nextId + 1
    /\ sockList' = Append(sockList, [fd |-> fd, id |-> nextId, addr |-> a])
    /\ AddPollfd(fd)
    /\ Emit(nextId, "open")
    /\ pc' = "send"
    /\ i' = Len(sockList) + 1
    /\ UNCHANGED <<final, net, ctl>>

SendSucceeds ==
    /\ pc = "send"
    /\ GotoSweep
    /\ UNCHANGED <<fds, pollFds, sockList, udpIsBound, final, nextId, reported, peer, net, ctl>>

\* mutant: the event is sent and the socket closed, the item stays
SendFailsKeepsItem ==
    /\ pc = "send"
    /\ CloseFds({sockList[i].fd})
    /\ Emit(sockList[i].id, "error")
    /\ GotoPoll
    /\ UNCHANGED <<fds, pollFds, sockList, udpIsBound, i, final, nextId, ctl>>

SendFails ==
    /\ pc = "send"
    /\ CloseUdpDestination(i, "error")
    /\ GotoPoll
    /\ UNCHANGED <<udpIsBound, i, final, nextId, ctl>>

-----------------------------------------------------------------------------
\* The pass over the destination sockets.  Slot i holds the descriptor, Found
\* is the place of its item in the list.

Found == SearchByFd(fds[i].fd)
Sweeping == pc = "sweep" /\ i < pollFds

SweepEnds ==
    /\ pc = "sweep"
    /\ i >= pollFds
    /\ GotoPoll
    /\ UNCHANGED <<fds, pollFds, sockList, udpIsBound, i, final, nextId, reported, peer, net, ctl>>

\* mutant: the i-- of the neighbouring branches is here as well
SweepSkipsAgain ==
    /\ Sweeping
    /\ Found # 0
    /\ fds[i].revents = {}
    /\ UNCHANGED vars

SweepSkips ==
    /\ Sweeping
    /\ Found # 0
    /\ fds[i].revents = {}
    /\ i' = i + 1
    /\ UNCHANGED <<pc, fds, pollFds, sockList, udpIsBound, final, nextId, reported, peer, net, ctl>>

\* mutant: the i-- is missing
SweepDropsMovesOn ==
    /\ Sweeping
    /\ Found # 0
    /\ \/ "err" \in fds[i].revents
       \/ "in" \in fds[i].revents /\ net[fds[i].fd] = "fault"
    /\ CloseUdpDestination(Found, "error")
    /\ i' = i + 1
    /\ UNCHANGED <<pc, udpIsBound, final, nextId, ctl>>

\* poll reported an error, or the read fails: the destination is dropped and
\* the slot that moved up is looked at next
SweepDrops ==
    /\ Sweeping
    /\ Found # 0
    /\ \/ "err" \in fds[i].revents
       \/ "in" \in fds[i].revents /\ net[fds[i].fd] = "fault"
    /\ CloseUdpDestination(Found, "error")
    /\ UNCHANGED <<pc, udpIsBound, i, final, nextId, ctl>>

\* The socket is blocking: recv returns when something is waiting, and there
\* is no such step while nothing is.
Readable == fds[i].revents = {"in"} /\ net[fds[i].fd] = "data"

SweepForwards ==
    /\ Sweeping
    /\ Found # 0
    /\ Readable
    /\ \E more \in {"idle", "data"} : net' = [net EXCEPT ![fds[i].fd] = more]
    /\ i' = i + 1
    /\ UNCHANGED <<pc, fds, pollFds, sockList, udpIsBound, final, nextId, reported, peer, ctl>>

\* the descriptor is not in the list, or the reply cannot be written to the client
SweepFails ==
    /\ Sweeping
    /\ Found # 0 => Readable
    /\ EndAssociation("error")

-----------------------------------------------------------------------------
\* UDP_LOOP_END: one event per item, then the descriptors of the poll set

EndReports ==
    /\ pc = "ending"
    /\ i <= Len(sockList)
    /\ Emit(sockList[i].id, final)
    /\ i' = i + 1
    /\ UNCHANGED <<pc, fds, pollFds, sockList, udpIsBound, final, nextId, peer, net, ctl>>

\* mutant: the loop stops one short of the last descriptor
EndClosesOneShort ==
    /\ pc = "ending"
    /\ i > Len(sockList)
    /\ CloseFds({fds[s].fd : s \in 2 .. pollFds - 2})
    /\ sockList' = <<>>
    /\ pc' = "done"
    /\ UNCHANGED <<fds, pollFds, udpIsBound, i, final, nextId, reported, ctl>>

EndCloses ==
    /\ pc = "ending"
    /\ i > Len(sockList)
    /\ CloseFds({fds[s].fd : s \in Live})
    /\ sockList' = <<>>
    /\ pc' = "done"
    /\ UNCHANGED <<fds, pollFds, udpIsBound, i, final, nextId, reported, ctl>>

-----------------------------------------------------------------------------
\* Around the thread

ReplyArrives(fd) ==
    /\ peer[fd] # NoAddr
    /\ net[fd] = "idle"
    /\ net' = [net EXCEPT ![fd] = "data"]
    /\ UNCHANGED <<threadVars, peer, ctl>>

IcmpErrorArrives(fd) ==
    /\ peer[fd] # NoAddr
    /\ net[fd] # "fault"
    /\ net' = [net EXCEPT ![fd] = "fault"]
    /\ UNCHANGED <<threadVars, peer, ctl>>

ClientClosesControl ==
    /\ ctl = "open"
    /\ ctl' = "eof"
    /\ UNCHANGED <<threadVars, peer, net>>

-----------------------------------------------------------------------------
Starting == Start \/ StartOutOfMemory \/ StartAborts
Polling == PollTimesOut \/ ControlCloses \/ ControlFails \/ PollReports

Forwarding ==
    \/ ClientInterrupted
    \/ ClientFails
    \/ \E a \in Addr :
        \/ ClientSendsToKnown(a)
        \/ ClientSendsToUnreachable(a)
        \/ \E fd \in Fd : ClientSendsToNew(a, fd)
    \/ SendSucceeds
    \/ SendFails

Sweep == SweepEnds \/ SweepSkips \/ SweepDrops \/ SweepForwards \/ SweepFails
Ending == EndReports \/ EndCloses

Thread == Starting \/ Polling \/ Forwarding \/ Sweep \/ Ending

Kernel == \E fd \in Fd : ReplyArrives(fd) \/ IcmpErrorArrives(fd)

\* the association is over; nothing is left to do
Terminated == pc \in {"done", "aborted"} /\ UNCHANGED vars

Next == Thread \/ Kernel \/ ClientClosesControl \/ Terminated

Spec == Init /\ [][Next]_vars

\* The thread keeps running; nothing is assumed of clients and destinations.
FairSpec == Spec /\ WF_vars(Thread)

\* In addition every destination that has a socket answers in the end.
AnsweringSpec == FairSpec /\ \A fd \in Fd : WF_vars(ReplyArrives(fd))

-----------------------------------------------------------------------------
Items == {sockList[k] : k \in DOMAIN sockList}
Open(fd) == peer[fd] # NoAddr

\* The poll set and the list describe the same sockets in the same order, so
\* the search the pass makes for the descriptor of a slot always succeeds and
\* send_idx names the socket just added (remove_udp_pollfd, sblist_delete).
PollSetMatchesList ==
    pc # "done" =>
        /\ Len(sockList) = pollFds - 2
        /\ \A k \in DOMAIN sockList : fds[k + 1].fd = sockList[k].fd

\* Every descriptor the association opened is the descriptor of exactly one
\* item, connected to the address of that item; once the thread has left the
\* function none is open any more.
NoSocketIsLost ==
    /\ \A k \in DOMAIN sockList : peer[sockList[k].fd] = sockList[k].addr
    /\ \A fd \in Fd : Open(fd) => \E k \in DOMAIN sockList : sockList[k].fd = fd
    /\ \A k, j \in DOMAIN sockList : sockList[k].fd = sockList[j].fd => k = j

\* A destination has one socket however often sockets to it failed and were
\* opened again, and replies are only read once the client's own address is
\* known (udp_is_bound).
OneSocketPerDestination ==
    /\ \A k, j \in DOMAIN sockList : sockList[k].addr = sockList[j].addr => k = j
    /\ sockList # <<>> => udpIsBound

\* Descriptors, items and destinations correspond one to one.
SocketsMatchDestinations == NoSocketIsLost /\ OneSocketPerDestination

\* An identifier is last reported open exactly while its item is in the list;
\* the closing loop has ended those it has passed.  Identifiers not drawn yet
\* have no event.
ReportsMatchList ==
    /\ \A k, j \in DOMAIN sockList : sockList[k].id = sockList[j].id => k = j
    /\ \A k \in DOMAIN sockList :
            /\ sockList[k].id < nextId
            /\ reported[sockList[k].id] = IF pc = "ending" /\ k < i THEN final ELSE "open"
    /\ \A id \in Ids :
            /\ reported[id] = "open" => \E k \in DOMAIN sockList : sockList[k].id = id
            /\ id >= nextId => reported[id] = "none"

\* A destination for which poll reported an error is dropped in the same pass:
\* no slot the pass has gone by carries an error, although dropping one moves
\* the others into the slots behind the index (the i-- of the three branches).
ErrorsAreNotPassedOver ==
    pc = "sweep" => \A s \in Live : s < i => "err" \notin fds[s].revents

\* The events of an association follow the contract of the event handler: one
\* open, then at most one terminal event, or a single error.
Lifecycle == INSTANCE ConnectionLifecycle
LifecycleSpec == Lifecycle!Spec

\* When the client has closed its control connection the association ends and
\* every connection it reported open is reported ended.
AssociationEnds ==
    ctl = "eof" ~> pc \in {"done", "aborted"} /\ \A id \in Ids : reported[id] # "open"

=============================================================================
