----------------------- MODULE UdpAssociation_proofs -----------------------
(***************************************************************************)
(* The safety properties of UdpAssociation for every set of destinations   *)
(* and descriptors and every size of the poll set.                         *)
(*                                                                         *)
(* The five properties support each other (that the poll set and the list  *)
(* agree is what makes the searches find the right item), and they need to *)
(* know where the thread is: which index it holds there, and that the list *)
(* is empty before the first poll and after the function is left.          *)
(***************************************************************************)
EXTENDS UdpAssociation, SequenceTheorems, TLAPS

\* The position of the thread and what it may rely on there.
ControlPoint ==
    /\ pc \in {"start", "done", "aborted"} => sockList = <<>>
    /\ pc = "send" => i \in DOMAIN sockList
    /\ pc = "sweep" => i >= 2
    /\ pc = "ending" => i >= 1
    /\ pc = "start" => final = "closed"

Inv ==
    /\ TypeOK
    /\ PollSetMatchesList
    /\ NoSocketIsLost
    /\ OneSocketPerDestination
    /\ ReportsMatchList
    /\ ControlPoint

-----------------------------------------------------------------------------
\* What sblist_delete does to a list.
LEMMA DeletedProperties ==
    ASSUME NEW S, NEW list \in Seq(S), NEW k \in DOMAIN list
    PROVE  /\ Deleted(list, k) \in Seq(S)
           /\ Len(Deleted(list, k)) = Len(list) - 1
           /\ DOMAIN Deleted(list, k) = 1 .. Len(list) - 1
           /\ \A j \in 1 .. Len(list) - 1 :
                Deleted(list, k)[j] = IF j < k THEN list[j] ELSE list[j + 1]
<1> DEFINE n == Len(list) - 1
           e(j) == IF j < k THEN list[j] ELSE list[j + 1]
<1>1. n \in Nat
  BY LenProperties
<1>2. \A j \in 1 .. n : e(j) \in S
  BY ElementOfSeq, LenProperties
<1>3. [j \in 1 .. n |-> e(j)] \in Seq(S)
  <2> HIDE DEF n, e
  <2> QED BY <1>1, <1>2, IsASeq
<1>4. Deleted(list, k) = [j \in 1 .. n |-> e(j)]
  BY DEF Deleted
<1> QED
  BY <1>1, <1>3, <1>4, LenProperties

\* The item of a descriptor in the list is found, wherever it is: in the
\* states of the invariant the first match is the only one.
LEMMA SearchFindsTheSocket ==
    ASSUME Inv, NEW k \in DOMAIN sockList
    PROVE  SearchByFd(sockList[k].fd) = k
<1>1. DOMAIN sockList \subseteq Nat /\ 0 \notin DOMAIN sockList
  BY LenProperties DEF Inv, TypeOK
<1>2. \A j \in DOMAIN sockList : sockList[j].fd = sockList[k].fd => j = k
  BY DEF Inv, NoSocketIsLost
<1>3. \A j \in 1 .. k - 1 : j \in DOMAIN sockList /\ j # k
  BY LenProperties DEF Inv, TypeOK
<1> QED
  BY <1>1, <1>2, <1>3 DEF SearchByFd

\* A slot the pass looks at holds the descriptor of the item one place
\* before it; so "UDP socket not found" is never reached.
LEMMA SlotHasItem ==
    ASSUME Inv, NEW s \in Live, pc # "done"
    PROVE  /\ s - 1 \in DOMAIN sockList
           /\ fds[s].fd = sockList[s - 1].fd
           /\ SearchByFd(fds[s].fd) = s - 1
<1>1. s \in 2 .. pollFds - 1 /\ pollFds \in Nat
  BY DEF Live, Inv, TypeOK
<1>2. DOMAIN sockList = 1 .. pollFds - 2
  BY LenProperties DEF Inv, TypeOK, PollSetMatchesList
<1>3. s - 1 \in DOMAIN sockList /\ fds[s].fd = sockList[s - 1].fd
  BY <1>1, <1>2 DEF Inv, PollSetMatchesList
<1> QED
  BY <1>3, SearchFindsTheSocket

\* remove_udp_pollfd moves the slots behind the one of item k up by one.
LEMMA RemovedSlot ==
    ASSUME Inv, pc # "done", NEW k \in DOMAIN sockList,
           RemoveUdpPollfd(sockList[k].fd)
    PROVE  /\ pollFds' = pollFds - 1
           /\ fds' = [s \in Slots |->
                        IF s >= k + 1 /\ s + 1 < pollFds THEN fds[s + 1] ELSE fds[s]]
<1> DEFINE fd == sockList[k].fd
           at == CHOOSE s \in Live : fds[s].fd = fd /\ \A r \in 2 .. s - 1 : fds[r].fd # fd
<1>1. k \in 1 .. pollFds - 2 /\ pollFds \in Nat
  BY LenProperties DEF Inv, TypeOK, PollSetMatchesList
<1>2. k + 1 \in Live /\ fds[k + 1].fd = fd
  BY <1>1 DEF Live, Inv, PollSetMatchesList
<1>3. ASSUME NEW s \in Live, fds[s].fd = fd
      PROVE  s = k + 1
  BY <1>3, <1>1, SlotHasItem DEF Live, Inv, NoSocketIsLost
<1>4. \A r \in 2 .. k : r \in Live /\ r # k + 1
  BY <1>1 DEF Live
<1>5. at = k + 1
  BY <1>1, <1>2, <1>3, <1>4
<1> QED
  BY <1>2, <1>5 DEF RemoveUdpPollfd

\* close_udp_destination takes one destination out of everything that knows
\* it, and leaves the invariant intact.
LEMMA CloseUdpDestinationKeepsInv ==
    ASSUME Inv, pc \in {"send", "sweep"}, NEW k \in DOMAIN sockList,
           CloseUdpDestination(k, "error"),
           UNCHANGED <<udpIsBound, i, final, nextId, ctl>>,
           pc' = "poll" \/ (pc' = "sweep" /\ pc = "sweep")
    PROVE  Inv'
<1> USE DEF Inv
<1> DEFINE n == Len(sockList) - 1
           old(j) == IF j < k THEN j ELSE j + 1     \* where item j was before
<1>1. /\ sockList \in Seq(Item)
      /\ sockList' = Deleted(sockList, k)
      /\ Len(sockList) = pollFds - 2
      /\ k \in 1 .. Len(sockList)
      /\ Len(sockList) \in Nat
      /\ DOMAIN sockList = 1 .. Len(sockList)
  BY LenProperties DEF TypeOK, PollSetMatchesList, CloseUdpDestination
<1>2. /\ sockList' \in Seq(Item)
      /\ Len(sockList') = n
      /\ DOMAIN sockList' = 1 .. n
      /\ \A j \in 1 .. n : sockList'[j] = sockList[old(j)]
  BY <1>1, DeletedProperties
<1>3. \A j \in 1 .. n : old(j) \in DOMAIN sockList /\ old(j) # k
  BY <1>1
<1>4. \A j, m \in 1 .. n : old(j) = old(m) => j = m
  BY <1>1
<1>5. \A m \in DOMAIN sockList : m # k => \E j \in 1 .. n : old(j) = m
  <2> SUFFICES ASSUME NEW m \in DOMAIN sockList, m # k
               PROVE  \E j \in 1 .. n : old(j) = m
    OBVIOUS
  <2>1. CASE m < k
    <3>1. m \in 1 .. n /\ old(m) = m
      BY <2>1, <1>1
    <3> QED BY <3>1
  <2>2. CASE m > k
    <3>1. m - 1 \in 1 .. n /\ old(m - 1) = m
      BY <2>2, <1>1
    <3> QED BY <3>1
  <2> QED BY <2>1, <2>2, <1>1
<1>6. /\ pollFds' = pollFds - 1
      /\ fds' = [s \in Slots |->
                   IF s >= k + 1 /\ s + 1 < pollFds THEN fds[s + 1] ELSE fds[s]]
  BY RemovedSlot DEF CloseUdpDestination
<1>7. /\ peer' = [f \in Fd |-> IF f = sockList[k].fd THEN NoAddr ELSE peer[f]]
      /\ net' = [f \in Fd |-> IF f = sockList[k].fd THEN "idle" ELSE net[f]]
      /\ reported' = [reported EXCEPT ![sockList[k].id] = "error"]
  BY DEF CloseUdpDestination, CloseFds, Emit
<1>8. \A m \in DOMAIN sockList : sockList[m] \in Item
  BY <1>1, ElementOfSeq
<1>9. TypeOK'
  <2>1. pollFds' \in 2 .. MaxPollFds
    BY <1>1, <1>6, UdpAssumption DEF TypeOK
  <2>2. fds' \in [Slots -> [fd : Fd \cup {NoFd}, revents : SUBSET Revent]]
    BY <1>1, <1>6, UdpAssumption DEF TypeOK, Slots
  <2>3. /\ peer' \in [Fd -> Addr \cup {NoAddr}]
        /\ net' \in [Fd -> Waiting]
        /\ reported' \in [Ids -> {"none", "open", "closed", "error"}]
    BY <1>7 DEF TypeOK, Waiting
  <2> QED
    BY <1>2, <2>1, <2>2, <2>3 DEF TypeOK
<1>10. PollSetMatchesList'
  <2>1. \A j \in 1 .. n : fds'[j + 1].fd = fds[old(j) + 1].fd
    BY <1>1, <1>6, UdpAssumption DEF TypeOK, Slots
  <2>2. \A j \in 1 .. n : fds[old(j) + 1].fd = sockList[old(j)].fd
    BY <1>1, <1>3 DEF PollSetMatchesList
  <2>3. \A j \in DOMAIN sockList' : fds'[j + 1].fd = sockList'[j].fd
    BY <1>2, <2>1, <2>2
  <2>4. Len(sockList') = pollFds' - 2
    BY <1>1, <1>2, <1>6 DEF TypeOK
  <2> QED
    BY <2>3, <2>4 DEF PollSetMatchesList
<1>11. NoSocketIsLost'
  <2>1. \A j \in 1 .. n : /\ sockList[old(j)].fd # sockList[k].fd
                          /\ sockList[old(j)].fd \in Fd
    BY <1>1, <1>3, <1>8 DEF NoSocketIsLost, Item
  <2>2. \A j \in 1 .. n : peer'[sockList'[j].fd] = sockList'[j].addr
    <3>1. \A j \in 1 .. n : peer'[sockList[old(j)].fd] = peer[sockList[old(j)].fd]
      BY <1>7, <2>1
    <3>2. \A j \in 1 .. n : peer[sockList[old(j)].fd] = sockList[old(j)].addr
      BY <1>3 DEF NoSocketIsLost
    <3> QED
      BY <1>2, <3>1, <3>2
  <2>3. ASSUME NEW fd \in Fd, Open(fd)'
        PROVE  \E j \in 1 .. n : sockList'[j].fd = fd
    <3>1. fd # sockList[k].fd /\ Open(fd)
      BY <2>3, <1>7 DEF Open
    <3>2. PICK m \in DOMAIN sockList : sockList[m].fd = fd
      BY <3>1 DEF NoSocketIsLost
    <3> QED
      BY <3>1, <3>2, <1>2, <1>5
  <2>4. \A j, m \in 1 .. n : sockList'[j].fd = sockList'[m].fd => j = m
    BY <1>2, <1>3, <1>4 DEF NoSocketIsLost
  <2> QED
    BY <1>2, <2>2, <2>3, <2>4 DEF NoSocketIsLost
<1>12. OneSocketPerDestination'
  <2>1. \A j, m \in 1 .. n : sockList'[j].addr = sockList'[m].addr => j = m
    BY <1>2, <1>3, <1>4 DEF OneSocketPerDestination
  <2>2. sockList # <<>>
    BY <1>1
  <2> QED
    BY <1>2, <2>1, <2>2 DEF OneSocketPerDestination
<1>13. ReportsMatchList'
  <2>1. \A j \in 1 .. n : /\ sockList[old(j)].id # sockList[k].id
                          /\ sockList[old(j)].id \in Ids
    BY <1>1, <1>3, <1>8 DEF ReportsMatchList, Item
  <2>2. \A j, m \in 1 .. n : sockList'[j].id = sockList'[m].id => j = m
    <3>1. \A p, q \in DOMAIN sockList : sockList[p].id = sockList[q].id => p = q
      BY DEF ReportsMatchList
    <3>2. \A j, m \in 1 .. n : sockList[old(j)].id = sockList[old(m)].id => j = m
      BY <3>1, <1>3, <1>4
    <3> QED
      BY <3>2, <1>2
  <2>3. \A j \in 1 .. n : sockList'[j].id < nextId' /\ reported'[sockList'[j].id] = "open"
    <3>1. \A m \in DOMAIN sockList : sockList[m].id < nextId /\ reported[sockList[m].id] = "open"
      BY DEF ReportsMatchList
    <3>2. \A id \in Ids : id # sockList[k].id => reported'[id] = reported[id]
      BY <1>7 DEF TypeOK
    <3>3. \A j \in 1 .. n : /\ sockList[old(j)].id < nextId
                            /\ reported'[sockList[old(j)].id] = "open"
      BY <3>1, <3>2, <1>3, <2>1
    <3> QED
      BY <3>3, <1>2
  <2>4. ASSUME NEW id \in Ids, reported'[id] = "open"
        PROVE  \E j \in 1 .. n : sockList'[j].id = id
    <3>1. id # sockList[k].id /\ reported[id] = "open"
      BY <2>4, <1>7 DEF TypeOK
    <3>2. PICK m \in DOMAIN sockList : sockList[m].id = id
      BY <3>1 DEF ReportsMatchList
    <3> QED
      BY <3>1, <3>2, <1>2, <1>5
  <2>5. \A id \in Ids : id >= nextId' => reported'[id] = "none"
    BY <1>1, <1>7, <1>8 DEF ReportsMatchList, TypeOK, Item, Ids
  <2> QED
    BY <1>2, <2>2, <2>3, <2>4, <2>5 DEF ReportsMatchList
<1>14. ControlPoint'
  BY DEF ControlPoint, TypeOK
<1> QED
  BY <1>9, <1>10, <1>11, <1>12, <1>13, <1>14

\* Steps of the thread that touch neither the list, the sockets nor the
\* events keep the invariant if they keep its types and the thread's position.
LEMMA QuietStepKeepsInv ==
    ASSUME Inv, TypeOK', ControlPoint',
           UNCHANGED <<pollFds, sockList, nextId, reported, peer>>,
           \A s \in Live : fds'[s].fd = fds[s].fd,
           udpIsBound => udpIsBound',
           pc \notin {"ending", "done"}, pc' # "done",
           pc' = "ending" => i' = 1
    PROVE  Inv'
<1> USE DEF Inv
<1>1. PollSetMatchesList'
  <2>1. \A k \in DOMAIN sockList : k + 1 \in Live
    BY LenProperties DEF PollSetMatchesList, TypeOK, Live
  <2> QED
    BY <2>1 DEF PollSetMatchesList
<1>2. NoSocketIsLost' /\ OneSocketPerDestination'
  BY DEF NoSocketIsLost, OneSocketPerDestination, Open
<1>3. ReportsMatchList'
  <2>1. \A k \in DOMAIN sockList : ~(pc' = "ending" /\ k < i')
    BY LenProperties DEF TypeOK
  <2>2. \A k \in DOMAIN sockList' : reported'[sockList'[k].id] = "open"
    BY DEF ReportsMatchList
  <2> QED
    BY <2>1, <2>2 DEF ReportsMatchList
<1> QED
  BY <1>1, <1>2, <1>3

\* Jumping to UDP_LOOP_END leaves the arrays alone, so the invariant holds there.
LEMMA EndAssociationKeepsInv ==
    ASSUME Inv, NEW state \in {"closed", "error"}, EndAssociation(state),
           pc \in {"start", "poll", "client", "sweep"}
    PROVE  Inv'
<1>1. TypeOK'
  BY DEF Inv, TypeOK, EndAssociation
<1>2. ControlPoint'
  BY DEF EndAssociation, ControlPoint
<1> QED
  BY <1>1, <1>2, QuietStepKeepsInv DEF EndAssociation

-----------------------------------------------------------------------------
\* copy_loop_udp starts with an empty list and nothing reported.
LEMMA InitEstablishesInv == Init => Inv
<1> SUFFICES ASSUME Init PROVE Inv
  OBVIOUS
<1>1. <<>> \in Seq(Item) /\ Len(<<>>) = 0 /\ DOMAIN <<>> = {}
  OBVIOUS
<1>2. TypeOK
  BY <1>1, UdpAssumption DEF Init, TypeOK, Waiting, Ids
<1>3. PollSetMatchesList /\ NoSocketIsLost /\ OneSocketPerDestination /\ ControlPoint
  BY <1>1, UdpAssumption
  DEF Init, PollSetMatchesList, NoSocketIsLost, OneSocketPerDestination, ControlPoint, Open
<1>4. ReportsMatchList
  BY <1>1 DEF Init, ReportsMatchList
<1> QED
  BY <1>2, <1>3, <1>4 DEF Inv

\* The setup of copy_loop_udp keeps the invariant.
LEMMA StartingKeepsInv == Inv /\ Starting => Inv'
<1> SUFFICES ASSUME Inv, Starting PROVE Inv'
  OBVIOUS
<1>1. CASE Start
  <2>1. TypeOK' /\ ControlPoint'
    BY <1>1 DEF Inv, TypeOK, ControlPoint, Start, GotoPoll
  <2> QED
    BY <1>1, <2>1, QuietStepKeepsInv DEF Start, GotoPoll
<1>2. CASE StartOutOfMemory
  BY <1>2, EndAssociationKeepsInv DEF StartOutOfMemory
<1>3. CASE StartAborts
  <2>1. TypeOK' /\ ControlPoint'
    BY <1>3 DEF Inv, TypeOK, ControlPoint, StartAborts
  <2> QED
    BY <1>3, <2>1, QuietStepKeepsInv DEF StartAborts
<1> QED
  BY <1>1, <1>2, <1>3 DEF Starting

\* Whatever poll returns and writes into revents, the invariant holds.
LEMMA PollingKeepsInv == Inv /\ Polling => Inv'
<1> SUFFICES ASSUME Inv, Polling PROVE Inv'
  OBVIOUS
<1>1. CASE PollTimesOut \/ ControlCloses \/ ControlFails
  BY <1>1, EndAssociationKeepsInv DEF PollTimesOut, ControlCloses, ControlFails
<1>2. CASE PollReports
  <2>1. PICK r \in [Live -> SUBSET Revent] :
          fds' = [s \in Slots |-> IF s \in Live THEN [fds[s] EXCEPT !.revents = r[s]] ELSE fds[s]]
    BY <1>2 DEF PollReports
  <2>2. Live \subseteq Slots
    BY UdpAssumption DEF Live, Slots, Inv, TypeOK
  <2>3. /\ fds' \in [Slots -> [fd : Fd \cup {NoFd}, revents : SUBSET Revent]]
        /\ \A s \in Live : fds'[s].fd = fds[s].fd
    BY <2>1, <2>2 DEF Inv, TypeOK
  <2>4. /\ pc = "poll"
        /\ (pc' = "client" /\ i' = i) \/ (pc' = "sweep" /\ i' = 2)
        /\ UNCHANGED <<pollFds, sockList, udpIsBound, final, nextId, reported, peer, net, ctl>>
    BY <1>2 DEF PollReports, GotoSweep
  <2>5. TypeOK'
    BY <2>3, <2>4 DEF Inv, TypeOK
  <2>6. ControlPoint'
    BY <2>4 DEF Inv, ControlPoint
  <2> QED
    BY <2>3, <2>4, <2>5, <2>6, QuietStepKeepsInv
<1> QED
  BY <1>1, <1>2 DEF Polling

\* A destination that could not be reached uses up an identifier and nothing else.
LEMMA UnreachableKeepsInv ==
    ASSUME Inv, NEW a \in Addr, ClientSendsToUnreachable(a) PROVE Inv'
<1> USE DEF Inv
<1>1. /\ pc = "client" /\ pc' = "poll"
      /\ udpIsBound' = TRUE
      /\ nextId \in Ids /\ nextId' = nextId + 1
      /\ reported' = [reported EXCEPT ![nextId] = "error"]
      /\ UNCHANGED <<fds, pollFds, sockList, i, final, peer, net, ctl>>
  BY DEF ClientSendsToUnreachable, Emit, GotoPoll, TypeOK, Ids
<1>2. TypeOK'
  BY <1>1, UdpAssumption DEF TypeOK, Ids
<1>3. PollSetMatchesList' /\ NoSocketIsLost' /\ OneSocketPerDestination' /\ ControlPoint'
  BY <1>1 DEF PollSetMatchesList, NoSocketIsLost, OneSocketPerDestination, ControlPoint, Open
<1>4. ReportsMatchList'
  <2>1. \A k \in DOMAIN sockList : sockList[k].id \in Ids
    <3>1. \A k \in DOMAIN sockList : sockList[k] \in Item
      BY ElementOfSeq, LenProperties DEF TypeOK
    <3> QED
      BY <3>1 DEF Item
  <2>2. \A id \in Ids : id # nextId => reported'[id] = reported[id]
    BY <1>1 DEF TypeOK
  <2>3. \A k \in DOMAIN sockList : sockList[k].id < nextId' /\ reported'[sockList[k].id] = "open"
    BY <1>1, <2>1, <2>2 DEF ReportsMatchList, Ids
  <2>4. \A id \in Ids :
          /\ reported'[id] = "open" => \E k \in DOMAIN sockList : sockList[k].id = id
          /\ id >= nextId' => reported'[id] = "none"
    BY <1>1, <2>2 DEF ReportsMatchList, Ids, TypeOK
  <2>5. \A k, j \in DOMAIN sockList : sockList[k].id = sockList[j].id => k = j
    BY DEF ReportsMatchList
  <2> QED
    BY <1>1, <2>3, <2>4, <2>5 DEF ReportsMatchList
<1> QED
  BY <1>2, <1>3, <1>4

\* A new destination is appended to both arrays, with a descriptor, an
\* address and an identifier none of the others has.
LEMMA NewDestinationKeepsInv ==
    ASSUME Inv, NEW a \in Addr, NEW fd \in Fd, ClientSendsToNew(a, fd) PROVE Inv'
<1> USE DEF Inv
<1> DEFINE n == Len(sockList)
           new == [fd |-> fd, id |-> nextId, addr |-> a]
<1>1. /\ pc = "client" /\ pc' = "send"
      /\ SearchByAddr(a) = 0 /\ peer[fd] = NoAddr /\ pollFds < MaxPollFds
      /\ nextId \in Ids /\ nextId' = nextId + 1
      /\ udpIsBound' = TRUE
      /\ peer' = [peer EXCEPT ![fd] = a]
      /\ sockList' = Append(sockList, new)
      /\ fds' = [fds EXCEPT ![pollFds].fd = fd]
      /\ pollFds' = pollFds + 1
      /\ reported' = [reported EXCEPT ![nextId] = "open"]
      /\ i' = n + 1
      /\ UNCHANGED <<final, net, ctl>>
  BY DEF ClientSendsToNew, AddPollfd, Emit, TypeOK, Ids
<1>2. /\ sockList \in Seq(Item) /\ n \in Nat /\ n = pollFds - 2
      /\ DOMAIN sockList = 1 .. n
      /\ new \in Item
  BY <1>1, LenProperties DEF TypeOK, PollSetMatchesList, Item
<1>3. /\ sockList' \in Seq(Item)
      /\ Len(sockList') = n + 1
      /\ DOMAIN sockList' = 1 .. n + 1
      /\ \A k \in 1 .. n : sockList'[k] = sockList[k]
      /\ sockList'[n + 1] = new
  <2> HIDE DEF new
  <2> QED
    BY <1>1, <1>2, AppendProperties, LenProperties
<1>4. \A k \in 1 .. n : sockList[k] \in Item
  BY <1>2, ElementOfSeq
<1>5. \A k \in 1 .. n : sockList[k].addr # a
  <2> SUFFICES ASSUME NEW k \in 1 .. n, sockList[k].addr = a PROVE FALSE
    OBVIOUS
  <2>1. \A m \in 1 .. n : sockList[m].addr = a => m = k
    BY <1>2 DEF OneSocketPerDestination
  <2>2. \A j \in 1 .. k - 1 : sockList[j].addr # a
    BY <2>1, <1>2
  <2>3. SearchByAddr(a) \in 1 .. n
    BY <2>2, <1>2 DEF SearchByAddr
  <2> QED
    BY <2>3, <1>1, <1>2
<1>6. \A k \in 1 .. n : sockList[k].fd # fd
  BY <1>1, <1>2, <1>4, UdpAssumption DEF NoSocketIsLost, Item
<1>7. \A k \in 1 .. n : sockList[k].id < nextId
  BY <1>2 DEF ReportsMatchList
<1>8. /\ fds[pollFds] \in [fd : Fd \cup {NoFd}, revents : SUBSET Revent]
      /\ pollFds \in Slots
      /\ \A s \in Slots : fds'[s] = IF s = pollFds THEN [fds[s] EXCEPT !.fd = fd] ELSE fds[s]
      /\ fds' \in [Slots -> [fd : Fd \cup {NoFd}, revents : SUBSET Revent]]
  <2>1. pollFds \in Slots
    BY <1>1, UdpAssumption DEF TypeOK, Slots
  <2>2. fds[pollFds] \in [fd : Fd \cup {NoFd}, revents : SUBSET Revent]
    BY <2>1 DEF TypeOK
  <2>3. [fds[pollFds] EXCEPT !.fd = fd] \in [fd : Fd \cup {NoFd}, revents : SUBSET Revent]
    BY <2>2
  <2>4. fds' = [fds EXCEPT ![pollFds] = [fds[pollFds] EXCEPT !.fd = fd]]
    BY <1>1, <2>1 DEF TypeOK
  <2> QED
    BY <2>1, <2>2, <2>3, <2>4 DEF TypeOK
<1>9. TypeOK'
  <2>1. fds' \in [Slots -> [fd : Fd \cup {NoFd}, revents : SUBSET Revent]]
    BY <1>8 DEF TypeOK
  <2>2. /\ peer' \in [Fd -> Addr \cup {NoAddr}]
        /\ pollFds' \in 2 .. MaxPollFds
        /\ nextId' \in 1 .. MaxId + 1
        /\ reported' \in [Ids -> {"none", "open", "closed", "error"}]
    BY <1>1, UdpAssumption DEF TypeOK, Ids
  <2>3. pc' = "send" /\ udpIsBound' \in BOOLEAN /\ i' \in Nat
    BY <1>1, <1>2
  <2>4. sockList' \in Seq(Item)
    BY <1>3
  <2> QED
    BY <1>1, <2>1, <2>2, <2>3, <2>4 DEF TypeOK
<1>10. PollSetMatchesList'
  <2>1. \A k \in 1 .. n : fds'[k + 1].fd = sockList[k].fd
    <3>1. \A k \in 1 .. n : k + 1 \in Slots /\ k + 1 # pollFds
      <4>1. pollFds \in 2 .. MaxPollFds - 1 /\ n = pollFds - 2
        BY <1>1, <1>2, UdpAssumption DEF TypeOK
      <4> HIDE DEF n
      <4> QED
        BY <4>1, UdpAssumption DEF Slots
    <3>2. \A k \in 1 .. n : fds[k + 1].fd = sockList[k].fd
      BY <1>1, <1>2 DEF PollSetMatchesList
    <3> QED
      BY <3>1, <3>2, <1>8
  <2>2. fds'[n + 2].fd = fd
    <3>1. n + 2 = pollFds
      BY <1>1, <1>2 DEF TypeOK
    <3> QED
      BY <3>1, <1>8
  <2>3. \A k \in 1 .. n + 1 : fds'[k + 1].fd = sockList'[k].fd
    BY <2>1, <2>2, <1>2, <1>3
  <2>4. Len(sockList') = pollFds' - 2
    BY <1>1, <1>2, <1>3 DEF TypeOK
  <2> QED
    BY <2>3, <2>4, <1>3 DEF PollSetMatchesList
<1>11. NoSocketIsLost'
  <2>1. \A f \in Fd : f # fd => peer'[f] = peer[f]
    BY <1>1 DEF TypeOK
  <2>2. \A k \in 1 .. n : peer'[sockList[k].fd] = sockList[k].addr
    BY <2>1, <1>2, <1>4, <1>6 DEF NoSocketIsLost, Item
  <2>3. \A k \in 1 .. n + 1 : peer'[sockList'[k].fd] = sockList'[k].addr
    <3>1. peer'[fd] = a
      BY <1>1 DEF TypeOK
    <3> QED
      BY <2>2, <3>1, <1>2, <1>3
  <2>4. ASSUME NEW f \in Fd, Open(f)' PROVE \E k \in 1 .. n + 1 : sockList'[k].fd = f
    <3>1. CASE f = fd
      BY <3>1, <1>2, <1>3
    <3>2. CASE f # fd
      <4>1. PICK k \in 1 .. n : sockList[k].fd = f
        BY <3>2, <2>1, <2>4, <1>2 DEF Open, NoSocketIsLost
      <4> QED
        BY <4>1, <1>2, <1>3
    <3> QED
      BY <3>1, <3>2
  <2>5. \A k, j \in 1 .. n : sockList[k].fd = sockList[j].fd => k = j
    BY <1>2 DEF NoSocketIsLost
  <2>6. \A k, j \in 1 .. n + 1 : sockList'[k].fd = sockList'[j].fd => k = j
    BY <2>5, <1>2, <1>3, <1>6
  <2> QED
    BY <2>3, <2>4, <2>6, <1>3 DEF NoSocketIsLost
<1>12. OneSocketPerDestination'
  <2>1. \A k, j \in 1 .. n : sockList[k].addr = sockList[j].addr => k = j
    BY <1>2 DEF OneSocketPerDestination
  <2>2. \A k, j \in 1 .. n + 1 : sockList'[k].addr = sockList'[j].addr => k = j
    BY <2>1, <1>2, <1>3, <1>5
  <2> QED
    BY <2>2, <1>1, <1>3 DEF OneSocketPerDestination
<1>13. ReportsMatchList'
  <2>1. \A id \in Ids : id # nextId => reported'[id] = reported[id]
    BY <1>1 DEF TypeOK
  <2>2. \A k \in 1 .. n : reported[sockList[k].id] = "open" /\ sockList[k].id \in Ids
    BY <1>1, <1>2, <1>4 DEF ReportsMatchList, Item
  <2>3. reported'[nextId] = "open"
    BY <1>1 DEF TypeOK
  <2>4. \A k \in 1 .. n + 1 : sockList'[k].id < nextId' /\ reported'[sockList'[k].id] = "open"
    <3>1. \A k \in 1 .. n : sockList[k].id < nextId' /\ reported'[sockList[k].id] = "open"
      BY <2>1, <2>2, <1>1, <1>7 DEF Ids
    <3>2. nextId < nextId'
      BY <1>1 DEF Ids
    <3> QED
      BY <3>1, <3>2, <2>3, <1>2, <1>3
  <2>5. \A k, j \in 1 .. n : sockList[k].id = sockList[j].id => k = j
    BY <1>2 DEF ReportsMatchList
  <2>6. \A k, j \in 1 .. n + 1 : sockList'[k].id = sockList'[j].id => k = j
    BY <2>5, <2>2, <1>1, <1>2, <1>3, <1>7 DEF Ids
  <2>7. ASSUME NEW id \in Ids, reported'[id] = "open"
        PROVE  \E k \in 1 .. n + 1 : sockList'[k].id = id
    <3>1. CASE id = nextId
      BY <3>1, <1>2, <1>3
    <3>2. CASE id # nextId
      <4>1. PICK k \in 1 .. n : sockList[k].id = id
        BY <3>2, <2>1, <2>7, <1>2 DEF ReportsMatchList
      <4> QED
        BY <4>1, <1>2, <1>3
    <3> QED
      BY <3>1, <3>2
  <2>8. \A id \in Ids : id >= nextId' => reported'[id] = "none"
    BY <2>1, <1>1 DEF ReportsMatchList, Ids
  <2> QED
    BY <2>4, <2>6, <2>7, <2>8, <1>1, <1>3 DEF ReportsMatchList
<1>14. ControlPoint'
  BY <1>1, <1>2, <1>3 DEF ControlPoint
<1> QED
  BY <1>9, <1>10, <1>11, <1>12, <1>13, <1>14

\* Handling a datagram of the client keeps the invariant.
LEMMA ForwardingKeepsInv == Inv /\ Forwarding => Inv'
<1> SUFFICES ASSUME Inv, Forwarding PROVE Inv'
  OBVIOUS
<1>1. CASE ClientInterrupted
  <2>1. TypeOK' /\ ControlPoint'
    BY <1>1 DEF Inv, TypeOK, ControlPoint, ClientInterrupted, GotoPoll
  <2> QED
    BY <1>1, <2>1, QuietStepKeepsInv DEF ClientInterrupted, GotoPoll
<1>2. CASE ClientFails
  BY <1>2, EndAssociationKeepsInv DEF ClientFails
<1>3. ASSUME NEW a \in Addr, ClientSendsToKnown(a)
      PROVE  Inv'
  <2>1. SearchByAddr(a) \in DOMAIN sockList
    <3>1. PICK k \in DOMAIN sockList : sockList[k].addr = a
      BY <1>3 DEF ClientSendsToKnown, SearchByAddr
    <3>2. \A j \in DOMAIN sockList : sockList[j].addr = a => j = k
      BY <3>1 DEF Inv, OneSocketPerDestination
    <3>3. \A j \in 1 .. k - 1 : j \in DOMAIN sockList /\ j # k
      BY LenProperties DEF Inv, TypeOK
    <3> QED
      BY <3>1, <3>2, <3>3 DEF SearchByAddr
  <2>2. DOMAIN sockList \subseteq Nat
    BY LenProperties DEF Inv, TypeOK
  <2>3. TypeOK' /\ ControlPoint'
    BY <1>3, <2>1, <2>2 DEF Inv, TypeOK, ControlPoint, ClientSendsToKnown
  <2> QED
    BY <1>3, <2>3, QuietStepKeepsInv DEF ClientSendsToKnown
<1>4. CASE SendSucceeds
  <2>1. TypeOK' /\ ControlPoint'
    BY <1>4 DEF Inv, TypeOK, ControlPoint, SendSucceeds, GotoSweep
  <2> QED
    BY <1>4, <2>1, QuietStepKeepsInv DEF SendSucceeds, GotoSweep
<1>5. CASE SendFails
  <2>1. i \in DOMAIN sockList
    BY <1>5 DEF Inv, ControlPoint, SendFails
  <2> QED
    BY <1>5, <2>1, CloseUdpDestinationKeepsInv DEF SendFails, GotoPoll
<1> QED
  BY <1>1, <1>2, <1>3, <1>4, <1>5, UnreachableKeepsInv, NewDestinationKeepsInv DEF Forwarding

\* A step of the pass over the destination sockets keeps the invariant.
LEMMA SweepKeepsInv == Inv /\ Sweep => Inv'
<1> SUFFICES ASSUME Inv, Sweep PROVE Inv'
  OBVIOUS
<1>1. CASE SweepEnds
  <2>1. TypeOK' /\ ControlPoint'
    BY <1>1 DEF Inv, TypeOK, ControlPoint, SweepEnds, GotoPoll
  <2> QED
    BY <1>1, <2>1, QuietStepKeepsInv DEF SweepEnds, GotoPoll
<1>2. CASE SweepSkips
  <2>1. TypeOK' /\ ControlPoint'
    BY <1>2 DEF Inv, TypeOK, ControlPoint, SweepSkips, Sweeping
  <2> QED
    BY <1>2, <2>1, QuietStepKeepsInv DEF SweepSkips, Sweeping
<1>3. CASE SweepDrops
  <2>1. i \in Live /\ pc = "sweep" /\ pc' = "sweep"
    BY <1>3 DEF SweepDrops, Sweeping, Live, Inv, TypeOK, ControlPoint
  <2>2. Found \in DOMAIN sockList
    BY <2>1, SlotHasItem DEF Found
  <2> QED
    BY <1>3, <2>1, <2>2, CloseUdpDestinationKeepsInv DEF SweepDrops
<1>4. CASE SweepForwards
  <2>1. /\ pc = "sweep" /\ i' = i + 1
        /\ UNCHANGED <<pc, fds, pollFds, sockList, udpIsBound, final, nextId, reported, peer, ctl>>
    BY <1>4 DEF SweepForwards, Sweeping
  <2>2. PICK more \in {"idle", "data"} : net' = [net EXCEPT ![fds[i].fd] = more]
    BY <1>4 DEF SweepForwards
  <2>3. net' \in [Fd -> Waiting]
    BY <2>2 DEF Inv, TypeOK, Waiting
  <2>4. TypeOK' /\ ControlPoint'
    BY <2>1, <2>3 DEF Inv, TypeOK, ControlPoint
  <2> QED
    BY <2>1, <2>4, QuietStepKeepsInv
<1>5. CASE SweepFails
  BY <1>5, EndAssociationKeepsInv DEF SweepFails, Sweeping
<1> QED
  BY <1>1, <1>2, <1>3, <1>4, <1>5 DEF Sweep

-----------------------------------------------------------------------------
\* The loop at UDP_LOOP_END ends the items one by one.
LEMMA EndReportsKeepsInv == Inv /\ EndReports => Inv'
<1> SUFFICES ASSUME Inv, EndReports PROVE Inv'
  OBVIOUS
<1> USE DEF Inv
<1> DEFINE id0 == sockList[i].id
<1>1. /\ pc = "ending" /\ i' = i + 1 /\ i \in DOMAIN sockList
      /\ reported' = [reported EXCEPT ![id0] = final]
      /\ UNCHANGED <<pc, fds, pollFds, sockList, udpIsBound, final, nextId, peer, net, ctl>>
  BY LenProperties DEF EndReports, Emit, TypeOK, ControlPoint
<1>2. \A k \in DOMAIN sockList : k \in Nat /\ sockList[k].id \in Ids
  <2>1. \A k \in DOMAIN sockList : k \in Nat /\ sockList[k] \in Item
    BY ElementOfSeq, LenProperties DEF TypeOK
  <2> QED
    BY <2>1 DEF Item
<1>3. TypeOK'
  <2>1. reported' \in [Ids -> {"none", "open", "closed", "error"}]
    <3> HIDE DEF id0
    <3> QED
      BY <1>1 DEF TypeOK
  <2>2. i' \in Nat
    BY <1>1 DEF TypeOK
  <2> QED
    BY <1>1, <2>1, <2>2 DEF TypeOK
<1>4. PollSetMatchesList' /\ NoSocketIsLost' /\ OneSocketPerDestination' /\ ControlPoint'
  BY <1>1 DEF PollSetMatchesList, NoSocketIsLost, OneSocketPerDestination, ControlPoint,
              Open, TypeOK
<1>5. ReportsMatchList'
  <2>1. \A k, j \in DOMAIN sockList : sockList[k].id = sockList[j].id => k = j
    BY DEF ReportsMatchList
  <2>2. /\ reported'[id0] = final
        /\ \A id \in Ids : id # id0 => reported'[id] = reported[id]
    BY <1>1, <1>2 DEF TypeOK
  <2>3. \A k \in DOMAIN sockList :
          /\ sockList[k].id < nextId
          /\ reported[sockList[k].id] = IF k < i THEN final ELSE "open"
    BY <1>1 DEF ReportsMatchList
  <2>4. \A k \in DOMAIN sockList : k # i => (k < i + 1 <=> k < i)
    BY <1>2 DEF TypeOK
  <2>5. \A k \in DOMAIN sockList :
          k # i => reported'[sockList[k].id] = IF k < i + 1 THEN final ELSE "open"
    BY <2>1, <2>2, <2>3, <2>4, <1>1, <1>2
  <2>6. reported'[sockList[i].id] = IF i < i + 1 THEN final ELSE "open"
    BY <2>2 DEF TypeOK
  <2>7. \A id \in Ids : reported'[id] = "open" => reported[id] = "open"
    BY <2>2 DEF TypeOK
  <2>8. \A id \in Ids : id >= nextId => id # id0
    BY <2>3, <1>1, <1>2 DEF TypeOK, Ids
  <2>9. \A id \in Ids :
          /\ reported'[id] = "open" => \E k \in DOMAIN sockList : sockList[k].id = id
          /\ id >= nextId => reported'[id] = "none"
    BY <2>2, <2>7, <2>8 DEF ReportsMatchList
  <2> QED
    BY <1>1, <2>1, <2>3, <2>5, <2>6, <2>9 DEF ReportsMatchList
<1> QED
  BY <1>3, <1>4, <1>5

\* The descriptors of the poll set are all there are, and every item has been
\* ended by then.
LEMMA EndClosesKeepsInv == Inv /\ EndCloses => Inv'
<1> SUFFICES ASSUME Inv, EndCloses PROVE Inv'
  OBVIOUS
<1> USE DEF Inv
<1>1. /\ pc = "ending" /\ i > Len(sockList)
      /\ sockList' = <<>> /\ pc' = "done"
      /\ UNCHANGED <<fds, pollFds, udpIsBound, i, final, nextId, reported, ctl>>
      /\ peer' = [f \in Fd |-> IF f \in {fds[s].fd : s \in Live} THEN NoAddr ELSE peer[f]]
      /\ net' = [f \in Fd |-> IF f \in {fds[s].fd : s \in Live} THEN "idle" ELSE net[f]]
  BY DEF EndCloses, CloseFds
<1>2. DOMAIN sockList = 1 .. pollFds - 2 /\ Len(sockList) = pollFds - 2
  BY <1>1, LenProperties DEF TypeOK, PollSetMatchesList
<1>3. <<>> \in Seq(Item) /\ DOMAIN <<>> = {}
  OBVIOUS
<1>4. TypeOK'
  BY <1>1, <1>3 DEF TypeOK, Waiting
<1>5. \A fd \in Fd : peer'[fd] = NoAddr
  <2> SUFFICES ASSUME NEW fd \in Fd, peer[fd] # NoAddr
               PROVE  \E s \in Live : fds[s].fd = fd
    BY <1>1
  <2>1. PICK k \in DOMAIN sockList : sockList[k].fd = fd
    BY DEF NoSocketIsLost, Open
  <2>2. k + 1 \in Live
    BY <1>2 DEF Live, TypeOK
  <2>3. fds[k + 1].fd = fd
    BY <1>1, <2>1 DEF PollSetMatchesList
  <2> QED
    BY <2>2, <2>3
<1>6. PollSetMatchesList' /\ OneSocketPerDestination' /\ ControlPoint'
  BY <1>1, <1>3 DEF PollSetMatchesList, OneSocketPerDestination, ControlPoint
<1>7. NoSocketIsLost'
  BY <1>1, <1>3, <1>5 DEF NoSocketIsLost, Open
<1>8. ReportsMatchList'
  <2>1. \A k \in DOMAIN sockList : reported[sockList[k].id] = final
    BY <1>1, <1>2 DEF ReportsMatchList, TypeOK
  <2>2. \A id \in Ids : reported[id] # "open"
    BY <2>1 DEF ReportsMatchList, TypeOK
  <2> QED
    BY <1>1, <1>3, <2>2 DEF ReportsMatchList
<1> QED
  BY <1>4, <1>6, <1>7, <1>8

-----------------------------------------------------------------------------
\* Replies, ICMP errors and the client's close change nothing the thread keeps.
LEMMA SurroundingsKeepInv == Inv /\ (Kernel \/ ClientClosesControl) => Inv'
<1> SUFFICES ASSUME Inv, Kernel \/ ClientClosesControl PROVE Inv'
  OBVIOUS
<1>1. UNCHANGED <<threadVars, peer>> /\ net' \in [Fd -> Waiting] /\ ctl' \in {"open", "eof"}
  BY DEF Kernel, ReplyArrives, IcmpErrorArrives, ClientClosesControl, Inv, TypeOK, Waiting
<1> QED
  <2>1. TypeOK'
    BY <1>1 DEF threadVars, Inv, TypeOK
  <2>2. PollSetMatchesList' /\ NoSocketIsLost' /\ OneSocketPerDestination' /\ ControlPoint'
    BY <1>1 DEF threadVars, Inv, PollSetMatchesList, NoSocketIsLost, OneSocketPerDestination,
                ControlPoint, Open
  <2>3. ReportsMatchList'
    BY <1>1 DEF threadVars, Inv, ReportsMatchList
  <2> QED
    BY <2>1, <2>2, <2>3 DEF Inv

\* The invariant is inductive: every step of the system keeps it.
LEMMA NextKeepsInv == Inv /\ [Next]_vars => Inv'
<1> SUFFICES ASSUME Inv, [Next]_vars PROVE Inv'
  OBVIOUS
<1>1. CASE Thread
  BY <1>1, StartingKeepsInv, PollingKeepsInv, ForwardingKeepsInv, SweepKeepsInv,
     EndReportsKeepsInv, EndClosesKeepsInv DEF Thread, Ending
<1>2. CASE Kernel \/ ClientClosesControl
  BY <1>2, SurroundingsKeepInv
<1>3. CASE UNCHANGED vars
  BY <1>3 DEF vars, threadVars, Inv, TypeOK, PollSetMatchesList, NoSocketIsLost,
              OneSocketPerDestination, ReportsMatchList, ControlPoint, Open
<1> QED
  BY <1>1, <1>2, <1>3 DEF Next, Terminated

\* The inductive invariant: what the other theorems are read off from.
THEOREM Invariance == Spec => []Inv
<1>1. Init => Inv
  BY InitEstablishesInv
<1>2. Inv /\ [Next]_vars => Inv'
  BY NextKeepsInv
<1> QED
  BY <1>1, <1>2, PTL DEF Spec

\* Every variable of copy_loop_udp keeps its range; in particular poll_fds
\* never passes the size of fds.
THEOREM TypeCorrect == Spec => []TypeOK
<1>1. Inv => TypeOK
  BY DEF Inv
<1> QED
  BY <1>1, Invariance, PTL

\* The two arrays of copy_loop_udp describe the same sockets in the same order.
THEOREM PollSetCorrect == Spec => []PollSetMatchesList
<1>1. Inv => PollSetMatchesList
  BY DEF Inv
<1> QED
  BY <1>1, Invariance, PTL

\* No descriptor of a destination leaks, and none is known twice.
THEOREM SocketsCorrect == Spec => []SocketsMatchDestinations
<1>1. Inv => SocketsMatchDestinations
  BY DEF Inv, SocketsMatchDestinations
<1> QED
  BY <1>1, Invariance, PTL

\* The events agree with the list at every moment.
THEOREM ReportsCorrect == Spec => []ReportsMatchList
<1>1. Inv => ReportsMatchList
  BY DEF Inv
<1> QED
  BY <1>1, Invariance, PTL

-----------------------------------------------------------------------------
\* A pass does not go by a slot with an error: dropping a destination leaves
\* the slots before it alone, and the slot that moved up is the next one.
LEMMA SweepPassesNoError ==
    Inv /\ ErrorsAreNotPassedOver /\ [Next]_vars => ErrorsAreNotPassedOver'
<1> SUFFICES ASSUME Inv, ErrorsAreNotPassedOver, [Next]_vars, pc' = "sweep"
             PROVE  \A s \in 2 .. pollFds' - 1 : s < i' => "err" \notin fds'[s].revents
  BY DEF ErrorsAreNotPassedOver, Live
<1> USE DEF Inv
<1>1. CASE UNCHANGED <<pc, fds, pollFds, i>>
  BY <1>1 DEF ErrorsAreNotPassedOver, Live
<1>2. CASE i' = 2
  BY <1>2
<1>3. CASE SweepSkips \/ SweepForwards
  <2>1. /\ pc = "sweep" /\ i' = i + 1 /\ UNCHANGED <<fds, pollFds>>
        /\ "err" \notin fds[i].revents
    BY <1>3 DEF SweepSkips, SweepForwards, Sweeping, Readable
  <2>2. \A s \in Live : s < i + 1 => s < i \/ s = i
    BY DEF Live, TypeOK
  <2>3. \A s \in Live : s < i => "err" \notin fds[s].revents
    BY <2>1 DEF ErrorsAreNotPassedOver
  <2> QED
    BY <2>1, <2>2, <2>3 DEF Live
<1>4. CASE SweepDrops
  <2>1. i \in Live /\ pc = "sweep" /\ i' = i
    BY <1>4 DEF SweepDrops, Sweeping, Live, TypeOK, ControlPoint
  <2>2. Found = i - 1 /\ Found \in DOMAIN sockList
    BY <2>1, SlotHasItem DEF Found
  <2>3. RemoveUdpPollfd(sockList[Found].fd)
    BY <1>4 DEF SweepDrops, CloseUdpDestination
  <2>4. /\ pollFds' = pollFds - 1
        /\ fds' = [s \in Slots |->
                     IF s >= Found + 1 /\ s + 1 < pollFds THEN fds[s + 1] ELSE fds[s]]
    BY <2>1, <2>2, <2>3, RemovedSlot
  <2>5. ASSUME NEW s \in 2 .. pollFds' - 1, s < i'
        PROVE  "err" \notin fds'[s].revents
    <3>1. s \in Live /\ s \in Slots /\ s < i
      BY <2>1, <2>4, <2>5, UdpAssumption DEF Live, Slots, TypeOK
    <3>2. fds'[s] = fds[s]
      BY <2>1, <2>2, <2>4, <3>1 DEF Live, TypeOK
    <3> QED
      BY <2>1, <3>1, <3>2 DEF ErrorsAreNotPassedOver
  <2> QED
    BY <2>5
<1>5. UNCHANGED <<pc, fds, pollFds, i>> \/ i' = 2 \/ SweepSkips \/ SweepForwards \/ SweepDrops
  <2>1. ~(Starting \/ Ending)
    BY DEF Starting, Start, StartOutOfMemory, StartAborts, Ending, EndReports, EndCloses,
           EndAssociation, GotoPoll
  <2>2. CASE Polling
    BY <2>2 DEF Polling, PollTimesOut, ControlCloses, ControlFails, PollReports,
                EndAssociation, GotoSweep
  <2>3. CASE Forwarding
    BY <2>3 DEF Forwarding, ClientInterrupted, ClientFails, ClientSendsToKnown,
                ClientSendsToUnreachable, ClientSendsToNew, SendSucceeds, SendFails,
                EndAssociation, GotoPoll, GotoSweep
  <2>4. CASE Sweep
    BY <2>4 DEF Sweep, SweepEnds, SweepFails, EndAssociation, GotoPoll
  <2>5. CASE Kernel \/ ClientClosesControl \/ UNCHANGED vars
    BY <2>5 DEF Kernel, ReplyArrives, IcmpErrorArrives, ClientClosesControl, vars, threadVars
  <2> QED
    BY <2>1, <2>2, <2>3, <2>4, <2>5 DEF Next, Thread, Terminated
<1> QED
  BY <1>1, <1>2, <1>3, <1>4, <1>5

\* Every destination poll reported an error for is dropped in the same pass.
THEOREM ErrorsCorrect == Spec => []ErrorsAreNotPassedOver
<1>1. Init => ErrorsAreNotPassedOver
  BY DEF Init, ErrorsAreNotPassedOver
<1> QED
  BY <1>1, Invariance, SweepPassesNoError, PTL DEF Spec

-----------------------------------------------------------------------------
\* Every step of an association is a step of the contract for one identifier,
\* or emits nothing.
LEMMA StepImplementsLifecycle == Inv /\ [Next]_vars => [Lifecycle!Next]_reported
<1> SUFFICES ASSUME Inv, [Next]_vars, reported' # reported PROVE Lifecycle!Next
  OBVIOUS
<1> USE DEF Inv
<1>1. \A k \in DOMAIN sockList : sockList[k].id \in Ids
  <2>1. \A k \in DOMAIN sockList : sockList[k] \in Item
    BY ElementOfSeq, LenProperties DEF TypeOK
  <2> QED
    BY <2>1 DEF Item
<1>2. ASSUME NEW a \in Addr, ClientSendsToUnreachable(a) PROVE Lifecycle!Next
  <2>1. /\ nextId \in Ids /\ reported[nextId] = "none"
        /\ reported' = [reported EXCEPT ![nextId] = "error"]
    BY <1>2 DEF ClientSendsToUnreachable, Emit, TypeOK, ReportsMatchList, Ids
  <2> QED
    BY <2>1 DEF Lifecycle!Next, Lifecycle!Fail
<1>3. ASSUME NEW a \in Addr, NEW fd \in Fd, ClientSendsToNew(a, fd) PROVE Lifecycle!Next
  <2>1. /\ nextId \in Ids /\ reported[nextId] = "none"
        /\ reported' = [reported EXCEPT ![nextId] = "open"]
    BY <1>3 DEF ClientSendsToNew, Emit, TypeOK, ReportsMatchList, Ids
  <2> QED
    BY <2>1 DEF Lifecycle!Next, Lifecycle!Open
<1>4. ASSUME NEW k \in DOMAIN sockList, pc \in {"send", "sweep"}, CloseUdpDestination(k, "error")
      PROVE  Lifecycle!Next
  <2>1. /\ reported[sockList[k].id] = "open"
        /\ reported' = [reported EXCEPT ![sockList[k].id] = "error"]
    BY <1>4 DEF CloseUdpDestination, Emit, ReportsMatchList
  <2> QED
    BY <2>1, <1>1 DEF Lifecycle!Next, Lifecycle!End, Lifecycle!Ended
<1>5. CASE SendFails
  BY <1>5, <1>4 DEF SendFails, ControlPoint
<1>6. CASE SweepDrops
  <2>1. i \in Live /\ pc = "sweep"
    BY <1>6 DEF SweepDrops, Sweeping, Live, TypeOK, ControlPoint
  <2>2. Found \in DOMAIN sockList
    BY <2>1, SlotHasItem DEF Found
  <2> QED
    BY <1>6, <1>4, <2>1, <2>2 DEF SweepDrops
<1>7. CASE EndReports
  <2>1. /\ pc = "ending" /\ i \in DOMAIN sockList
        /\ reported' = [reported EXCEPT ![sockList[i].id] = final]
    BY <1>7, LenProperties DEF EndReports, Emit, TypeOK, ControlPoint
  <2>2. reported[sockList[i].id] = "open"
    BY <2>1 DEF ReportsMatchList, TypeOK
  <2> QED
    BY <2>1, <2>2, <1>1 DEF Lifecycle!Next, Lifecycle!End, Lifecycle!Ended, TypeOK
<1>8. \/ \E a \in Addr : \/ ClientSendsToUnreachable(a)
                         \/ \E fd \in Fd : ClientSendsToNew(a, fd)
      \/ SendFails \/ SweepDrops \/ EndReports
  <2>1. ~(Starting \/ Polling)
    BY DEF Starting, Start, StartOutOfMemory, StartAborts, Polling, PollTimesOut,
           ControlCloses, ControlFails, PollReports, EndAssociation
  <2>2. CASE Forwarding
    BY <2>2 DEF Forwarding, ClientInterrupted, ClientFails, ClientSendsToKnown, SendSucceeds,
                EndAssociation
  <2>3. CASE Sweep \/ Ending
    BY <2>3 DEF Sweep, SweepEnds, SweepSkips, SweepForwards, SweepFails, Ending, EndCloses,
                EndAssociation
  <2>4. ~(Kernel \/ ClientClosesControl \/ UNCHANGED vars)
    BY DEF Kernel, ReplyArrives, IcmpErrorArrives, ClientClosesControl, vars, threadVars
  <2> QED
    BY <2>1, <2>2, <2>3, <2>4 DEF Next, Thread, Terminated
<1> QED
  BY <1>2, <1>3, <1>5, <1>6, <1>7, <1>8

\* The events of an association implement the contract of the event handler.
THEOREM ImplementsLifecycle == Spec => LifecycleSpec
<1>1. Init => Lifecycle!Init
  BY DEF Init, Lifecycle!Init
<1> QED
  BY <1>1, Invariance, StepImplementsLifecycle, PTL DEF Spec, LifecycleSpec, Lifecycle!Spec
=============================================================================
