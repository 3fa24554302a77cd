------------------------------ MODULE TcpRelay ------------------------------
(***************************************************************************)
(* One CONNECT session once both ends are connected: copyloop and          *)
(* relay_data of sockssrv.c.  One thread serves both directions with       *)
(* blocking reads and writes.  The two peers send, read, shut down and     *)
(* reset as they like, through sockets that hold a bounded number of       *)
(* chunks.                                                                 *)
(*                                                                         *)
(* Abstracted: a chunk stands for some bytes; the chunks a peer sends are  *)
(* numbered so that loss, duplication and reordering show.  Interrupted    *)
(* polls (EINTR, EAGAIN) return to the same poll and are stuttering steps. *)
(***************************************************************************)
EXTENDS Naturals, Sequences

CONSTANTS
    MaxSent,      \* bound: chunks a peer sends
    InCapacity,   \* chunks a socket holds that the thread has not read
    OutCapacity,  \* chunks a socket holds that the peer has not read
    BufferSize,   \* chunks one read can return, TCP_COPY_BUFFER_SIZE
    FlushAt       \* TCP_COPY_ACCOUNTING_FLUSH_BYTES

ASSUME RelayAssumption ==
    /\ MaxSent \in Nat
    /\ InCapacity \in Nat \ {0} /\ OutCapacity \in Nat \ {0}
    /\ BufferSize \in Nat \ {0}
    /\ FlushAt \in Nat \ {0}

VARIABLES
    pc,          \* where the thread is; a peer's name: about to look at its revents
    revents,     \* what poll reported for each descriptor
    from,        \* the peer whose chunks are being relayed
    buf, sent,   \* what relay_data has read, and how much of it is written
    pending,     \* pending_uploaded_bytes and pending_downloaded_bytes, by sender
    total,       \* total_uploaded_bytes and total_downloaded_bytes, by sender
    result,      \* what copyloop returns
    inbox,       \* kernel: received from each peer and not read by the thread
    outbox,      \* kernel: written for each peer and not read by it
    shut,        \* the peer has shut down its sending side
    reset,       \* the peer has reset its connection
    numSent,     \* how many chunks the peer has sent
    got          \* the chunks the peer has read

threadVars == <<pc, revents, from, buf, sent, pending, total, result>>
peerVars == <<inbox, outbox, shut, reset, numSent, got>>
vars == <<threadVars, peerVars>>

Peer == {"client", "target"}
Other(p) == IF p = "client" THEN "target" ELSE "client"
Revent == {"in", "hup", "err"}
Chunk == 1 .. MaxSent

TypeOK ==
    /\ pc \in Peer \cup {"poll", "write", "hangup", "done"}
    /\ revents \in [Peer -> SUBSET Revent]
    /\ from \in Peer
    /\ buf \in Seq(Chunk) /\ Len(buf) <= BufferSize
    /\ sent \in 0 .. Len(buf)
    /\ pending \in [Peer -> 0 .. FlushAt - 1]
    /\ total \in [Peer -> Nat]
    /\ result \in {"none", "closed", "error"}
    /\ inbox \in [Peer -> Seq(Chunk)]
    /\ outbox \in [Peer -> Seq(Chunk)]
    /\ \A p \in Peer : Len(inbox[p]) <= InCapacity /\ Len(outbox[p]) <= OutCapacity
    /\ shut \in [Peer -> BOOLEAN]
    /\ reset \in [Peer -> BOOLEAN]
    /\ numSent \in [Peer -> 0 .. MaxSent]
    /\ got \in [Peer -> Seq(Chunk)]

Init ==
    /\ pc = "poll"
    /\ revents = [p \in Peer |-> {}]
    /\ from = "client"
    /\ buf = <<>> /\ sent = 0
    /\ pending = [p \in Peer |-> 0]
    /\ total = [p \in Peer |-> 0]
    /\ result = "none"
    /\ inbox = [p \in Peer |-> <<>>]
    /\ outbox = [p \in Peer |-> <<>>]
    /\ shut = [p \in Peer |-> FALSE]
    /\ reset = [p \in Peer |-> FALSE]
    /\ numSent = [p \in Peer |-> 0]
    /\ got = [p \in Peer |-> <<>>]

-----------------------------------------------------------------------------
\* flush_pending_transfer_totals, and copyloop returns
Finish(state) ==
    /\ pc' = "done"
    /\ result' = state
    /\ total' = [p \in Peer |-> total[p] + pending[p]]
    /\ pending' = [p \in Peer |-> 0]
    /\ UNCHANGED <<revents, from, buf, sent, peerVars>>

\* the peer that is looked at after p, then the check for a hangup
After(p) == IF p = "client" THEN "target" ELSE "hangup"

Nothing(p) == inbox[p] = <<>> /\ ~shut[p] /\ ~reset[p]

\* What poll may report for the descriptor of p.
Report(p) ==
    IF Nothing(p) THEN {{}}
    ELSE IF reset[p] THEN {{"in"}, {"hup"}, {"in", "hup"}, {"err"}, {"in", "hup", "err"}}
    ELSE IF ~shut[p] THEN {{"in"}}
    ELSE IF inbox[p] # <<>> THEN {{"in"}, {"in", "hup"}}
    ELSE {{"in"}, {"hup"}, {"in", "hup"}}

\* fifteen minutes without anything to report
PollTimesOut ==
    /\ pc = "poll"
    /\ \A p \in Peer : Nothing(p)
    /\ Finish("closed")

PollFails ==
    /\ pc = "poll"
    /\ Finish("error")

PollReports ==
    /\ pc = "poll"
    /\ \E p \in Peer : ~Nothing(p)
    /\ revents' \in [Peer -> SUBSET Revent]
    /\ \A p \in Peer : revents'[p] \in Report(p) /\ "err" \notin revents'[p]
    /\ pc' = "client"
    /\ UNCHANGED <<from, buf, sent, pending, total, result, peerVars>>

PollReportsError ==
    /\ pc = "poll"
    /\ \E p \in Peer : \E r \in Report(p) : "err" \in r
    /\ Finish("error")

-----------------------------------------------------------------------------
\* relay_data(p, Other(p))

NotReadable(p) ==
    /\ pc = p
    /\ "in" \notin revents[p]
    /\ pc' = After(p)
    /\ UNCHANGED <<revents, from, buf, sent, pending, total, result, peerVars>>

ReadData(p) ==
    /\ pc = p
    /\ "in" \in revents[p]
    /\ inbox[p] # <<>>
    /\ LET n == IF Len(inbox[p]) < BufferSize THEN Len(inbox[p]) ELSE BufferSize
       IN /\ buf' = SubSeq(inbox[p], 1, n)
          /\ inbox' = [inbox EXCEPT ![p] = SubSeq(inbox[p], n + 1, Len(inbox[p]))]
    /\ sent' = 0
    /\ from' = p
    /\ pc' = "write"
    /\ UNCHANGED <<revents, pending, total, result, outbox, shut, reset, numSent, got>>

\* mutant: only the read of the client's descriptor is looked at
ReadEndOfClientOnly(p) ==
    /\ pc = p
    /\ "in" \in revents[p]
    /\ inbox[p] = <<>> /\ ~reset[p] /\ shut[p]
    /\ IF p = "client"
       THEN Finish("closed")
       ELSE /\ pc' = After(p)
            /\ UNCHANGED <<revents, from, buf, sent, pending, total, result, peerVars>>

ReadEnd(p) ==
    /\ pc = p
    /\ "in" \in revents[p]
    /\ inbox[p] = <<>> /\ ~reset[p] /\ shut[p]
    /\ Finish("closed")

ReadFails(p) ==
    /\ pc = p
    /\ "in" \in revents[p]
    /\ inbox[p] = <<>> /\ reset[p]
    /\ Finish("error")

\* mutant: a short write is followed by a write from the start of the buffer
WriteSomeFromStart ==
    /\ pc = "write"
    /\ sent < Len(buf)
    /\ \E m \in 1 .. Len(buf) - sent :
        /\ Len(outbox[Other(from)]) + m <= OutCapacity
        /\ outbox' = [outbox EXCEPT ![Other(from)] = @ \o SubSeq(buf, 1, m)]
        /\ sent' = sent + m
    /\ UNCHANGED <<pc, revents, from, buf, pending, total, result, inbox, shut, reset, numSent,
                   got>>

\* A write hands over as much as there is room for, and does not return while
\* there is none.
WriteSome ==
    /\ pc = "write"
    /\ sent < Len(buf)
    /\ \E m \in 1 .. Len(buf) - sent :
        /\ Len(outbox[Other(from)]) + m <= OutCapacity
        /\ outbox' = [outbox EXCEPT ![Other(from)] = @ \o SubSeq(buf, sent + 1, sent + m)]
        /\ sent' = sent + m
    /\ UNCHANGED <<pc, revents, from, buf, pending, total, result, inbox, shut, reset, numSent,
                   got>>

WriteFails ==
    /\ pc = "write"
    /\ sent < Len(buf)
    /\ reset[Other(from)]
    /\ Finish("error")

\* mutant: the counter is not cleared when it is added to the total
AccountTwice ==
    /\ pc = "write"
    /\ sent = Len(buf)
    /\ LET sum == pending[from] + Len(buf)
       IN IF sum >= FlushAt
          THEN /\ total' = [total EXCEPT ![from] = @ + sum]
               /\ UNCHANGED pending
          ELSE /\ pending' = [pending EXCEPT ![from] = sum]
               /\ UNCHANGED total
    /\ pc' = After(from)
    /\ UNCHANGED <<revents, from, buf, sent, result, peerVars>>

\* mutant: the counter is added to the total only beyond the threshold
AccountLate ==
    /\ pc = "write"
    /\ sent = Len(buf)
    /\ LET sum == pending[from] + Len(buf)
       IN IF sum > FlushAt
          THEN /\ total' = [total EXCEPT ![from] = @ + sum]
               /\ pending' = [pending EXCEPT ![from] = 0]
          ELSE /\ pending' = [pending EXCEPT ![from] = sum]
               /\ UNCHANGED total
    /\ pc' = After(from)
    /\ UNCHANGED <<revents, from, buf, sent, result, peerVars>>

\* everything is written: count it, in batches
Account ==
    /\ pc = "write"
    /\ sent = Len(buf)
    /\ LET sum == pending[from] + Len(buf)
       IN IF sum >= FlushAt
          THEN /\ total' = [total EXCEPT ![from] = @ + sum]
               /\ pending' = [pending EXCEPT ![from] = 0]
          ELSE /\ pending' = [pending EXCEPT ![from] = sum]
               /\ UNCHANGED total
    /\ pc' = After(from)
    /\ UNCHANGED <<revents, from, buf, sent, result, peerVars>>

\* handled_readable_fd
HandledReadableFd == \E p \in Peer : "in" \in revents[p]
HasHangup == \E p \in Peer : "hup" \in revents[p]

\* mutant: a hangup counts even if something was read
HangupUnconditional ==
    /\ pc = "hangup"
    /\ HasHangup
    /\ Finish("closed")

Hangup ==
    /\ pc = "hangup"
    /\ ~HandledReadableFd /\ HasHangup
    /\ Finish("closed")

PollAgain ==
    /\ pc = "hangup"
    /\ HandledReadableFd \/ ~HasHangup
    /\ pc' = "poll"
    /\ UNCHANGED <<revents, from, buf, sent, pending, total, result, peerVars>>

-----------------------------------------------------------------------------
\* The peers.  When copyloop has returned the descriptors are closed; what was
\* written can still be read.

PeerSends(p) ==
    /\ pc # "done" /\ ~shut[p] /\ ~reset[p]
    /\ numSent[p] < MaxSent
    /\ Len(inbox[p]) < InCapacity
    /\ numSent' = [numSent EXCEPT ![p] = @ + 1]
    /\ inbox' = [inbox EXCEPT ![p] = Append(@, numSent[p] + 1)]
    /\ UNCHANGED <<threadVars, outbox, shut, reset, got>>

PeerReads(p) ==
    /\ ~reset[p]
    /\ outbox[p] # <<>>
    /\ got' = [got EXCEPT ![p] = Append(@, Head(outbox[p]))]
    /\ outbox' = [outbox EXCEPT ![p] = Tail(@)]
    /\ UNCHANGED <<threadVars, inbox, shut, reset, numSent>>

PeerShutsDown(p) ==
    /\ pc # "done" /\ ~shut[p] /\ ~reset[p]
    /\ shut' = [shut EXCEPT ![p] = TRUE]
    /\ UNCHANGED <<threadVars, inbox, outbox, reset, numSent, got>>

\* what was received before the reset may be gone with it
PeerResets(p) ==
    /\ pc # "done" /\ ~reset[p]
    /\ reset' = [reset EXCEPT ![p] = TRUE]
    /\ inbox' \in {inbox, [inbox EXCEPT ![p] = <<>>]}
    /\ UNCHANGED <<threadVars, outbox, shut, numSent, got>>

-----------------------------------------------------------------------------
Thread ==
    \/ PollTimesOut \/ PollFails \/ PollReports \/ PollReportsError
    \/ \E p \in Peer : NotReadable(p) \/ ReadData(p) \/ ReadEnd(p) \/ ReadFails(p)
    \/ WriteSome \/ WriteFails \/ Account
    \/ Hangup \/ PollAgain

Peers ==
    \E p \in Peer : PeerSends(p) \/ PeerReads(p) \/ PeerShutsDown(p) \/ PeerResets(p)

Next == Thread \/ Peers

Spec == Init /\ [][Next]_vars

\* The thread keeps running; nothing is assumed of the peers.
FairSpec == Spec /\ WF_vars(Thread)

\* In addition both peers read what they are sent.
ReadingSpec == FairSpec /\ \A p \in Peer : WF_vars(PeerReads(p))

-----------------------------------------------------------------------------
Stream(p) == [k \in 1 .. numSent[p] |-> k]          \* what p has sent so far
Relayed(p) == got[Other(p)] \o outbox[Other(p)]     \* what was written of it
InHand(p) == IF pc = "write" /\ from = p THEN SubSeq(buf, sent + 1, Len(buf)) ELSE <<>>

\* What a peer receives is always a prefix of what the other one sent, however
\* the writes are cut and the directions alternate.  Until copyloop returns, the
\* rest is in the buffer or still to be read: no chunk is lost, duplicated or
\* out of place.
NothingIsLostInTransit ==
    \A p \in Peer :
        /\ Len(Relayed(p)) <= numSent[p]
        /\ Relayed(p) = SubSeq(Stream(p), 1, Len(Relayed(p)))
        /\ pc # "done" /\ ~reset[p] => Relayed(p) \o InHand(p) \o inbox[p] = Stream(p)

\* When copyloop returns because a peer has closed, everything that peer sent
\* has been written to the other one, also when the hangup was reported
\* together with the data (handled_readable_fd).
CloserIsHeardOut ==
    pc = "done" /\ result = "closed" /\ (\E p \in Peer : shut[p]) /\ (\A p \in Peer : ~reset[p]) =>
        \E p \in Peer : shut[p] /\ Relayed(p) = Stream(p)

\* Between two reads the totals, with what is pending, are exactly the chunks
\* written; during a write they lag behind and never run ahead, and a buffer
\* cut short by an error is not counted.  Nothing is pending any more once
\* copyloop has returned.
TotalsMatchRelayed ==
    /\ \A p \in Peer :
        /\ total[p] + pending[p] <= Len(Relayed(p))
        /\ pc # "write" /\ result # "error" => total[p] + pending[p] = Len(Relayed(p))
    /\ pc = "done" => \A p \in Peer : pending[p] = 0

\* When a peer ends its connection the session ends, as long as both read what
\* they are sent: the thread does not get stuck between the two directions.
SessionEnds == (\E p \in Peer : shut[p] \/ reset[p]) ~> pc = "done"

=============================================================================
