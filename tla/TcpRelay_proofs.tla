--------------------------- MODULE TcpRelay_proofs ---------------------------
(***************************************************************************)
(* What copyloop does to the two streams, for every size of its buffer, of *)
(* the sockets and of the accounting threshold, and any number of chunks.  *)
(*                                                                         *)
(* A peer's chunks are numbered, so each place they pass holds a run of    *)
(* consecutive numbers, and the argument is where each run begins: what    *)
(* was read of it, what was written, what is in the buffer and what is     *)
(* still to be read follow each other without gap or overlap (Placed).     *)
(* Accounting is behind by what the current buffer has written, and by     *)
(* nothing else (Counted); and a hangup that poll reported without data    *)
(* still means that nothing is left to read (Drained).                     *)
(***************************************************************************)
EXTENDS TcpRelay, SequenceTheorems, TLAPS

\* The consecutive numbers that come after n.
Run(s, n) == \A k \in 1 .. Len(s) : s[k] = n + k

Written(p) == Len(got[Other(p)]) + Len(outbox[Other(p)])
InWrite(p) == pc = "write" /\ from = p
Held(p) == IF InWrite(p) THEN Len(buf) - sent ELSE 0

Placed ==
    \A p \in Peer :
        /\ Run(got[Other(p)], 0)
        /\ Run(outbox[Other(p)], Len(got[Other(p)]))
        /\ Written(p) <= numSent[p]
        /\ InWrite(p) => Run(buf, Written(p) - sent)
        /\ pc # "done" =>
            /\ Run(inbox[p], Written(p) + Held(p))
            /\ Written(p) + Held(p) + Len(inbox[p]) <= numSent[p]
            /\ ~reset[p] => Written(p) + Held(p) + Len(inbox[p]) = numSent[p]

Counted ==
    /\ pc # "done" <=> result = "none"
    /\ \A p \in Peer :
        /\ pc # "done" =>
            total[p] + pending[p] + (IF InWrite(p) THEN sent ELSE 0) = Written(p)
        /\ pc = "done" => /\ pending[p] = 0
                          /\ total[p] <= Written(p)
                          /\ result = "closed" => total[p] = Written(p)

Drained ==
    \A p \in Peer :
        "hup" \in revents[p] /\ "in" \notin revents[p] /\ ~reset[p] =>
            shut[p] /\ inbox[p] = <<>>

HeardOut ==
    (\E p \in Peer : shut[p]) /\ (\A p \in Peer : ~reset[p]) =>
        \E p \in Peer : shut[p] /\ Written(p) = numSent[p]

Inv ==
    /\ TypeOK
    /\ Placed
    /\ Counted
    /\ Drained
    /\ pc = "done" /\ result = "closed" => HeardOut

-----------------------------------------------------------------------------
\* Runs

LEMMA RunAppend ==
    ASSUME NEW S, NEW s \in Seq(S), NEW n \in Nat, Run(s, n), n + Len(s) + 1 \in S
    PROVE  Run(Append(s, n + Len(s) + 1), n)
BY AppendProperties, LenProperties DEF Run

LEMMA RunConcat ==
    ASSUME NEW S, NEW s \in Seq(S), NEW t \in Seq(S), NEW n \in Nat,
           Run(s, n), Run(t, n + Len(s))
    PROVE  /\ s \o t \in Seq(S) /\ Len(s \o t) = Len(s) + Len(t)
           /\ Run(s \o t, n)
<1>1. /\ s \o t \in Seq(S) /\ Len(s \o t) = Len(s) + Len(t)
      /\ Len(s) \in Nat /\ Len(t) \in Nat
      /\ \A k \in 1 .. Len(s) + Len(t) :
           (s \o t)[k] = IF k <= Len(s) THEN s[k] ELSE t[k - Len(s)]
  BY ConcatProperties, LenProperties
<1>2. ASSUME NEW k \in 1 .. Len(s) + Len(t)
      PROVE  (s \o t)[k] = n + k
  <2>1. CASE k <= Len(s)
    BY <1>1, <2>1 DEF Run
  <2>2. CASE k > Len(s)
    <3>1. k - Len(s) \in 1 .. Len(t) /\ (n + Len(s)) + (k - Len(s)) = n + k
      BY <1>1, <2>2
    <3> QED
      BY <1>1, <2>2, <3>1 DEF Run
  <2> QED
    BY <1>1, <2>1, <2>2
<1> QED
  BY <1>1, <1>2 DEF Run

LEMMA RunSubSeq ==
    ASSUME NEW S, NEW s \in Seq(S), NEW n \in Int, Run(s, n),
           NEW a \in 1 .. Len(s) + 1, NEW b \in a - 1 .. Len(s)
    PROVE  /\ SubSeq(s, a, b) \in Seq(S) /\ Len(SubSeq(s, a, b)) = b - a + 1
           /\ Run(SubSeq(s, a, b), n + a - 1)
<1>1. Len(s) \in Nat /\ a \in Int /\ b \in Int /\ \A k \in a .. b : k \in 1 .. Len(s) /\ s[k] \in S
  <2>1. Len(s) \in Nat /\ \A k \in 1 .. Len(s) : s[k] \in S
    BY LenProperties, ElementOfSeq
  <2> QED
    BY <2>1
<1>2. /\ SubSeq(s, a, b) \in Seq(S)
      /\ Len(SubSeq(s, a, b)) = IF a <= b THEN b - a + 1 ELSE 0
      /\ \A k \in 1 .. b - a + 1 : SubSeq(s, a, b)[k] = s[a + k - 1]
  BY <1>1, SubSeqProperties
<1>3. Len(SubSeq(s, a, b)) = b - a + 1
  BY <1>1, <1>2
<1>4. ASSUME NEW k \in 1 .. b - a + 1
      PROVE  SubSeq(s, a, b)[k] = (n + a - 1) + k
  <2>1. a + k - 1 \in a .. b
    BY <1>1
  <2>2. s[a + k - 1] = n + (a + k - 1)
    BY <1>1, <2>1 DEF Run
  <2> QED
    BY <1>1, <1>2, <2>2
<1> QED
  BY <1>2, <1>3, <1>4 DEF Run

\* The numbers 1 to n in order are one sequence only.
LEMMA RunIsUnique ==
    ASSUME NEW S, NEW s \in Seq(S), NEW n \in Nat, Len(s) = n, Run(s, 0)
    PROVE  s = [k \in 1 .. n |-> k]
<1>1. DOMAIN s = 1 .. n /\ s = [k \in 1 .. n |-> s[k]]
  BY LenProperties
<1>2. \A k \in 1 .. n : s[k] = k
  BY DEF Run
<1> QED
  BY <1>1, <1>2

-----------------------------------------------------------------------------
LEMMA Others == \A p \in Peer : Other(p) \in Peer /\ Other(p) # p
BY DEF Peer, Other

LEMMA OthersOther == \A p, q \in Peer : q # p <=> q = Other(p)
BY DEF Peer, Other

\* The lengths the counts are made of are natural numbers.
LEMMA Sizes ==
    ASSUME TypeOK
    PROVE  /\ \A p \in Peer : /\ Len(inbox[p]) \in Nat /\ Len(outbox[p]) \in Nat
                              /\ Len(got[p]) \in Nat /\ numSent[p] \in Nat
                              /\ Written(p) \in Nat
                              /\ total[p] \in Nat /\ pending[p] \in Nat
           /\ FlushAt \in Nat \ {0} /\ 0 \in 0 .. FlushAt - 1
           /\ Len(buf) \in Nat /\ sent \in Nat /\ sent <= Len(buf)
<1>1. /\ \A p \in Peer : /\ inbox[p] \in Seq(Chunk) /\ outbox[p] \in Seq(Chunk)
                         /\ got[p] \in Seq(Chunk) /\ numSent[p] \in Nat
      /\ buf \in Seq(Chunk) /\ sent \in 0 .. Len(buf)
  BY RelayAssumption DEF TypeOK
<1>2. /\ \A p \in Peer : /\ Len(inbox[p]) \in Nat /\ Len(outbox[p]) \in Nat
                         /\ Len(got[p]) \in Nat
      /\ Len(buf) \in Nat
  BY <1>1, LenProperties
<1>3. ASSUME NEW p \in Peer PROVE Written(p) \in Nat
  <2>1. Len(got[Other(p)]) \in Nat /\ Len(outbox[Other(p)]) \in Nat
    <3>1. Other(p) \in Peer
      BY Others
    <3> QED
      BY <1>2, <3>1
  <2> DEFINE a == Len(got[Other(p)])
             b == Len(outbox[Other(p)])
  <2>2. a \in Nat /\ b \in Nat /\ Written(p) = a + b
    BY <2>1 DEF Written
  <2> HIDE DEF a, b
  <2> QED
    BY <2>2
<1>4. /\ \A p \in Peer : total[p] \in Nat /\ pending[p] \in Nat
      /\ FlushAt \in Nat \ {0} /\ 0 \in 0 .. FlushAt - 1
  BY RelayAssumption DEF TypeOK
<1> QED
  BY <1>1, <1>2, <1>3, <1>4

LEMMA InitInv == Init => Inv
<1> SUFFICES ASSUME Init PROVE Inv
  OBVIOUS
<1>1. /\ <<>> \in Seq(Chunk) /\ Len(<<>>) = 0
  OBVIOUS
<1>2. TypeOK
  BY <1>1, RelayAssumption DEF Init, TypeOK, Peer, Revent
<1>3. \A p \in Peer : Written(p) = 0 /\ Held(p) = 0 /\ ~InWrite(p)
  BY <1>1, Others DEF Init, Written, Held, InWrite
<1>4. Placed
  BY <1>1, <1>3, Others DEF Init, Placed, Run
<1>5. Counted /\ Drained
  BY <1>1, <1>3 DEF Init, Counted, Drained
<1> QED
  BY <1>2, <1>4, <1>5 DEF Init, Inv

\* copyloop returns: what is pending is added to the totals.
LEMMA FinishInv ==
    ASSUME Inv, pc # "done", NEW state \in {"closed", "error"}, Finish(state),
           state = "closed" => pc # "write" /\ HeardOut
    PROVE  Inv'
<1>1. /\ pc' = "done" /\ result' = state
      /\ total' = [p \in Peer |-> total[p] + pending[p]] /\ pending' = [p \in Peer |-> 0]
      /\ UNCHANGED <<revents, from, buf, sent>>
      /\ UNCHANGED <<inbox, outbox, shut, reset, numSent, got>>
  BY DEF Finish, peerVars
<1>2. TypeOK'
  <2>1. total' \in [Peer -> Nat] /\ pending' \in [Peer -> 0 .. FlushAt - 1]
    BY <1>1, Sizes DEF Inv
  <2> QED
    BY <1>1, <2>1 DEF Inv, TypeOK
<1>3. \A p \in Peer : Written(p)' = Written(p) /\ ~InWrite(p)'
  BY <1>1 DEF Written, InWrite
<1>4. Placed'
  BY <1>1, <1>3 DEF Inv, Placed, Run
<1>5. Counted'
  <2>1. result' # "none"
    BY <1>1
  <2>2. ASSUME NEW p \in Peer
        PROVE  /\ total[p] + pending[p] <= Written(p)
               /\ state = "closed" => total[p] + pending[p] = Written(p)
    <3>1. /\ total[p] \in Nat /\ pending[p] \in Nat /\ sent \in Nat /\ Written(p) \in Nat
          /\ total[p] + pending[p] + (IF InWrite(p) THEN sent ELSE 0) = Written(p)
      BY Sizes DEF Inv, Counted
    <3> QED
      BY <3>1 DEF InWrite
  <2> QED
    BY <1>1, <1>3, <2>1, <2>2 DEF Counted
<1>6. Drained' /\ (state = "closed" => HeardOut')
  BY <1>1, <1>3 DEF Inv, Drained, HeardOut
<1> QED
  BY <1>1, <1>2, <1>4, <1>5, <1>6 DEF Inv

\* The thread goes on to look at something else and moves no chunk.
LEMMA ControlInv ==
    ASSUME Inv, pc \notin {"write", "done"}, pc' \in Peer \cup {"poll", "hangup"},
           UNCHANGED <<from, buf, sent, pending, total, result, peerVars>>,
           revents' \in [Peer -> SUBSET Revent], Drained'
    PROVE  Inv'
<1>1. /\ UNCHANGED <<inbox, outbox, shut, reset, numSent, got>>
      /\ pc' \notin {"write", "done"}
  BY DEF peerVars, Peer
<1>2. TypeOK'
  BY <1>1 DEF Inv, TypeOK
<1>3. \A p \in Peer : /\ Written(p)' = Written(p) /\ ~InWrite(p) /\ ~InWrite(p)'
                      /\ Held(p) = 0 /\ Held(p)' = 0
  BY <1>1 DEF Written, InWrite, Held
<1>4. Placed'
  BY <1>1, <1>3 DEF Inv, Placed, Run
<1>5. Counted'
  BY <1>1, <1>3 DEF Inv, Counted
<1> QED
  BY <1>1, <1>2, <1>4, <1>5 DEF Inv

\* A whole chunk buffer is written: it is counted.
LEMMA AccountInv == ASSUME Inv, Account PROVE Inv'
<1> DEFINE sum == pending[from] + Len(buf)
<1>1. /\ pc = "write" /\ sent = Len(buf) /\ pc' = After(from)
      /\ IF sum >= FlushAt
         THEN /\ total' = [total EXCEPT ![from] = total[from] + sum]
              /\ pending' = [pending EXCEPT ![from] = 0]
         ELSE /\ pending' = [pending EXCEPT ![from] = sum]
              /\ UNCHANGED total
      /\ UNCHANGED <<revents, from, buf, sent, result>>
      /\ UNCHANGED <<inbox, outbox, shut, reset, numSent, got>>
  BY DEF Account, peerVars
<1>2. from \in Peer /\ pc' \in {"target", "hangup"}
  BY <1>1 DEF Inv, TypeOK, After
<1>3. /\ total[from] \in Nat /\ pending[from] \in Nat /\ Len(buf) \in Nat /\ sum \in Nat
      /\ FlushAt \in Nat \ {0} /\ 0 \in 0 .. FlushAt - 1
  BY <1>2, Sizes DEF Inv
<1>4. \A p \in Peer : /\ Written(p)' = Written(p) /\ ~InWrite(p)' /\ Held(p)' = 0
                      /\ InWrite(p) <=> p = from
                      /\ Held(p) = 0
  BY <1>1, <1>2, <1>3 DEF Written, InWrite, Held, Peer
<1>5. /\ total' \in [Peer -> Nat] /\ pending' \in [Peer -> 0 .. FlushAt - 1]
      /\ \A p \in Peer : total'[p] + pending'[p] =
           total[p] + pending[p] + (IF p = from THEN Len(buf) ELSE 0)
  <2>0. total \in [Peer -> Nat] /\ pending \in [Peer -> 0 .. FlushAt - 1]
        /\ \A p \in Peer : total[p] \in Nat /\ pending[p] \in Nat
    BY Sizes DEF Inv, TypeOK
  <2>1. CASE sum >= FlushAt
    <3>1. total' = [total EXCEPT ![from] = total[from] + sum]
          /\ pending' = [pending EXCEPT ![from] = 0]
      BY <1>1, <2>1
    <3>2. total[from] + sum = total[from] + pending[from] + Len(buf) /\ total[from] + sum \in Nat
      BY <1>3
    <3> HIDE DEF sum
    <3> QED
      BY <1>2, <1>3, <2>0, <3>1, <3>2
  <2>2. CASE ~(sum >= FlushAt)
    <3>1. sum \in 0 .. FlushAt - 1
      BY <1>3, <2>2
    <3>2. total' = total /\ pending' = [pending EXCEPT ![from] = sum]
      BY <1>1, <2>2
    <3>3. total[from] + sum = total[from] + pending[from] + Len(buf)
      BY <1>3
    <3> HIDE DEF sum
    <3> QED
      BY <1>2, <1>3, <2>0, <3>1, <3>2, <3>3
  <2> QED
    BY <2>1, <2>2
<1>6. TypeOK'
  BY <1>1, <1>2, <1>5 DEF Inv, TypeOK, Peer
<1>7. Placed'
  BY <1>1, <1>2, <1>4 DEF Inv, Placed, Run
<1>8. Counted'
  BY <1>1, <1>2, <1>4, <1>5 DEF Inv, Counted
<1>9. Drained'
  BY <1>1 DEF Inv, Drained
<1> QED
  BY <1>2, <1>6, <1>7, <1>8, <1>9 DEF Inv

\* What poll reported stays true of the inbox of a peer that is not reset.
LEMMA PollReportsInv == ASSUME Inv, PollReports PROVE Inv'
<1>1. /\ pc = "poll" /\ pc' = "client" /\ revents' \in [Peer -> SUBSET Revent]
      /\ \A p \in Peer : revents'[p] \in Report(p)
      /\ UNCHANGED <<from, buf, sent, pending, total, result, peerVars>>
  BY DEF PollReports
<1>2. ASSUME NEW p \in Peer, "hup" \in revents'[p], "in" \notin revents'[p], ~reset'[p]
      PROVE  shut'[p] /\ inbox'[p] = <<>>
  BY <1>1, <1>2 DEF Report, Nothing, peerVars
<1>3. Drained'
  BY <1>2 DEF Drained
<1> QED
  BY <1>1, <1>3, ControlInv DEF Peer

\* The thread returns from copyloop.
LEMMA ReturnInv ==
    ASSUME Inv,
           \/ PollTimesOut \/ PollFails \/ PollReportsError \/ WriteFails \/ Hangup
           \/ \E p \in Peer : ReadEnd(p) \/ ReadFails(p)
    PROVE  Inv'
<1>1. CASE PollTimesOut
  BY <1>1, FinishInv DEF PollTimesOut, Nothing, HeardOut
<1>2. CASE PollFails \/ PollReportsError \/ WriteFails \/ \E p \in Peer : ReadFails(p)
  BY <1>2, FinishInv DEF PollFails, PollReportsError, WriteFails, ReadFails, Peer
<1>3. ASSUME NEW p \in Peer, shut[p], pc \notin {"write", "done"},
             ~reset[p] => inbox[p] = <<>>
      PROVE  HeardOut
  <2>1. Len(<<>>) = 0
    OBVIOUS
  <2>2. ~reset[p] => Written(p) + 0 + 0 = numSent[p]
    BY <1>3, <2>1 DEF Inv, Placed, Held, InWrite
  <2>3. Written(p) \in Nat
    BY Sizes DEF Inv
  <2> QED
    BY <1>3, <2>2, <2>3 DEF HeardOut
<1>4. CASE \E p \in Peer : ReadEnd(p)
  <2>1. PICK p \in Peer : ReadEnd(p)
    BY <1>4
  <2>2. pc \notin {"write", "done"} /\ HeardOut
    BY <1>3, <2>1 DEF ReadEnd, Peer
  <2> QED
    BY <2>1, <2>2, FinishInv DEF ReadEnd
<1>5. CASE Hangup
  <2>1. PICK p \in Peer : "hup" \in revents[p] /\ "in" \notin revents[p]
    BY <1>5 DEF Hangup, HasHangup, HandledReadableFd
  <2>2. ~reset[p] => shut[p] /\ inbox[p] = <<>>
    BY <2>1 DEF Inv, Drained
  <2>3. pc = "hangup" /\ Finish("closed")
    BY <1>5 DEF Hangup
  <2>4. HeardOut
    <3>1. CASE reset[p]
      BY <3>1 DEF HeardOut
    <3>2. CASE ~reset[p]
      BY <1>3, <2>2, <2>3, <3>2
    <3> QED
      BY <3>1, <3>2
  <2> QED
    BY <2>3, <2>4, FinishInv
<1> QED
  BY <1>1, <1>2, <1>4, <1>5

-----------------------------------------------------------------------------
\* A read takes the first chunks of the inbox into the buffer.
LEMMA ReadDataInv == ASSUME Inv, NEW p \in Peer, ReadData(p) PROVE Inv'
<1> DEFINE n == IF Len(inbox[p]) < BufferSize THEN Len(inbox[p]) ELSE BufferSize
           l == Len(inbox[p])
<1>1. /\ pc = p /\ "in" \in revents[p] /\ inbox[p] # <<>>
      /\ buf' = SubSeq(inbox[p], 1, n)
      /\ inbox' = [inbox EXCEPT ![p] = SubSeq(inbox[p], n + 1, l)]
      /\ sent' = 0 /\ from' = p /\ pc' = "write"
      /\ UNCHANGED <<revents, pending, total, result, outbox, shut, reset, numSent, got>>
  BY DEF ReadData
<1>2. /\ inbox[p] \in Seq(Chunk) /\ l \in Nat /\ n \in 0 .. l /\ n <= BufferSize
      /\ Written(p) \in Nat /\ l <= InCapacity
      /\ InCapacity \in Nat
  <2>1. /\ inbox[p] \in Seq(Chunk) /\ l \in Nat /\ Written(p) \in Nat /\ l <= InCapacity
    BY Sizes DEF Inv, TypeOK
  <2>2. n \in 0 .. l /\ n <= BufferSize /\ InCapacity \in Nat
    BY <2>1, RelayAssumption
  <2> QED
    BY <2>1, <2>2
<1>3. pc \notin {"write", "done"}
  BY <1>1 DEF Peer
<1>4. \A q \in Peer : Written(q)' = Written(q) /\ ~InWrite(q) /\ Held(q) = 0 /\ (InWrite(q)' <=> q = p)
  BY <1>1, <1>3 DEF Written, InWrite, Held
<1>5. Run(inbox[p], Written(p)) /\ Written(p) + l <= numSent[p]
      /\ (~reset[p] => Written(p) + l = numSent[p])
  <2>1. /\ Run(inbox[p], Written(p) + Held(p)) /\ Written(p) + Held(p) + l <= numSent[p]
        /\ ~reset[p] => Written(p) + Held(p) + l = numSent[p]
    BY <1>3 DEF Inv, Placed
  <2>2. Held(p) = 0
    BY <1>4
  <2> HIDE DEF l
  <2> QED
    BY <1>2, <2>1, <2>2
<1>6. /\ buf' \in Seq(Chunk) /\ Len(buf') = n /\ Run(buf', Written(p))
      /\ inbox'[p] \in Seq(Chunk) /\ Len(inbox'[p]) = l - n /\ Run(inbox'[p], Written(p) + n)
  <2>1. /\ SubSeq(inbox[p], 1, n) \in Seq(Chunk) /\ Len(SubSeq(inbox[p], 1, n)) = n - 1 + 1
        /\ Run(SubSeq(inbox[p], 1, n), Written(p) + 1 - 1)
    <3> HIDE DEF n
    <3>1. 1 \in 1 .. l + 1 /\ n \in 1 - 1 .. l /\ Written(p) \in Int
      BY <1>2
    <3> QED
      BY <1>2, <1>5, <3>1, RunSubSeq
  <2>2. /\ SubSeq(inbox[p], n + 1, l) \in Seq(Chunk) /\ Len(SubSeq(inbox[p], n + 1, l)) = l - (n + 1) + 1
        /\ Run(SubSeq(inbox[p], n + 1, l), Written(p) + (n + 1) - 1)
    <3> HIDE DEF n
    <3>1. n + 1 \in 1 .. l + 1 /\ l \in (n + 1) - 1 .. l /\ Written(p) \in Int
      BY <1>2
    <3> QED
      BY <1>2, <1>5, <3>1, RunSubSeq
  <2>3. inbox'[p] = SubSeq(inbox[p], n + 1, l)
    BY <1>1 DEF Inv, TypeOK
  <2> HIDE DEF n, l
  <2>4. /\ n - 1 + 1 = n /\ Written(p) + 1 - 1 = Written(p)
        /\ l - (n + 1) + 1 = l - n /\ Written(p) + (n + 1) - 1 = Written(p) + n
    BY <1>2
  <2> QED
    BY <1>1, <2>1, <2>2, <2>3, <2>4
<1> HIDE DEF n
<1>7. Held(p)' = n /\ \A q \in Peer : q # p => Held(q)' = 0 /\ inbox'[q] = inbox[q]
  <2>1. Held(p)' = n
    BY <1>1, <1>2, <1>6 DEF Held, InWrite
  <2>2. \A q \in Peer : q # p => Held(q)' = 0
    BY <1>4 DEF Held
  <2>3. \A q \in Peer : q # p => inbox'[q] = inbox[q]
    BY <1>1 DEF Inv, TypeOK
  <2> QED
    BY <2>1, <2>2, <2>3
<1>8. TypeOK'
  <2>1. inbox' \in [Peer -> Seq(Chunk)] /\ \A q \in Peer : Len(inbox'[q]) <= InCapacity
    <3>1. inbox' \in [Peer -> Seq(Chunk)]
      BY <1>1, <1>6 DEF Inv, TypeOK
    <3>2. Len(inbox'[p]) <= InCapacity
      BY <1>2, <1>6
    <3> QED
      BY <1>7, <3>1, <3>2 DEF Inv, TypeOK
  <2>2. Len(buf') <= BufferSize /\ sent' \in 0 .. Len(buf')
    BY <1>1, <1>2, <1>6
  <2> QED
    BY <1>1, <1>6, <2>1, <2>2 DEF Inv, TypeOK
<1>9. Placed'
  <2>1. \A q \in Peer : /\ Run(got[Other(q)], 0)' /\ Run(outbox[Other(q)], Len(got[Other(q)]))'
                        /\ Written(q)' <= numSent'[q]
    BY <1>1, <1>4 DEF Inv, Placed, Run
  <2>2. Run(buf', Written(p)' - sent')
    BY <1>1, <1>2, <1>4, <1>6
  <2>3. /\ Run(inbox'[p], Written(p)' + Held(p)')
        /\ Written(p)' + Held(p)' + Len(inbox'[p]) <= numSent'[p]
        /\ ~reset'[p] => Written(p)' + Held(p)' + Len(inbox'[p]) = numSent'[p]
    <3>1. Written(p) + n + (l - n) = Written(p) + l
      BY <1>2
    <3> QED
      BY <1>1, <1>4, <1>5, <1>6, <1>7, <3>1
  <2>4. ASSUME NEW q \in Peer, q # p
        PROVE  /\ Run(inbox[q], Written(q) + Held(q))'
               /\ (Written(q) + Held(q) + Len(inbox[q]) <= numSent[q])'
               /\ (~reset[q] => Written(q) + Held(q) + Len(inbox[q]) = numSent[q])'
    <3>1. /\ Run(inbox[q], Written(q) + Held(q))
          /\ Written(q) + Held(q) + Len(inbox[q]) <= numSent[q]
          /\ ~reset[q] => Written(q) + Held(q) + Len(inbox[q]) = numSent[q]
      BY <1>3 DEF Inv, Placed
    <3>2. Held(q)' = Held(q) /\ Written(q)' = Written(q) /\ inbox'[q] = inbox[q]
      BY <1>4, <1>7, <2>4
    <3> QED
      BY <1>1, <3>1, <3>2 DEF Run
  <2> QED
    BY <1>4, <2>1, <2>2, <2>3, <2>4 DEF Placed, Run
<1>10. Counted'
  BY <1>1, <1>3, <1>4, Sizes DEF Inv, Counted
<1>11. Drained'
  BY <1>1, <1>7 DEF Inv, Drained
<1> QED
  BY <1>1, <1>8, <1>9, <1>10, <1>11 DEF Inv

\* A write hands the next chunks of the buffer to the other peer's socket.
LEMMA WriteSomeInv == ASSUME Inv, WriteSome PROVE Inv'
<1> DEFINE q == Other(from)
           w == Written(from)
           g == Len(got[q])           \* what the other peer has read,
           o == Len(outbox[q])        \* what it has not,
           l == Len(buf)
           b == Len(inbox[from])
<1>1. PICK m \in 1 .. Len(buf) - sent :
        /\ Len(outbox[q]) + m <= OutCapacity
        /\ outbox' = [outbox EXCEPT ![q] = outbox[q] \o SubSeq(buf, sent + 1, sent + m)]
        /\ sent' = sent + m
  BY DEF WriteSome
<1>2. /\ pc = "write" /\ pc' = "write" /\ sent < Len(buf)
      /\ UNCHANGED <<revents, from, buf, pending, total, result>>
      /\ UNCHANGED <<inbox, shut, reset, numSent, got>>
  BY DEF WriteSome
<1>3. /\ from \in Peer /\ q \in Peer /\ \A p \in Peer : p # from <=> Other(p) # q
  BY Others DEF Inv, TypeOK, Peer, Other
<1>4. /\ buf \in Seq(Chunk) /\ outbox[q] \in Seq(Chunk) /\ outbox \in [Peer -> Seq(Chunk)]
      /\ l \in Nat /\ sent \in Nat /\ o \in Nat /\ g \in Nat
      /\ w \in Nat /\ m \in Nat /\ sent + m <= l /\ OutCapacity \in Nat
  <2>1. /\ buf \in Seq(Chunk) /\ outbox[q] \in Seq(Chunk) /\ outbox \in [Peer -> Seq(Chunk)]
        /\ l \in Nat /\ sent \in Nat /\ o \in Nat /\ g \in Nat
        /\ w \in Nat
    BY <1>3, Sizes DEF Inv, TypeOK
  <2> HIDE DEF q, w, g, o, l, b
  <2>2. m \in 1 .. l - sent
    BY <1>1 DEF l
  <2> QED
    BY <2>1, <2>2, RelayAssumption
<1>5. w = g + o
  BY DEF Written
<1>6. /\ Run(buf, w - sent) /\ Run(outbox[q], g)
      /\ Run(inbox[from], w + Held(from)) /\ w + Held(from) + b <= numSent[from]
      /\ ~reset[from] => w + Held(from) + b = numSent[from]
      /\ Held(from) = l - sent
      /\ b \in Nat /\ numSent[from] \in Nat
  BY <1>2, <1>3, Sizes DEF Inv, Placed, InWrite, Held
<1> DEFINE piece == SubSeq(buf, sent + 1, sent + m)
<1> HIDE DEF q, w, g, o, l, b
<1>7. piece \in Seq(Chunk) /\ Len(piece) = m /\ Run(piece, w)
  <2>1. /\ sent + 1 \in 1 .. l + 1 /\ sent + m \in (sent + 1) - 1 .. l
        /\ w - sent \in Int
    BY <1>4
  <2>2. /\ piece \in Seq(Chunk) /\ Len(piece) = (sent + m) - (sent + 1) + 1
        /\ Run(piece, (w - sent) + (sent + 1) - 1)
    BY <1>4, <1>6, <2>1, RunSubSeq DEF l
  <2>3. (sent + m) - (sent + 1) + 1 = m /\ (w - sent) + (sent + 1) - 1 = w
    BY <1>4
  <2> HIDE DEF piece
  <2> QED
    BY <2>2, <2>3
<1> HIDE DEF piece
<1>8. /\ outbox'[q] \in Seq(Chunk) /\ Len(outbox'[q]) = o + m
      /\ Run(outbox'[q], g)
  <2>1. outbox'[q] = outbox[q] \o piece
    BY <1>1, <1>3, <1>4 DEF piece
  <2>2. Run(piece, g + Len(outbox[q]))
    BY <1>5, <1>7 DEF o
  <2>3. /\ outbox[q] \o piece \in Seq(Chunk) /\ Run(outbox[q] \o piece, g)
        /\ Len(outbox[q] \o piece) = Len(outbox[q]) + Len(piece)
    BY <1>4, <1>6, <1>7, <2>2, RunConcat
  <2> QED
    BY <1>7, <2>1, <2>3 DEF o
<1>9. \A p \in Peer : p # from => outbox'[Other(p)] = outbox[Other(p)]
  <2>1. \A r \in Peer : r # q => outbox'[r] = outbox[r]
    BY <1>1, <1>4
  <2> QED
    BY <1>3, <2>1, Others
<1>10. /\ Written(from)' = w + m /\ Held(from)' = Held(from) - m /\ InWrite(from) /\ InWrite(from)'
       /\ \A p \in Peer : p # from => /\ Written(p)' = Written(p) /\ ~InWrite(p) /\ ~InWrite(p)'
                                       /\ Held(p) = 0 /\ Held(p)' = 0
  <2>1. Written(from)' = g + (o + m)
    BY <1>2, <1>8 DEF Written, q, g
  <2>2. Written(from)' = w + m
    BY <1>4, <1>5, <2>1
  <2>3. Held(from) = l - sent /\ Held(from)' = l - (sent + m)
        /\ InWrite(from) /\ InWrite(from)'
    BY <1>1, <1>2 DEF Held, InWrite, l
  <2>4. Held(from)' = Held(from) - m
    BY <1>4, <2>3
  <2>5. \A p \in Peer : p # from => /\ Written(p)' = Written(p) /\ ~InWrite(p) /\ ~InWrite(p)'
                                     /\ Held(p) = 0 /\ Held(p)' = 0
    BY <1>2, <1>9 DEF Written, InWrite, Held
  <2> QED
    BY <2>2, <2>3, <2>4, <2>5
<1>11. TypeOK'
  <2>1. outbox' \in [Peer -> Seq(Chunk)]
    BY <1>1, <1>3, <1>4, <1>8
  <2>2. \A r \in Peer : Len(outbox'[r]) <= OutCapacity
    <3>1. Len(outbox'[q]) <= OutCapacity
      BY <1>1, <1>8 DEF o
    <3>2. \A r \in Peer : r # q => outbox'[r] = outbox[r]
      BY <1>1, <1>4
    <3> QED
      BY <3>1, <3>2 DEF Inv, TypeOK
  <2>3. sent' \in 0 .. Len(buf)
    <3>1. sent + m \in 0 .. l
      BY <1>4
    <3> QED
      BY <1>1, <3>1 DEF l
  <2> QED
    BY <1>2, <2>1, <2>2, <2>3 DEF Inv, TypeOK
<1>12. Placed'
  <2>1. /\ Run(got[Other(from)], 0)' /\ Run(outbox[Other(from)], Len(got[Other(from)]))'
        /\ Run(buf, Written(from) - sent)'
    <3>1. Run(got[q], 0) /\ g = Len(got[q]) /\ got' = got /\ buf' = buf /\ from' = from
      BY <1>2, <1>3 DEF Inv, Placed, q, g
    <3>2. Written(from)' - sent' = w - sent
      BY <1>1, <1>4, <1>10
    <3>3. Run(buf', Written(from)' - sent')
      BY <1>6, <3>1, <3>2
    <3>4. Run(got'[q], 0) /\ Run(outbox'[q], Len(got'[q]))
      BY <1>8, <3>1
    <3>5. q = Other(from')
      BY <3>1 DEF q
    <3> QED
      BY <3>1, <3>3, <3>4, <3>5 DEF Run
  <2>2. /\ Run(inbox[from], Written(from) + Held(from))'
        /\ (Written(from) + Held(from) + Len(inbox[from]) <= numSent[from])'
        /\ (~reset[from] => Written(from) + Held(from) + Len(inbox[from]) = numSent[from])'
        /\ (Written(from) <= numSent[from])'
    <3>1. Written(from)' + Held(from)' = w + Held(from) /\ w + m <= w + Held(from)
      BY <1>4, <1>6, <1>10
    <3>2. w + m <= numSent[from]
      BY <1>4, <1>6, <3>1
    <3>3. inbox' = inbox /\ numSent' = numSent /\ reset' = reset /\ from' = from
      BY <1>2
    <3> QED
      BY <1>6, <1>10, <3>1, <3>2, <3>3 DEF Run, b
  <2>3. ASSUME NEW p \in Peer, p # from
        PROVE  /\ Run(got[Other(p)], 0)' /\ Run(outbox[Other(p)], Len(got[Other(p)]))'
               /\ (Written(p) <= numSent[p])'
               /\ Run(inbox[p], Written(p) + Held(p))'
               /\ (Written(p) + Held(p) + Len(inbox[p]) <= numSent[p])'
               /\ (~reset[p] => Written(p) + Held(p) + Len(inbox[p]) = numSent[p])'
    BY <1>2, <1>9, <1>10, <2>3 DEF Inv, Placed, Run
  <2> QED
    BY <1>2, <1>10, <2>1, <2>2, <2>3 DEF Placed
<1>13. Counted'
  <2>1. total[from] + pending[from] + sent = w /\ total[from] \in Nat /\ pending[from] \in Nat
    <3>1. \A p \in Peer : total[p] \in Nat /\ pending[p] \in Nat
      BY Sizes DEF Inv
    <3>2. total[from] + pending[from] + (IF InWrite(from) THEN sent ELSE 0) = Written(from)
      BY <1>2, <1>3 DEF Inv, Counted
    <3> QED
      BY <1>3, <1>10, <3>1, <3>2 DEF w
  <2>2. total[from] + pending[from] + (sent + m) = w + m
    <3> DEFINE x == total[from]
               y == pending[from]
    <3>1. x + y + sent = w /\ x \in Nat /\ y \in Nat
      BY <2>1
    <3> HIDE DEF x, y
    <3>2. x + y + (sent + m) = w + m
      BY <1>4, <3>1
    <3> QED
      BY <3>2 DEF x, y
  <2> QED
    BY <1>1, <1>2, <1>10, <2>2 DEF Inv, Counted
<1>14. Drained'
  BY <1>2 DEF Inv, Drained
<1> QED
  BY <1>2, <1>11, <1>12, <1>13, <1>14 DEF Inv

-----------------------------------------------------------------------------
\* The peers
LEMMA PeerSendsInv == ASSUME Inv, NEW p \in Peer, PeerSends(p) PROVE Inv'
<1> DEFINE n == numSent[p]
           l == Len(inbox[p])
           w == Written(p) + Held(p)
<1>1. /\ pc # "done" /\ ~shut[p] /\ ~reset[p] /\ numSent[p] < MaxSent
      /\ l < InCapacity
      /\ numSent' = [numSent EXCEPT ![p] = n + 1]
      /\ inbox' = [inbox EXCEPT ![p] = Append(inbox[p], n + 1)]
      /\ UNCHANGED <<pc, revents, from, buf, sent, pending, total, result>>
      /\ UNCHANGED <<outbox, shut, reset, got>>
  BY DEF PeerSends, threadVars
<1>2. /\ n \in Nat /\ l \in Nat /\ Written(p) \in Nat /\ Held(p) \in Nat
      /\ inbox[p] \in Seq(Chunk) /\ n + 1 \in Chunk /\ n + 1 \in 0 .. MaxSent
  <2>1. n \in Nat /\ l \in Nat /\ Written(p) \in Nat /\ inbox[p] \in Seq(Chunk)
    BY Sizes DEF Inv, TypeOK
  <2>2. Held(p) \in Nat
    <3>1. Len(buf) \in Nat /\ sent \in Nat /\ sent <= Len(buf)
      BY Sizes DEF Inv
    <3> DEFINE b == Len(buf)
    <3>2. b - sent \in Nat
      <4>1. b \in Nat /\ sent \in Nat /\ sent <= b
        BY <3>1
      <4> HIDE DEF b
      <4> QED
        BY <4>1
    <3> QED
      BY <3>2 DEF Held
  <2>3. n < MaxSent /\ MaxSent \in Nat
    BY <1>1, RelayAssumption
  <2> HIDE DEF n
  <2>4. n + 1 \in 1 .. MaxSent /\ n + 1 \in 0 .. MaxSent
    BY <2>1, <2>3
  <2> QED
    BY <2>1, <2>2, <2>4 DEF Chunk
<1>3. Run(inbox[p], w) /\ w + l = n /\ w \in Nat
  <2>1. Run(inbox[p], w) /\ w + l = n
    BY <1>1 DEF Inv, Placed
  <2> QED
    BY <1>2, <2>1
<1>4. /\ inbox'[p] \in Seq(Chunk) /\ Len(inbox'[p]) = l + 1 /\ Run(inbox'[p], w)
      /\ \A q \in Peer : q # p => inbox'[q] = inbox[q] /\ numSent'[q] = numSent[q]
      /\ numSent'[p] = n + 1
  <2>1. inbox'[p] = Append(inbox[p], n + 1) /\ numSent'[p] = n + 1
        /\ \A q \in Peer : q # p => inbox'[q] = inbox[q] /\ numSent'[q] = numSent[q]
    BY <1>1 DEF Inv, TypeOK
  <2>2. Append(inbox[p], n + 1) \in Seq(Chunk) /\ Len(Append(inbox[p], n + 1)) = l + 1
    BY <1>2, AppendProperties
  <2>3. w + Len(inbox[p]) + 1 = n + 1
    <3> HIDE DEF w, n
    <3> QED BY <1>3
  <2>4. Run(Append(inbox[p], w + Len(inbox[p]) + 1), w)
    <3> HIDE DEF w, n
    <3> QED BY <1>2, <1>3, <2>3, RunAppend
  <2> QED
    BY <2>1, <2>2, <2>3, <2>4
<1>5. \A q \in Peer : Written(q)' = Written(q) /\ Held(q)' = Held(q) /\ (InWrite(q)' <=> InWrite(q))
  BY <1>1 DEF Written, Held, InWrite
<1>6. TypeOK'
  <2>1. \A q \in Peer : Len(inbox'[q]) <= InCapacity
    <3>1. l + 1 <= InCapacity
      <4> HIDE DEF l
      <4> QED
        BY <1>1, <1>2, RelayAssumption
    <3> QED
      BY <1>4, <3>1 DEF Inv, TypeOK
  <2>2. inbox' \in [Peer -> Seq(Chunk)] /\ numSent' \in [Peer -> 0 .. MaxSent]
    BY <1>1, <1>2, <1>4 DEF Inv, TypeOK
  <2> QED
    BY <1>1, <2>1, <2>2 DEF Inv, TypeOK
<1>7. Placed'
  <2>1. /\ Written(p) <= n + 1
        /\ w + (l + 1) <= n + 1 /\ w + (l + 1) = n + 1
    <3>1. w = Written(p) + Held(p)
      OBVIOUS
    <3> HIDE DEF w, n, l
    <3> QED
      BY <1>2, <1>3, <3>1
  <2>2. \A q \in Peer : /\ Run(got[Other(q)], 0)' /\ Run(outbox[Other(q)], Len(got[Other(q)]))'
                        /\ InWrite(q)' => Run(buf, Written(q) - sent)'
    BY <1>1, <1>5 DEF Inv, Placed, Run
  <2>3. /\ Run(inbox[p], Written(p) + Held(p))'
        /\ (Written(p) <= numSent[p])'
        /\ (Written(p) + Held(p) + Len(inbox[p]) <= numSent[p])'
        /\ (Written(p) + Held(p) + Len(inbox[p]) = numSent[p])'
    BY <1>4, <1>5, <2>1 DEF Run
  <2>4. ASSUME NEW q \in Peer, q # p
        PROVE  /\ Run(inbox[q], Written(q) + Held(q))'
               /\ (Written(q) <= numSent[q])'
               /\ (Written(q) + Held(q) + Len(inbox[q]) <= numSent[q])'
               /\ (~reset[q] => Written(q) + Held(q) + Len(inbox[q]) = numSent[q])'
    <3>1. /\ Run(inbox[q], Written(q) + Held(q)) /\ Written(q) <= numSent[q]
          /\ Written(q) + Held(q) + Len(inbox[q]) <= numSent[q]
          /\ ~reset[q] => Written(q) + Held(q) + Len(inbox[q]) = numSent[q]
      BY <1>1 DEF Inv, Placed
    <3>2. /\ inbox'[q] = inbox[q] /\ numSent'[q] = numSent[q] /\ reset'[q] = reset[q]
          /\ Written(q)' = Written(q) /\ Held(q)' = Held(q)
      BY <1>1, <1>4, <1>5, <2>4
    <3> QED
      BY <3>1, <3>2 DEF Run
  <2> QED
    BY <2>2, <2>3, <2>4 DEF Placed
<1>8. Counted'
  BY <1>1, <1>5 DEF Inv, Counted
<1>9. Drained'
  BY <1>1, <1>4 DEF Inv, Drained
<1> QED
  BY <1>1, <1>6, <1>7, <1>8, <1>9 DEF Inv

\* The peer at q reads: what Other(q) wrote moves from one place to the next.
LEMMA PeerReadsInv == ASSUME Inv, NEW q \in Peer, PeerReads(q) PROVE Inv'
<1> DEFINE g == Len(got[q])
           o == Len(outbox[q])
<1>1. /\ outbox[q] # <<>>
      /\ got' = [got EXCEPT ![q] = Append(got[q], Head(outbox[q]))]
      /\ outbox' = [outbox EXCEPT ![q] = Tail(outbox[q])]
      /\ UNCHANGED <<pc, revents, from, buf, sent, pending, total, result>>
      /\ UNCHANGED <<inbox, shut, reset, numSent>>
  BY DEF PeerReads, threadVars
<1>2. PICK p \in Peer : Other(p) = q /\ \A r \in Peer : r # p => Other(r) # q
  BY DEF Peer, Other
<1>3. /\ got[q] \in Seq(Chunk) /\ outbox[q] \in Seq(Chunk) /\ g \in Nat /\ o \in Nat
      /\ Run(got[q], 0) /\ Run(outbox[q], g) /\ Written(p) = g + o
  BY <1>2, Sizes DEF Inv, TypeOK, Placed, Written
<1>4. /\ Head(outbox[q]) \in Chunk /\ Tail(outbox[q]) \in Seq(Chunk)
      /\ Len(Tail(outbox[q])) = o - 1 /\ Head(outbox[q]) = outbox[q][1]
      /\ \A k \in 1 .. o - 1 : Tail(outbox[q])[k] = outbox[q][k + 1]
      /\ o > 0
  <2>1. /\ Head(outbox[q]) \in Chunk /\ Tail(outbox[q]) \in Seq(Chunk)
        /\ Len(Tail(outbox[q])) = o - 1
        /\ \A k \in 1 .. Len(Tail(outbox[q])) : Tail(outbox[q])[k] = outbox[q][k + 1]
    BY <1>1, <1>3, HeadTailProperties
  <2>2. Len(Tail(outbox[q])) \in Nat
    BY <2>1, LenProperties
  <2>3. Head(outbox[q]) = outbox[q][1]
    BY <1>1, <1>3
  <2>4. o > 0
    <3>1. o - 1 \in Nat
      BY <2>1, <2>2
    <3> HIDE DEF o
    <3> QED BY <1>3, <3>1
  <2> QED
    BY <2>1, <2>3, <2>4
<1>5. Head(outbox[q]) = g + 1
  <2>1. 1 \in 1 .. o
    <3> HIDE DEF o
    <3> QED BY <1>3, <1>4
  <2> QED
    BY <1>3, <1>4, <2>1 DEF Run
<1>6. /\ got'[q] \in Seq(Chunk) /\ Len(got'[q]) = g + 1 /\ Run(got'[q], 0)
      /\ outbox'[q] \in Seq(Chunk) /\ Len(outbox'[q]) = o - 1 /\ Run(outbox'[q], g + 1)
  <2>1. got'[q] = Append(got[q], g + 1) /\ outbox'[q] = Tail(outbox[q])
    BY <1>1, <1>5 DEF Inv, TypeOK
  <2>2. /\ Append(got[q], g + 1) \in Seq(Chunk) /\ Len(Append(got[q], g + 1)) = g + 1
    BY <1>3, <1>4, <1>5, AppendProperties
  <2>3. Run(Append(got[q], g + 1), 0)
    <3>1. 0 + Len(got[q]) + 1 = g + 1 /\ g + 1 \in Chunk
      BY <1>3, <1>4, <1>5
    <3>2. Run(Append(got[q], 0 + Len(got[q]) + 1), 0)
      <4> HIDE DEF g
      <4> QED BY <1>3, <3>1, RunAppend
    <3> QED
      BY <3>1, <3>2
  <2>4. Run(Tail(outbox[q]), g + 1)
    <3>1. ASSUME NEW k \in 1 .. o - 1
          PROVE  Tail(outbox[q])[k] = (g + 1) + k
      <4>1. k + 1 \in 1 .. o /\ g + (k + 1) = (g + 1) + k
        <5> HIDE DEF g, o
        <5> QED BY <1>3
      <4>2. outbox[q][k + 1] = g + (k + 1)
        BY <1>3, <4>1 DEF Run
      <4> QED
        BY <1>4, <4>1, <4>2
    <3> QED
      BY <1>4, <3>1 DEF Run
  <2> QED
    BY <1>4, <2>1, <2>2, <2>3, <2>4
<1>7. \A r \in Peer : r # q => got'[r] = got[r] /\ outbox'[r] = outbox[r]
  BY <1>1 DEF Inv, TypeOK
<1>8. \A r \in Peer : Written(r)' = Written(r) /\ Held(r)' = Held(r) /\ (InWrite(r)' <=> InWrite(r))
  <2>1. Written(p)' = (g + 1) + (o - 1)
    BY <1>2, <1>6 DEF Written
  <2>2. (g + 1) + (o - 1) = g + o
    <3> HIDE DEF g, o
    <3> QED BY <1>3
  <2>3. \A r \in Peer : r # p => Written(r)' = Written(r)
    BY <1>2, <1>7, Others DEF Written
  <2>4. \A r \in Peer : Held(r)' = Held(r) /\ (InWrite(r)' <=> InWrite(r))
    BY <1>1 DEF Held, InWrite
  <2> QED
    BY <1>3, <2>1, <2>2, <2>3, <2>4
<1>9. TypeOK'
  <2>1. got' \in [Peer -> Seq(Chunk)] /\ outbox' \in [Peer -> Seq(Chunk)]
    BY <1>1, <1>6 DEF Inv, TypeOK
  <2>2. \A r \in Peer : Len(outbox'[r]) <= OutCapacity
    <3>1. o - 1 <= OutCapacity
      <4>1. o <= OutCapacity /\ OutCapacity \in Nat
        BY RelayAssumption DEF Inv, TypeOK
      <4> HIDE DEF o
      <4> QED BY <1>3, <4>1
    <3> QED
      BY <1>6, <1>7, <3>1 DEF Inv, TypeOK
  <2> QED
    BY <1>1, <2>1, <2>2 DEF Inv, TypeOK
<1>10. Placed'
  <2>1. Run(got[Other(p)], 0)' /\ Run(outbox[Other(p)], Len(got[Other(p)]))'
    BY <1>2, <1>6 DEF Run
  <2>2. ASSUME NEW r \in Peer, r # p
        PROVE  Run(got[Other(r)], 0)' /\ Run(outbox[Other(r)], Len(got[Other(r)]))'
    <3>1. Other(r) \in Peer /\ Other(r) # q
      BY <1>2, <2>2, Others
    <3>2. got'[Other(r)] = got[Other(r)] /\ outbox'[Other(r)] = outbox[Other(r)]
      BY <1>7, <3>1
    <3> QED
      BY <3>2 DEF Inv, Placed, Run
  <2>3. \A r \in Peer :
          /\ (Written(r) <= numSent[r])'
          /\ InWrite(r)' => Run(buf, Written(r) - sent)'
          /\ pc' # "done" =>
              /\ Run(inbox[r], Written(r) + Held(r))'
              /\ (Written(r) + Held(r) + Len(inbox[r]) <= numSent[r])'
              /\ (~reset[r] => Written(r) + Held(r) + Len(inbox[r]) = numSent[r])'
    BY <1>1, <1>8 DEF Inv, Placed, Run
  <2> QED
    BY <2>1, <2>2, <2>3 DEF Placed
<1>11. Counted'
  BY <1>1, <1>8 DEF Inv, Counted
<1>12. Drained' /\ (HeardOut => HeardOut')
  BY <1>1, <1>8 DEF Inv, Drained, HeardOut
<1> QED
  BY <1>1, <1>9, <1>10, <1>11, <1>12 DEF Inv

\* A peer shuts down or resets: nothing it sends follows.
LEMMA PeerEndsInv ==
    ASSUME Inv, NEW p \in Peer, PeerShutsDown(p) \/ PeerResets(p) PROVE Inv'
<1>1. /\ pc # "done"
      /\ UNCHANGED <<pc, revents, from, buf, sent, pending, total, result>>
      /\ UNCHANGED <<outbox, numSent, got>>
  BY DEF PeerShutsDown, PeerResets, threadVars
<1>2. \A q \in Peer : Written(q)' = Written(q) /\ Held(q)' = Held(q) /\ (InWrite(q)' <=> InWrite(q))
  BY <1>1 DEF Written, Held, InWrite
<1>3. Counted'
  BY <1>1, <1>2 DEF Inv, Counted
<1>4. CASE PeerShutsDown(p)
  <2>1. shut' = [shut EXCEPT ![p] = TRUE] /\ UNCHANGED <<inbox, reset>>
    BY <1>4 DEF PeerShutsDown
  <2>2. TypeOK' /\ Drained'
    BY <1>1, <2>1 DEF Inv, TypeOK, Drained
  <2>3. Placed'
    BY <1>1, <1>2, <2>1 DEF Inv, Placed, Run
  <2> QED
    BY <1>1, <1>3, <2>2, <2>3 DEF Inv
<1>5. CASE PeerResets(p)
  <2>1. /\ reset' = [reset EXCEPT ![p] = TRUE] /\ shut' = shut
        /\ inbox' \in {inbox, [inbox EXCEPT ![p] = <<>>]}
    BY <1>5 DEF PeerResets
  <2>2. /\ <<>> \in Seq(Chunk) /\ Len(<<>>) = 0
        /\ reset'[p] /\ \A q \in Peer : q # p => reset'[q] = reset[q] /\ inbox'[q] = inbox[q]
        /\ inbox'[p] = inbox[p] \/ inbox'[p] = <<>>
        /\ inbox' \in [Peer -> Seq(Chunk)] /\ reset' \in [Peer -> BOOLEAN]
    <3>1. <<>> \in Seq(Chunk) /\ Len(<<>>) = 0
      OBVIOUS
    <3>2. inbox \in [Peer -> Seq(Chunk)] /\ reset \in [Peer -> BOOLEAN]
      BY DEF Inv, TypeOK
    <3> QED
      BY <2>1, <3>1, <3>2
  <2>3. TypeOK'
    <3>1. ASSUME NEW q \in Peer PROVE Len(inbox'[q]) <= InCapacity
      <4>1. Len(inbox[q]) <= InCapacity /\ 0 <= InCapacity
        BY RelayAssumption DEF Inv, TypeOK
      <4>2. inbox'[q] = inbox[q] \/ inbox'[q] = <<>>
        BY <2>2
      <4> QED
        BY <2>2, <4>1, <4>2
    <3> QED
      BY <1>1, <2>1, <2>2, <3>1 DEF Inv, TypeOK
  <2>4. Drained'
    BY <1>1, <2>1, <2>2 DEF Inv, Drained
  <2>5. /\ Run(inbox[p], Written(p) + Held(p))'
        /\ (Written(p) + Held(p) + Len(inbox[p]) <= numSent[p])'
    <3> DEFINE h == Held(p)
               w == Written(p)
               l == Len(inbox[p])
               n == numSent[p]
    <3>1. Run(inbox[p], w + h) /\ w + h + l <= n
      BY <1>1 DEF Inv, Placed
    <3>2. w \in Nat /\ l \in Nat /\ n \in Nat /\ Len(buf) \in Nat /\ sent \in Nat
      BY Sizes DEF Inv
    <3>3. h \in Int
      BY <3>2 DEF Held
    <3> HIDE DEF h, w, l, n
    <3>4. w + h + 0 <= n
      BY <3>1, <3>2, <3>3
    <3>5. CASE inbox'[p] = inbox[p]
      BY <1>1, <1>2, <3>1, <3>5 DEF h, w, l, n, Run
    <3>6. CASE inbox'[p] = <<>>
      BY <1>1, <1>2, <2>2, <3>4, <3>6 DEF h, w, n, Run
    <3> QED
      BY <2>2, <3>5, <3>6
  <2>6. Placed'
    BY <1>1, <1>2, <2>1, <2>2, <2>5 DEF Inv, Placed, Run
  <2> QED
    BY <1>1, <1>3, <2>3, <2>4, <2>6 DEF Inv
<1> QED
  BY <1>4, <1>5

-----------------------------------------------------------------------------
LEMMA NextInv == Inv /\ [Next]_vars => Inv'
<1> SUFFICES ASSUME Inv, [Next]_vars PROVE Inv'
  OBVIOUS
<1>1. ASSUME NEW p \in Peer, NotReadable(p) PROVE Inv'
  BY <1>1, ControlInv DEF NotReadable, After, Inv, TypeOK, Drained, Peer, peerVars
<1>2. CASE PollAgain
  BY <1>2, ControlInv DEF PollAgain, Inv, TypeOK, Drained, peerVars
<1>3. CASE UNCHANGED vars
  <2>1. UNCHANGED threadVars /\ UNCHANGED peerVars
    BY <1>3 DEF vars
  <2>2. /\ UNCHANGED <<pc, revents, from, buf, sent, pending, total, result>>
        /\ UNCHANGED <<inbox, outbox, shut, reset, numSent, got>>
    BY <2>1 DEF threadVars, peerVars
  <2>3. \A q \in Peer : Written(q)' = Written(q) /\ Held(q)' = Held(q) /\ (InWrite(q)' <=> InWrite(q))
    BY <2>2 DEF Written, Held, InWrite
  <2> QED
    <3>1. TypeOK'
      BY <2>2 DEF Inv, TypeOK
    <3>2. Placed'
      <4>1. \A q \in Peer :
              /\ Run(got[Other(q)], 0)' /\ Run(outbox[Other(q)], Len(got[Other(q)]))'
              /\ (Written(q) <= numSent[q])'
              /\ InWrite(q)' => Run(buf, Written(q) - sent)'
        BY <2>2, <2>3 DEF Inv, Placed, Run
      <4>2. pc' # "done" => \A q \in Peer :
              /\ Run(inbox[q], Written(q) + Held(q))'
              /\ (Written(q) + Held(q) + Len(inbox[q]) <= numSent[q])'
              /\ (~reset[q] => Written(q) + Held(q) + Len(inbox[q]) = numSent[q])'
        BY <2>2, <2>3 DEF Inv, Placed, Run
      <4> QED
        BY <4>1, <4>2 DEF Placed
    <3>3. Counted'
      BY <2>2, <2>3 DEF Inv, Counted
    <3>4. Drained' /\ (HeardOut => HeardOut')
      BY <2>2, <2>3 DEF Inv, Drained, HeardOut
    <3> QED
      BY <2>2, <3>1, <3>2, <3>3, <3>4 DEF Inv
<1> QED
  BY <1>1, <1>2, <1>3, ReturnInv, PollReportsInv, ReadDataInv, WriteSomeInv, AccountInv,
     PeerSendsInv, PeerReadsInv, PeerEndsInv DEF Next, Thread, Peers

LEMMA Invariance == Spec => []Inv
BY InitInv, NextInv, PTL DEF Spec

\* What was written of a peer's chunks is its first ones.
LEMMA RelayedIsRun ==
    ASSUME Inv, NEW p \in Peer
    PROVE  /\ Relayed(p) \in Seq(Chunk) /\ Len(Relayed(p)) = Written(p)
           /\ Run(Relayed(p), 0)
<1> DEFINE g == got[Other(p)]
           o == outbox[Other(p)]
<1>1. Other(p) \in Peer
  BY Others
<1>2. g \in Seq(Chunk) /\ o \in Seq(Chunk) /\ Run(g, 0) /\ Run(o, Len(g)) /\ Len(g) \in Nat
  BY <1>1, Sizes DEF Inv, TypeOK, Placed
<1> HIDE DEF g, o
<1>3. Run(o, 0 + Len(g))
  BY <1>2
<1>4. g \o o \in Seq(Chunk) /\ Len(g \o o) = Len(g) + Len(o) /\ Run(g \o o, 0)
  BY <1>2, <1>3, RunConcat
<1> QED
  BY <1>4 DEF g, o, Relayed, Written

LEMMA StreamIsRun ==
    ASSUME Inv, NEW p \in Peer
    PROVE  /\ Stream(p) \in Seq(Nat) /\ Len(Stream(p)) = numSent[p]
           /\ Run(Stream(p), 0)
<1>1. numSent[p] \in Nat
  BY Sizes DEF Inv
<1> QED
  BY <1>1 DEF Stream, Run

LEMMA NothingIsLost == Inv => NothingIsLostInTransit
<1> SUFFICES ASSUME Inv, NEW p \in Peer
             PROVE  /\ Len(Relayed(p)) <= numSent[p]
                    /\ Relayed(p) = SubSeq(Stream(p), 1, Len(Relayed(p)))
                    /\ pc # "done" /\ ~reset[p] => Relayed(p) \o InHand(p) \o inbox[p] = Stream(p)
  BY DEF NothingIsLostInTransit
<1> DEFINE w == Written(p)
           n == numSent[p]
<1>1. /\ Relayed(p) \in Seq(Chunk) /\ Len(Relayed(p)) = w /\ Run(Relayed(p), 0)
      /\ w \in Nat /\ n \in Nat /\ w <= n
  BY RelayedIsRun, Sizes DEF Inv, Placed
<1>2. Stream(p) \in Seq(Nat) /\ Len(Stream(p)) = n /\ Run(Stream(p), 0)
  BY StreamIsRun
<1>3. Relayed(p) = SubSeq(Stream(p), 1, w)
  <2> HIDE DEF w, n
  <2>1. 1 \in 1 .. n + 1 /\ w \in 1 - 1 .. n /\ w - 1 + 1 = w /\ 0 + 1 - 1 = 0
    BY <1>1
  <2>2. /\ SubSeq(Stream(p), 1, w) \in Seq(Nat) /\ Len(SubSeq(Stream(p), 1, w)) = w - 1 + 1
        /\ Run(SubSeq(Stream(p), 1, w), 0 + 1 - 1)
    BY <1>2, <2>1, RunSubSeq
  <2>3. Len(SubSeq(Stream(p), 1, w)) = w /\ Run(SubSeq(Stream(p), 1, w), 0)
    BY <2>1, <2>2
  <2>4. SubSeq(Stream(p), 1, w) = [k \in 1 .. w |-> k]
    BY <1>1, <2>2, <2>3, RunIsUnique
  <2>5. Relayed(p) = [k \in 1 .. w |-> k]
    BY <1>1, RunIsUnique
  <2> QED
    BY <2>4, <2>5
<1>4. ASSUME pc # "done", ~reset[p]
      PROVE  Relayed(p) \o InHand(p) \o inbox[p] = Stream(p)
  <2> DEFINE h == Held(p)
  <2>1. /\ inbox[p] \in Seq(Chunk) /\ Run(inbox[p], w + h) /\ w + h + Len(inbox[p]) = n
    BY <1>4 DEF Inv, TypeOK, Placed
  <2>2. InHand(p) \in Seq(Chunk) /\ Len(InHand(p)) = h /\ Run(InHand(p), w)
    <3> DEFINE l == Len(buf)
    <3>1. buf \in Seq(Chunk) /\ l \in Nat /\ sent \in Nat /\ sent <= l
      BY Sizes DEF Inv, TypeOK
    <3>2. CASE InWrite(p)
      <4>1. Run(buf, w - sent) /\ InHand(p) = SubSeq(buf, sent + 1, l) /\ h = l - sent
        BY <3>2 DEF Inv, Placed, InWrite, InHand, Held
      <4> HIDE DEF w, h
      <4>2. /\ sent + 1 \in 1 .. l + 1 /\ l \in (sent + 1) - 1 .. l /\ w - sent \in Int
            /\ l - (sent + 1) + 1 = l - sent /\ (w - sent) + (sent + 1) - 1 = w
        <5> HIDE DEF l
        <5> QED BY <1>1, <3>1
      <4>3. /\ SubSeq(buf, sent + 1, l) \in Seq(Chunk)
            /\ Len(SubSeq(buf, sent + 1, l)) = l - (sent + 1) + 1
            /\ Run(SubSeq(buf, sent + 1, l), (w - sent) + (sent + 1) - 1)
        BY <3>1, <4>1, <4>2, RunSubSeq
      <4> HIDE DEF l
      <4> QED
        BY <4>1, <4>2, <4>3
    <3>3. CASE ~InWrite(p)
      <4>1. InHand(p) = <<>> /\ h = 0 /\ Len(<<>>) = 0 /\ <<>> \in Seq(Chunk)
        BY <3>3 DEF InWrite, InHand, Held
      <4> HIDE DEF h
      <4> QED
        BY <4>1 DEF Run
    <3> QED
      BY <3>2, <3>3
  <2> DEFINE r == Relayed(p) \o InHand(p)
  <2>3. r \in Seq(Chunk) /\ Len(r) = w + h /\ Run(r, 0)
    <3> HIDE DEF w, h
    <3>1. Run(InHand(p), 0 + Len(Relayed(p)))
      BY <1>1, <2>2
    <3>2. /\ r \in Seq(Chunk) /\ Len(r) = Len(Relayed(p)) + Len(InHand(p)) /\ Run(r, 0)
      BY <1>1, <2>2, <3>1, RunConcat
    <3> QED
      BY <1>1, <2>2, <3>2
  <2> HIDE DEF w, h, r, n
  <2>4. h \in Int
    BY <2>2, LenProperties
  <2>5. Run(inbox[p], 0 + Len(r))
    BY <1>1, <2>1, <2>3, <2>4
  <2>6. /\ r \o inbox[p] \in Seq(Chunk) /\ Len(r \o inbox[p]) = Len(r) + Len(inbox[p])
        /\ Run(r \o inbox[p], 0)
    BY <2>1, <2>3, <2>5, RunConcat
  <2>7. Len(r \o inbox[p]) = n
    BY <2>1, <2>3, <2>6
  <2>8. r \o inbox[p] = [k \in 1 .. n |-> k] /\ Stream(p) = [k \in 1 .. n |-> k]
    BY <1>1, <1>2, <2>6, <2>7, RunIsUnique
  <2> QED
    BY <2>8 DEF r
<1> QED
  BY <1>1, <1>3, <1>4

-----------------------------------------------------------------------------
\* The thread's variables keep their types, the buffer and the sockets their
\* bounds, and less than the threshold is ever pending.
THEOREM TypeCorrect == Spec => []TypeOK
BY Invariance, PTL DEF Inv

\* What a peer receives is a prefix of what the other sent, and until copyloop
\* returns the rest is in its buffer or still to be read, for every way the
\* reads and writes are cut.
THEOREM StreamsCorrect == Spec => []NothingIsLostInTransit
BY Invariance, NothingIsLost, PTL

\* When copyloop returns because a peer has closed, everything it sent has
\* been written, also when poll reported the hangup together with data.
THEOREM CloserCorrect == Spec => []CloserIsHeardOut
<1>1. Inv => CloserIsHeardOut
  <2> SUFFICES ASSUME Inv, pc = "done", result = "closed", \E p \in Peer : shut[p],
                      \A p \in Peer : ~reset[p]
               PROVE  \E p \in Peer : shut[p] /\ Relayed(p) = Stream(p)
    BY DEF CloserIsHeardOut
  <2>1. PICK p \in Peer : shut[p] /\ Written(p) = numSent[p]
    BY DEF Inv, HeardOut
  <2>2. /\ Relayed(p) \in Seq(Chunk) /\ Len(Relayed(p)) = numSent[p] /\ Run(Relayed(p), 0)
        /\ numSent[p] \in Nat
    BY <2>1, RelayedIsRun, Sizes DEF Inv
  <2>3. Relayed(p) = [k \in 1 .. numSent[p] |-> k]
    BY <2>2, RunIsUnique
  <2> QED
    BY <2>1, <2>3 DEF Stream
<1> QED
  BY <1>1, Invariance, PTL

\* The totals are behind what was written only by what the buffer at hand has
\* written, and exact once copyloop has returned because a peer closed.
THEOREM TotalsCorrect == Spec => []TotalsMatchRelayed
<1>1. Inv => TotalsMatchRelayed
  <2> SUFFICES ASSUME Inv, NEW p \in Peer
               PROVE  /\ total[p] + pending[p] <= Len(Relayed(p))
                      /\ pc # "write" /\ result # "error" =>
                           total[p] + pending[p] = Len(Relayed(p))
                      /\ pc = "done" => pending[p] = 0
    BY DEF TotalsMatchRelayed
  <2> DEFINE t == total[p]
             w == Written(p)
  <2>1. /\ Len(Relayed(p)) = w /\ t \in Nat /\ pending[p] \in Nat /\ w \in Nat /\ sent \in Nat
        /\ result \in {"none", "closed", "error"}
    BY RelayedIsRun, Sizes DEF Inv, TypeOK
  <2>2. CASE pc = "done"
    <3>1. pending[p] = 0 /\ t <= w /\ (result = "closed" => t = w) /\ result # "none"
      BY <2>2 DEF Inv, Counted
    <3> HIDE DEF t, w
    <3>2. t + pending[p] = t
      BY <2>1, <3>1
    <3> QED
      BY <2>1, <2>2, <3>1, <3>2 DEF t
  <2>3. CASE pc # "done"
    <3>1. t + pending[p] + (IF InWrite(p) THEN sent ELSE 0) = w
      BY <2>3 DEF Inv, Counted
    <3> HIDE DEF t, w
    <3>2. t + pending[p] <= w /\ (pc # "write" => t + pending[p] = w)
      BY <2>1, <3>1 DEF InWrite
    <3> QED
      BY <2>1, <2>3, <3>2 DEF t
  <2> QED
    BY <2>2, <2>3
<1> QED
  BY <1>1, Invariance, PTL

=============================================================================
