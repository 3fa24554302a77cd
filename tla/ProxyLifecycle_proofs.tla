------------------------ MODULE ProxyLifecycle_proofs ------------------------
(***************************************************************************)
(* How a view model and the calls of socks_main it has made go together,   *)
(* for any number of windows and any length of the main actor's queue.     *)
(*                                                                         *)
(* A call of socks_main that was made is in one of three places: still     *)
(* running, reported as failed in the mailbox, or listening.  For the      *)
(* window that made it these exclude each other, and a window that neither *)
(* listens nor waits for an answer has a call in none of them (Calls): so  *)
(* the timer and the Retry button, which look at those two flags, never    *)
(* start a second.  The ready event may reach another window than the one  *)
(* that made the call, which is why the flags say no more than that unless *)
(* there is only one window (Single).                                      *)
(***************************************************************************)
EXTENDS ProxyLifecycle, SequenceTheorems, TLAPS

\* what is in the mailbox
InMailbox(task) == \E k \in DOMAIN mailbox : mailbox[k] = task
Once(task) == \A j, k \in DOMAIN mailbox : mailbox[j] = task /\ mailbox[k] = task => j = k
ReadyPosted == InMailbox(Ready)
Reported == {v \in View : InMailbox(Failed(v))}
PostedOnce == Once(Ready) /\ \A v \in View : Once(Failed(v))

\* a call of v is under way, or v has not been told that it ended
Calling(v) == calls[v] = 1 \/ v \in Reported \/ listener = v

Calls ==
    \A v \in View :
        /\ calls[v] = 1 => v \notin Reported /\ listener # v
        /\ v \in Reported => listener # v
        /\ Calling(v) => isProxyStartInFlight[v] \/ isProxyListening[v]

\* what is shown follows the flags
Shown ==
    \A v \in View :
        /\ isProxyListening[v] => listener # NoView
        /\ serverState[v] \in {"running", "waitingForNetwork"} => isProxyListening[v]
        /\ serverState[v] = "waitingForNetwork" => endpoint[v] = "notAvailable"
        /\ serverState[v] = "failed" => ~isProxyStartInFlight[v] /\ ~isProxyListening[v]

\* the ready event is announced by the one who listens, and no event is there twice
Announced ==
    /\ PostedOnce
    /\ announced => listener # NoView
    /\ ReadyPosted => announced
    /\ \A v \in View \ used : ~isProxyListening[v] /\ ~isProxyStartInFlight[v]

Single ==
    \A v \in alive : used = {v} =>
        /\ receiver = v
        /\ isProxyStartInFlight[v] <=>
             calls[v] = 1 \/ v \in Reported \/ ReadyPosted \/ (listener = v /\ ~announced)

Inv ==
    /\ TypeOK
    /\ Calls
    /\ Shown
    /\ Announced
    /\ Single

-----------------------------------------------------------------------------
LEMMA Kinds == \A v \in View : /\ Ready \in Task /\ Failed(v) \in Task /\ Tick(v) \in Task
                               /\ Ready # Failed(v) /\ Ready # Tick(v)
                               /\ \A u \in View : /\ Failed(u) # Tick(v)
                                                  /\ Failed(u) = Failed(v) => u = v
BY DEF Ready, Failed, Tick, Task

\* A task is put at the end of the mailbox.
LEMMA Posted ==
    ASSUME mailbox \in Seq(Task), NEW task \in Task, mailbox' = Append(mailbox, task)
    PROVE  /\ mailbox' \in Seq(Task)
           /\ \A t : InMailbox(t)' <=> InMailbox(t) \/ t = task
           /\ \A t : Once(t) /\ (t = task => ~InMailbox(t)) => Once(t)'
<1> DEFINE n == Len(mailbox)
<1>1. /\ mailbox' \in Seq(Task) /\ Len(mailbox') = n + 1 /\ n \in Nat
      /\ DOMAIN mailbox = 1 .. n /\ DOMAIN mailbox' = 1 .. Len(mailbox')
      /\ \A k \in 1 .. n : mailbox'[k] = mailbox[k]
      /\ mailbox'[n + 1] = task
  BY AppendProperties, LenProperties
<1> HIDE DEF n
<1>2. DOMAIN mailbox' = (1 .. n) \cup {n + 1}
  BY <1>1
<1>3. \A t : InMailbox(t)' <=> InMailbox(t) \/ t = task
  BY <1>1, <1>2 DEF InMailbox
<1>4. ASSUME NEW t, Once(t), t = task => ~InMailbox(t) PROVE Once(t)'
  BY <1>1, <1>2, <1>4 DEF InMailbox, Once
<1> QED
  BY <1>1, <1>3, <1>4

\* The oldest task is taken out.
LEMMA Taken ==
    ASSUME mailbox \in Seq(Task), mailbox # <<>>, mailbox' = Tail(mailbox)
    PROVE  /\ mailbox' \in Seq(Task)
           /\ InMailbox(Head(mailbox)) /\ Head(mailbox) \in Task
           /\ \A t : InMailbox(t)' => InMailbox(t)
           /\ \A t : InMailbox(t) => InMailbox(t)' \/ t = Head(mailbox)
           /\ \A t : Once(t) => Once(t)' /\ (t = Head(mailbox) => ~InMailbox(t)')
<1> DEFINE n == Len(mailbox)
<1>1. /\ mailbox' \in Seq(Task) /\ Len(mailbox') = n - 1 /\ n \in Nat /\ Len(mailbox') \in Nat
      /\ Head(mailbox) \in Task /\ Head(mailbox) = mailbox[1]
      /\ \A k \in 1 .. Len(mailbox') : mailbox'[k] = mailbox[k + 1]
      /\ DOMAIN mailbox = 1 .. n /\ DOMAIN mailbox' = 1 .. Len(mailbox')
  <2>1. /\ mailbox' \in Seq(Task) /\ Len(mailbox') = n - 1 /\ Head(mailbox) \in Task
        /\ \A k \in 1 .. Len(mailbox') : mailbox'[k] = mailbox[k + 1]
    BY HeadTailProperties
  <2>2. Head(mailbox) = mailbox[1]
    OBVIOUS
  <2> QED
    BY <2>1, <2>2, LenProperties
<1> HIDE DEF n
<1>2. /\ 1 \in 1 .. n /\ DOMAIN mailbox' = 1 .. n - 1
      /\ \A k \in 1 .. n - 1 : k + 1 \in 1 .. n /\ k + 1 # 1 /\ mailbox'[k] = mailbox[k + 1]
  BY <1>1
<1>3. \A k \in 1 .. n : k # 1 => k - 1 \in 1 .. n - 1 /\ mailbox'[k - 1] = mailbox[k]
  <2> TAKE k \in 1 .. n
  <2> HAVE k # 1
  <2>1. k - 1 \in 1 .. n - 1 /\ (k - 1) + 1 = k
    BY <1>1
  <2> QED
    BY <1>2, <2>1
<1>4. ASSUME NEW t, InMailbox(t)' PROVE InMailbox(t)
  BY <1>1, <1>2, <1>4 DEF InMailbox
<1>5. ASSUME NEW t, InMailbox(t) PROVE InMailbox(t)' \/ t = Head(mailbox)
  <2>1. PICK k \in 1 .. n : mailbox[k] = t
    BY <1>1, <1>5 DEF InMailbox
  <2>2. CASE k = 1
    BY <1>1, <2>1, <2>2
  <2>3. CASE k # 1
    <3>1. k - 1 \in DOMAIN mailbox' /\ mailbox'[k - 1] = t
      BY <1>2, <1>3, <2>1, <2>3
    <3> QED
      BY <3>1 DEF InMailbox
  <2> QED
    BY <2>2, <2>3
<1>6. ASSUME NEW t, Once(t)
      PROVE  Once(t)' /\ (t = Head(mailbox) => ~InMailbox(t)')
  <2>1. ASSUME NEW j \in 1 .. n - 1, NEW k \in 1 .. n - 1, mailbox'[j] = t, mailbox'[k] = t
        PROVE  j = k
    <3>1. j + 1 = k + 1
      BY <1>1, <1>2, <1>6, <2>1 DEF Once
    <3> QED
      BY <1>1, <3>1
  <2>2. ASSUME t = mailbox[1], NEW k \in 1 .. n - 1 PROVE mailbox'[k] # t
    BY <1>1, <1>2, <1>6, <2>2 DEF Once
  <2> QED
    BY <1>1, <1>2, <2>1, <2>2 DEF InMailbox, Once
<1>7. InMailbox(Head(mailbox))
  BY <1>1, <1>2 DEF InMailbox
<1> QED
  BY <1>1, <1>4, <1>5, <1>6, <1>7
\* What the tasks that are posted and taken do to what the invariant says of
\* the mailbox.
SameMail ==
    /\ mailbox' \in Seq(Task)
    /\ (ReadyPosted' <=> ReadyPosted)
    /\ Reported' = Reported
    /\ PostedOnce'

LEMMA UnchangedMail == ASSUME TypeOK, PostedOnce, mailbox' = mailbox PROVE SameMail
BY DEF TypeOK, SameMail, ReadyPosted, Reported, PostedOnce, InMailbox, Once

LEMMA PostTick ==
    ASSUME TypeOK, PostedOnce, NEW v \in View, mailbox' = Append(mailbox, Tick(v)) PROVE SameMail
<1>1. mailbox \in Seq(Task) /\ Tick(v) \in Task
  BY Kinds DEF TypeOK
<1>2. /\ mailbox' \in Seq(Task)
      /\ \A t : InMailbox(t)' <=> InMailbox(t) \/ t = Tick(v)
      /\ \A t : Once(t) /\ (t = Tick(v) => ~InMailbox(t)) => Once(t)'
  BY <1>1, Posted
<1>3. Ready # Tick(v) /\ \A u \in View : Failed(u) # Tick(v)
  BY Kinds
<1>4. (ReadyPosted' <=> ReadyPosted)
  BY <1>2, <1>3 DEF ReadyPosted
<1>5. Reported' = Reported
  BY <1>2, <1>3 DEF Reported
<1> QED
  BY <1>2, <1>3, <1>4, <1>5 DEF SameMail, PostedOnce

LEMMA PostReady ==
    ASSUME TypeOK, PostedOnce, ~ReadyPosted, mailbox' = Append(mailbox, Ready)
    PROVE  mailbox' \in Seq(Task) /\ ReadyPosted' /\ Reported' = Reported /\ PostedOnce'
<1>1. mailbox \in Seq(Task) /\ Ready \in Task
  BY DEF TypeOK, Task
<1>2. /\ mailbox' \in Seq(Task)
      /\ \A t : InMailbox(t)' <=> InMailbox(t) \/ t = Ready
      /\ \A t : Once(t) /\ (t = Ready => ~InMailbox(t)) => Once(t)'
  BY <1>1, Posted
<1>3. \A u \in View : Failed(u) # Ready
  BY Kinds
<1>4. ReadyPosted'
  BY <1>2 DEF ReadyPosted
<1>5. Reported' = Reported
  BY <1>2, <1>3 DEF Reported
<1> QED
  BY <1>2, <1>3, <1>4, <1>5 DEF PostedOnce, ReadyPosted

LEMMA PostFailed ==
    ASSUME TypeOK, PostedOnce, NEW v \in View, v \notin Reported, mailbox' = Append(mailbox, Failed(v))
    PROVE  /\ mailbox' \in Seq(Task) /\ (ReadyPosted' <=> ReadyPosted)
           /\ Reported' = Reported \cup {v} /\ PostedOnce'
<1>1. mailbox \in Seq(Task) /\ Failed(v) \in Task
  BY Kinds DEF TypeOK
<1>2. /\ mailbox' \in Seq(Task)
      /\ \A t : InMailbox(t)' <=> InMailbox(t) \/ t = Failed(v)
      /\ \A t : Once(t) /\ (t = Failed(v) => ~InMailbox(t)) => Once(t)'
  BY <1>1, Posted
<1>3. Ready # Failed(v) /\ \A u \in View : Failed(u) = Failed(v) => u = v
  BY Kinds
<1>4. (ReadyPosted' <=> ReadyPosted)
  BY <1>2, <1>3 DEF ReadyPosted
<1>5. Reported' = Reported \cup {v}
  BY <1>2, <1>3 DEF Reported
<1>6. ~InMailbox(Failed(v))
  BY DEF Reported
<1> QED
  BY <1>2, <1>3, <1>4, <1>5, <1>6 DEF PostedOnce

LEMMA TakeTick ==
    ASSUME TypeOK, PostedOnce, NEW v \in View, NextTask(Tick(v)) PROVE SameMail
<1>1. /\ mailbox' \in Seq(Task)
      /\ \A t : InMailbox(t)' => InMailbox(t)
      /\ \A t : InMailbox(t) => InMailbox(t)' \/ t = Tick(v)
      /\ \A t : Once(t) => Once(t)'
  BY Taken DEF TypeOK, NextTask
<1>2. Ready # Tick(v) /\ \A u \in View : Failed(u) # Tick(v)
  BY Kinds
<1>3. (ReadyPosted' <=> ReadyPosted)
  BY <1>1, <1>2 DEF ReadyPosted
<1>4. Reported' = Reported
  BY <1>1, <1>2 DEF Reported
<1> QED
  BY <1>1, <1>3, <1>4 DEF SameMail, PostedOnce

LEMMA TakeReady ==
    ASSUME TypeOK, PostedOnce, NextTask(Ready)
    PROVE  mailbox' \in Seq(Task) /\ ReadyPosted /\ ~ReadyPosted' /\ Reported' = Reported /\ PostedOnce'
<1>1. /\ mailbox' \in Seq(Task) /\ InMailbox(Ready)
      /\ \A t : InMailbox(t)' => InMailbox(t)
      /\ \A t : InMailbox(t) => InMailbox(t)' \/ t = Ready
      /\ \A t : Once(t) => Once(t)' /\ (t = Ready => ~InMailbox(t)')
  BY Taken DEF TypeOK, NextTask
<1>2. \A u \in View : Failed(u) # Ready
  BY Kinds
<1>3. ReadyPosted /\ ~ReadyPosted'
  BY <1>1 DEF ReadyPosted, PostedOnce
<1>4. Reported' = Reported
  BY <1>1, <1>2 DEF Reported
<1> QED
  BY <1>1, <1>3, <1>4 DEF PostedOnce

LEMMA TakeFailed ==
    ASSUME TypeOK, PostedOnce, NEW v \in View, NextTask(Failed(v))
    PROVE  /\ mailbox' \in Seq(Task) /\ (ReadyPosted' <=> ReadyPosted)
           /\ v \in Reported /\ Reported' = Reported \ {v} /\ PostedOnce'
<1>1. /\ mailbox' \in Seq(Task) /\ InMailbox(Failed(v))
      /\ \A t : InMailbox(t)' => InMailbox(t)
      /\ \A t : InMailbox(t) => InMailbox(t)' \/ t = Failed(v)
      /\ \A t : Once(t) => Once(t)' /\ (t = Failed(v) => ~InMailbox(t)')
  BY Taken DEF TypeOK, NextTask
<1>2. Ready # Failed(v) /\ \A u \in View : Failed(u) = Failed(v) => u = v
  BY Kinds
<1>3. (ReadyPosted' <=> ReadyPosted)
  BY <1>1, <1>2 DEF ReadyPosted
<1>4. v \in Reported /\ Reported' = Reported \ {v}
  BY <1>1, <1>2 DEF Reported, PostedOnce
<1> QED
  BY <1>1, <1>3, <1>4 DEF PostedOnce

-----------------------------------------------------------------------------
LEMMA InitInv == Init => Inv
<1> SUFFICES ASSUME Init PROVE Inv
  OBVIOUS
<1>1. ~ReadyPosted /\ Reported = {} /\ PostedOnce
  BY DEF Init, InMailbox, Once, ReadyPosted, Reported, PostedOnce
<1>2. TypeOK
  <2>1. mailbox \in Seq(Task)
    BY DEF Init
  <2>2. /\ serverState \in [View -> {"waitingForNetwork", "starting", "running", "failed"}]
        /\ endpoint \in [View -> {"detecting", "address", "notAvailable"}]
    BY DEF Init
  <2>3. /\ isProxyListening \in [View -> BOOLEAN] /\ isProxyStartInFlight \in [View -> BOOLEAN]
        /\ waits \in [View -> BOOLEAN]
    BY DEF Init
  <2>4. calls \in [View -> 0 .. 1]
    BY DEF Init
  <2> QED
    BY <2>1, <2>2, <2>3, <2>4 DEF Init, TypeOK
<1>3. \A v \in View : /\ calls[v] = 0 /\ ~isProxyListening[v] /\ ~isProxyStartInFlight[v]
                      /\ serverState[v] = "starting" /\ listener # v
  BY ViewAssumption DEF Init
<1>4. Calls
  <2>1. \A v \in View : ~(calls[v] = 1)
    <3> SUFFICES ASSUME NEW v \in View PROVE ~(calls[v] = 1)
      OBVIOUS
    <3>1. calls[v] = 0
      BY <1>3
    <3> QED
      BY <3>1
  <2> QED
    BY <1>1, <1>3, <2>1 DEF Calls, Calling
<1>5. Shown
  BY <1>3 DEF Shown
<1>6. Announced /\ Single
  BY <1>1, <1>3 DEF Init, Announced, Single
<1> QED
  BY <1>2, <1>4, <1>5, <1>6 DEF Inv

\* What startProxy does to the window that calls it.
LEMMA StartProxyEffect ==
    ASSUME TypeOK, NEW v \in View, StartProxy(v), calls[v] = 0
    PROVE  /\ isProxyStartInFlight' = [isProxyStartInFlight EXCEPT ![v] = TRUE]
           /\ calls' = [calls EXCEPT ![v] = 1]
           /\ serverState' = [serverState EXCEPT ![v] = "starting"]
           /\ endpoint' \in [View -> {"detecting", "address", "notAvailable"}]
           /\ \A u \in View : u # v => endpoint'[u] = endpoint[u]
           /\ isProxyListening' = isProxyListening
BY DEF StartProxy, RefreshEndpoint, TypeOK

\* What refreshEndpointAvailability shows of a proxy that listens.
LEMMA ListeningEffect ==
    ASSUME TypeOK, NEW v \in View, RefreshEndpoint(v, serverState[v], endpoint[v], TRUE)
    PROVE  /\ serverState' \in [View -> {"waitingForNetwork", "starting", "running", "failed"}]
           /\ endpoint' \in [View -> {"detecting", "address", "notAvailable"}]
           /\ serverState'[v] \in {"running", "waitingForNetwork"}
           /\ serverState'[v] = "waitingForNetwork" => endpoint'[v] = "notAvailable"
           /\ \A u \in View : u # v => serverState'[u] = serverState[u] /\ endpoint'[u] = endpoint[u]
BY DEF RefreshEndpoint, TypeOK

\* A step that touches only ticks, waits and the network.
LEMMA MailInv ==
    ASSUME Inv, SameMail, waits' \in [View -> BOOLEAN], network' \in BOOLEAN,
           UNCHANGED <<alive, used, receiver, serverState, endpoint, isProxyListening,
                       isProxyStartInFlight, calls, listener, announced>>
    PROVE  Inv'
<1>1. TypeOK'
  BY DEF Inv, TypeOK, SameMail
<1>2. Calls'
  BY DEF Inv, Calls, Calling, SameMail
<1>3. Shown'
  BY DEF Inv, Shown
<1>4. Announced' /\ Single'
  BY DEF Inv, Announced, Single, SameMail
<1> QED
  BY <1>1, <1>2, <1>3, <1>4 DEF Inv

\* refreshEndpointAvailability of a window whose proxy listens, or is told
\* that it does.
LEMMA ListeningInv ==
    ASSUME Inv, NEW v \in View, isProxyListening[v], RefreshEndpoint(v, serverState[v], endpoint[v], TRUE),
           SameMail, waits' \in [View -> BOOLEAN],
           UNCHANGED <<alive, used, receiver, isProxyListening, isProxyStartInFlight, calls,
                       listener, announced, network>>
    PROVE  Inv'
<1>1. /\ serverState' \in [View -> {"waitingForNetwork", "starting", "running", "failed"}]
      /\ endpoint' \in [View -> {"detecting", "address", "notAvailable"}]
      /\ serverState'[v] \in {"running", "waitingForNetwork"}
      /\ serverState'[v] = "waitingForNetwork" => endpoint'[v] = "notAvailable"
      /\ \A u \in View : u # v => serverState'[u] = serverState[u] /\ endpoint'[u] = endpoint[u]
  BY ListeningEffect DEF Inv
<1>2. TypeOK'
  BY <1>1 DEF Inv, TypeOK, SameMail
<1>3. Calls'
  BY DEF Inv, Calls, Calling, SameMail
<1>4. Shown'
  BY <1>1 DEF Inv, Shown
<1>5. Announced' /\ Single'
  BY DEF Inv, Announced, Single, SameMail
<1> QED
  BY <1>2, <1>3, <1>4, <1>5 DEF Inv

\* A window that has neither flag set has no call under way.
LEMMA Idle ==
    ASSUME Inv, NEW v \in View, ~isProxyListening[v], ~isProxyStartInFlight[v]
    PROVE  calls[v] = 0 /\ v \notin Reported /\ listener # v
BY DEF Inv, Calls, TypeOK, Calling

\* A call was made by a window that has been opened.
LEMMA OwnCalls ==
    ASSUME Inv
    PROVE  \A v \in View : Calling(v) => v \in used
BY DEF Inv, Calls, Announced

\* startProxy in a window that has neither flag set.
LEMMA StartProxyInv ==
    ASSUME Inv, NEW v \in View, ~isProxyListening[v], ~isProxyStartInFlight[v], StartProxy(v),
           SameMail, waits' \in [View -> BOOLEAN],
           UNCHANGED <<listener, announced, network>>,
           \/ v \in alive /\ UNCHANGED <<alive, used, receiver>>
           \/ v \notin used /\ alive' = alive \cup {v} /\ used' = used \cup {v} /\ receiver' = v
    PROVE  Inv'
<1>1. calls[v] = 0 /\ v \notin Reported /\ listener # v
  BY Idle
<1>2. /\ isProxyStartInFlight' = [isProxyStartInFlight EXCEPT ![v] = TRUE]
      /\ calls' = [calls EXCEPT ![v] = 1]
      /\ serverState' = [serverState EXCEPT ![v] = "starting"]
      /\ endpoint' \in [View -> {"detecting", "address", "notAvailable"}]
      /\ \A u \in View : u # v => endpoint'[u] = endpoint[u]
      /\ isProxyListening' = isProxyListening
  BY <1>1, StartProxyEffect DEF Inv
<1>3. /\ \A u \in View : u # v => /\ isProxyStartInFlight'[u] = isProxyStartInFlight[u]
                                  /\ calls'[u] = calls[u] /\ serverState'[u] = serverState[u]
      /\ isProxyStartInFlight'[v] /\ calls'[v] = 1 /\ serverState'[v] = "starting"
  BY <1>2 DEF Inv, TypeOK
<1>4. /\ alive' \subseteq used' /\ used' \subseteq View /\ receiver' \in alive' \cup {NoView}
      /\ v \in used' /\ used \subseteq used' /\ alive \subseteq used
  BY DEF Inv, TypeOK
<1>5. TypeOK'
  <2>1. /\ isProxyStartInFlight' \in [View -> BOOLEAN]
        /\ calls' \in [View -> 0 .. 1]
        /\ serverState' \in [View -> {"waitingForNetwork", "starting", "running", "failed"}]
    BY <1>2 DEF Inv, TypeOK
  <2> QED
    BY <1>2, <1>4, <2>1 DEF Inv, TypeOK, SameMail
<1>6. Calls'
  BY <1>1, <1>2, <1>3 DEF Inv, Calls, Calling, SameMail
<1>7. Shown'
  BY <1>2, <1>3 DEF Inv, Shown
<1>8. Announced'
  BY <1>2, <1>3, <1>4 DEF Inv, Announced, SameMail
<1>9. Single'
  <2> SUFFICES ASSUME NEW u \in alive', used' = {u}
               PROVE  /\ receiver' = u
                      /\ isProxyStartInFlight'[u] <=>
                           \/ calls'[u] = 1 \/ u \in Reported' \/ ReadyPosted'
                           \/ listener' = u /\ ~announced'
    BY DEF Single
  <2>1. u = v
    BY <1>4
  <2>2. receiver' = v
    BY <1>4, <2>1 DEF Inv, Single
  <2> QED
    BY <1>3, <2>1, <2>2
<1> QED
  BY <1>5, <1>6, <1>7, <1>8, <1>9 DEF Inv

\* The timer or the Retry button of a window that exists.
LEMMA LifecycleInv ==
    ASSUME Inv, NEW v \in alive, NEW waiting \in BOOLEAN, RefreshLifecycle(v, waiting), SameMail,
           waits' \in [View -> BOOLEAN],
           UNCHANGED <<alive, used, receiver, listener, announced, network>>
    PROVE  Inv'
<1>1. v \in View /\ network \in BOOLEAN
  BY DEF Inv, TypeOK
<1>2. CASE isProxyListening[v]
  BY <1>1, <1>2, ListeningInv DEF RefreshLifecycle
<1>3. CASE ~isProxyListening[v] /\ (isProxyStartInFlight[v] \/ waiting)
  BY <1>1, <1>3, MailInv DEF RefreshLifecycle
<1>4. CASE ~isProxyListening[v] /\ ~isProxyStartInFlight[v] /\ ~waiting
  BY <1>1, <1>4, StartProxyInv DEF RefreshLifecycle
<1> QED
  BY <1>2, <1>3, <1>4

LEMMA StepInv == Inv /\ [Next]_vars => Inv'
<1> SUFFICES ASSUME Inv, [Next]_vars PROVE Inv'
  OBVIOUS
<1>0. TypeOK /\ PostedOnce
  BY DEF Inv, Announced
<1>w. waits \in [View -> BOOLEAN] /\ network \in BOOLEAN /\ (~network) \in BOOLEAN
  BY <1>0 DEF TypeOK
<1>1. ASSUME NEW v \in View, WindowOpens(v) PROVE Inv'
  <2>1. SameMail
    BY <1>0, <1>1, UnchangedMail DEF WindowOpens
  <2>2. ~isProxyListening[v] /\ ~isProxyStartInFlight[v]
    BY <1>1 DEF Inv, Announced, WindowOpens
  <2>3. StartProxy(v)
    BY <1>1, <2>2 DEF WindowOpens, RefreshLifecycle
  <2> QED
    BY <1>1, <1>w, <2>1, <2>2, <2>3, StartProxyInv DEF WindowOpens
<1>2. ASSUME NEW v \in View, WindowCloses(v) PROVE Inv'
  <2>1. SameMail
    BY <1>0, <1>2, UnchangedMail DEF WindowCloses
  <2>2. /\ v \in used /\ alive' = alive \ {v}
        /\ receiver' = IF receiver = v THEN NoView ELSE receiver
        /\ UNCHANGED <<used, viewVars, calls, listener, announced, network>>
    BY <1>0, <1>2 DEF WindowCloses, TypeOK
  <2>3. alive' \subseteq alive /\ v \notin alive' /\ receiver' \in alive' \cup {NoView}
    BY <1>0, <2>2 DEF TypeOK
  <2>4. TypeOK'
    BY <1>0, <2>1, <2>2, <2>3 DEF TypeOK, SameMail, viewVars
  <2>5. Calls'
    BY <2>1, <2>2 DEF Inv, Calls, Calling, SameMail, viewVars
  <2>6. Shown'
    BY <2>2 DEF Inv, Shown, viewVars
  <2>7. Announced'
    BY <2>1, <2>2 DEF Inv, Announced, SameMail, viewVars
  <2>8. Single'
    BY <2>2, <2>3 DEF Single
  <2> QED
    BY <2>4, <2>5, <2>6, <2>7, <2>8 DEF Inv
<1>3. ASSUME NEW v \in View, TimerFires(v) PROVE Inv'
  <2>1. SameMail
    BY <1>0, <1>3, PostTick DEF TimerFires
  <2> QED
    BY <1>3, <1>w, <2>1, MailInv DEF TimerFires, viewVars
<1>4. ASSUME NEW v \in View, UserRetries(v) PROVE Inv'
  <2>1. SameMail
    BY <1>0, <1>4, UnchangedMail DEF UserRetries
  <2>2. waits' \in [View -> BOOLEAN]
    BY <1>4, <1>w DEF UserRetries
  <2> QED
    BY <1>4, <2>1, <2>2, LifecycleInv DEF UserRetries
<1>5. ASSUME NEW v \in View, RetryFallsDue(v) PROVE Inv'
  <2>1. SameMail
    BY <1>0, <1>5, UnchangedMail DEF RetryFallsDue
  <2>2. waits' \in [View -> BOOLEAN]
    BY <1>5, <1>w DEF RetryFallsDue
  <2> QED
    BY <1>5, <1>w, <2>1, <2>2, MailInv DEF RetryFallsDue
<1>6. ASSUME NEW v \in View, SetupSucceeds(v) PROVE Inv'
  <2>1. SameMail
    BY <1>0, <1>6, UnchangedMail DEF SetupSucceeds
  <2>2. calls[v] = 1
    BY <1>0, <1>6 DEF SetupSucceeds, TypeOK
  <2>3. v \notin Reported /\ v \in used
    BY <2>2, OwnCalls DEF Inv, Calls, Calling
  <2>4. /\ calls' = [calls EXCEPT ![v] = 0] /\ listener = NoView /\ listener' = v
        /\ UNCHANGED <<alive, used, receiver, viewVars, announced, network>>
    BY <1>6, <2>2 DEF SetupSucceeds
  <2>5. /\ calls' \in [View -> 0 .. 1] /\ calls'[v] = 0 /\ calls'[v] # 1
        /\ \A u \in View : u # v => calls'[u] = calls[u]
    BY <1>0, <2>4 DEF TypeOK
  <2>6. TypeOK'
    BY <1>0, <2>1, <2>4, <2>5 DEF TypeOK, SameMail, viewVars
  <2>7. ~announced /\ ~ReadyPosted /\ v # NoView
    BY <2>4, ViewAssumption DEF Inv, Announced
  <2>8. Calls'
    BY <2>1, <2>2, <2>3, <2>4, <2>5 DEF Inv, Calls, Calling, SameMail, viewVars
  <2>9. Shown'
    BY <2>4, <2>7 DEF Inv, Shown, viewVars
  <2>10. Announced'
    BY <2>1, <2>4, <2>7 DEF Inv, Announced, SameMail, viewVars
  <2>11. Single'
    <3> SUFFICES ASSUME NEW u \in alive, used = {u}
                 PROVE  /\ receiver' = u
                        /\ isProxyStartInFlight'[u] <=>
                             \/ calls'[u] = 1 \/ u \in Reported' \/ ReadyPosted'
                             \/ listener' = u /\ ~announced'
      BY <2>4 DEF Single
    <3>1. u = v
      BY <2>3
    <3>2. receiver = u /\ isProxyStartInFlight[u]
      BY <2>2, <3>1 DEF Inv, Single
    <3> QED
      BY <2>4, <2>7, <3>1, <3>2 DEF viewVars
  <2> QED
    BY <2>6, <2>8, <2>9, <2>10, <2>11 DEF Inv
<1>7. ASSUME NEW v \in View, SetupFails(v) PROVE Inv'
  <2>1. calls[v] = 1
    BY <1>0, <1>7 DEF SetupFails, TypeOK
  <2>2. v \notin Reported /\ listener # v /\ v \in used
    BY <2>1, OwnCalls DEF Inv, Calls, Calling
  <2>3. /\ mailbox' \in Seq(Task) /\ (ReadyPosted' <=> ReadyPosted)
        /\ Reported' = Reported \cup {v} /\ PostedOnce'
    BY <1>0, <1>7, <2>2, PostFailed DEF SetupFails
  <2>4. /\ calls' = [calls EXCEPT ![v] = 0]
        /\ UNCHANGED <<alive, used, receiver, viewVars, listener, announced, network>>
    BY <1>7, <2>1 DEF SetupFails
  <2>5. /\ calls' \in [View -> 0 .. 1] /\ calls'[v] = 0 /\ calls'[v] # 1
        /\ \A u \in View : u # v => calls'[u] = calls[u]
    BY <1>0, <2>4 DEF TypeOK
  <2>6. TypeOK'
    BY <1>0, <2>3, <2>4, <2>5 DEF TypeOK, viewVars
  <2>7. Calls'
    BY <2>1, <2>2, <2>3, <2>4, <2>5 DEF Inv, Calls, Calling, viewVars
  <2>8. Shown'
    BY <2>4 DEF Inv, Shown, viewVars
  <2>9. Announced'
    BY <2>3, <2>4 DEF Inv, Announced, viewVars
  <2>10. Single'
    <3> SUFFICES ASSUME NEW u \in alive, used = {u}
                 PROVE  /\ receiver' = u
                        /\ isProxyStartInFlight'[u] <=>
                             \/ calls'[u] = 1 \/ u \in Reported' \/ ReadyPosted'
                             \/ listener' = u /\ ~announced'
      BY <2>4 DEF Single
    <3>1. u = v
      BY <2>2
    <3>2. receiver = u /\ isProxyStartInFlight[u]
      BY <2>1, <3>1 DEF Inv, Single
    <3> QED
      BY <2>3, <2>4, <3>1, <3>2 DEF viewVars
  <2> QED
    BY <2>6, <2>7, <2>8, <2>9, <2>10 DEF Inv
<1>8. ASSUME EmitServerReady PROVE Inv'
  <2>1. /\ listener # NoView /\ ~announced /\ announced' /\ announced' \in BOOLEAN
        /\ UNCHANGED <<alive, used, receiver, viewVars, calls, listener, network>>
    BY <1>8 DEF EmitServerReady
  <2>2. ~ReadyPosted
    BY <2>1 DEF Inv, Announced
  <2>3. mailbox' \in Seq(Task) /\ ReadyPosted' /\ Reported' = Reported /\ PostedOnce'
    BY <1>0, <1>8, <2>2, PostReady DEF EmitServerReady
  <2>4. TypeOK'
    BY <1>0, <2>1, <2>3 DEF TypeOK, viewVars
  <2>5. Calls'
    BY <2>1, <2>3 DEF Inv, Calls, Calling, viewVars
  <2>6. Shown'
    BY <2>1 DEF Inv, Shown, viewVars
  <2>7. Announced'
    BY <2>1, <2>3 DEF Inv, Announced, viewVars
  <2>8. Single'
    <3> SUFFICES ASSUME NEW u \in alive, used = {u}
                 PROVE  receiver' = u /\ isProxyStartInFlight'[u]
      BY <2>1, <2>3 DEF Single
    <3>1. listener = u
      BY <1>0, <2>1, OwnCalls DEF Calling, TypeOK
    <3> QED
      BY <2>1, <3>1 DEF Inv, Single, viewVars
  <2> QED
    BY <2>4, <2>5, <2>6, <2>7, <2>8 DEF Inv
<1>9. ASSUME RunReady PROVE Inv'
  <2>1. mailbox' \in Seq(Task) /\ ReadyPosted /\ ~ReadyPosted' /\ Reported' = Reported /\ PostedOnce'
    BY <1>0, <1>9, TakeReady DEF RunReady
  <2>2. announced /\ listener # NoView
    BY <2>1 DEF Inv, Announced
  <2>3. UNCHANGED <<alive, used, receiver, calls, listener, announced, network>>
    BY <1>9 DEF RunReady
  \* a single window is the receiver of the event, and the one who listens
  <2>4. ASSUME NEW u \in alive, used = {u}
        PROVE  receiver = u /\ u # NoView /\ listener = u /\ calls[u] # 1 /\ u \notin Reported
    <3>1. receiver = u /\ u \in View
      BY <1>0, <2>4 DEF Inv, Single, TypeOK
    <3>2. listener = u
      BY <1>0, <2>2, <2>4, OwnCalls DEF Calling, TypeOK
    <3> QED
      BY <3>1, <3>2, ViewAssumption DEF Inv, Calls
  <2>5. CASE receiver = NoView
    <3>1. UNCHANGED viewVars
      BY <1>9, <2>5 DEF RunReady
    <3>2. TypeOK'
      BY <1>0, <2>1, <2>3, <3>1 DEF TypeOK, viewVars
    <3>3. Calls' /\ Shown'
      BY <2>1, <2>3, <3>1 DEF Inv, Calls, Calling, Shown, viewVars
    <3>4. Announced'
      BY <2>1, <2>2, <2>3, <3>1 DEF Inv, Announced, viewVars
    <3>5. Single'
      BY <2>3, <2>4, <2>5 DEF Single
    <3> QED
      BY <3>2, <3>3, <3>4, <3>5 DEF Inv
  <2>6. CASE receiver # NoView
    <3> DEFINE r == receiver
    <3>1. r \in View /\ r \in used
      BY <1>0, <2>6 DEF TypeOK
    <3>2. /\ isProxyStartInFlight' = [isProxyStartInFlight EXCEPT ![r] = FALSE]
          /\ isProxyListening' = [isProxyListening EXCEPT ![r] = TRUE]
          /\ RefreshEndpoint(r, serverState[r], endpoint[r], TRUE) /\ waits' = waits
      BY <1>9, <2>6 DEF RunReady, HandleServerReady
    <3> HIDE DEF r
    <3>3. /\ serverState' \in [View -> {"waitingForNetwork", "starting", "running", "failed"}]
          /\ endpoint' \in [View -> {"detecting", "address", "notAvailable"}]
          /\ serverState'[r] \in {"running", "waitingForNetwork"}
          /\ serverState'[r] = "waitingForNetwork" => endpoint'[r] = "notAvailable"
          /\ \A u \in View : u # r => serverState'[u] = serverState[u] /\ endpoint'[u] = endpoint[u]
      BY <1>0, <3>1, <3>2, ListeningEffect
    <3>4. /\ isProxyStartInFlight' \in [View -> BOOLEAN] /\ isProxyListening' \in [View -> BOOLEAN]
          /\ ~isProxyStartInFlight'[r] /\ isProxyListening'[r]
          /\ \A u \in View : u # r => /\ isProxyStartInFlight'[u] = isProxyStartInFlight[u]
                                      /\ isProxyListening'[u] = isProxyListening[u]
      BY <1>0, <3>1, <3>2 DEF TypeOK
    <3>5. TypeOK'
      BY <1>0, <2>1, <2>3, <3>2, <3>3, <3>4 DEF TypeOK
    <3>6. Calls'
      BY <2>1, <2>3, <3>4 DEF Inv, Calls, Calling
    <3>7. Shown'
      BY <2>2, <2>3, <3>3, <3>4 DEF Inv, Shown
    <3>8. Announced'
      BY <2>1, <2>2, <2>3, <3>1, <3>4 DEF Inv, Announced
    <3>9. Single'
      <4> SUFFICES ASSUME NEW u \in alive, used = {u}
                   PROVE  /\ receiver = u /\ ~isProxyStartInFlight'[u] /\ calls[u] # 1
                          /\ u \notin Reported /\ announced
        BY <2>1, <2>3 DEF Single
      <4> QED
        BY <2>2, <2>4, <3>4 DEF r
    <3> QED
      BY <3>5, <3>6, <3>7, <3>8, <3>9 DEF Inv
  <2> QED
    BY <2>5, <2>6
<1>10. ASSUME NEW v \in View, RunFailed(v) PROVE Inv'
  <2>1. /\ mailbox' \in Seq(Task) /\ (ReadyPosted' <=> ReadyPosted)
        /\ v \in Reported /\ Reported' = Reported \ {v} /\ PostedOnce'
    BY <1>0, <1>10, TakeFailed DEF RunFailed
  <2>2. UNCHANGED <<alive, used, receiver, calls, listener, announced, network>>
    BY <1>10 DEF RunFailed
  <2>3. v \in used /\ calls[v] # 1 /\ listener # v
    BY <2>1, OwnCalls DEF Inv, Calls, Calling
  \* a failed call of the only window: nobody listens
  <2>4. ASSUME NEW u \in alive, used = {u}
        PROVE  u = v /\ receiver = u /\ ~ReadyPosted
    <3>1. u = v /\ receiver = u
      BY <2>3, <2>4 DEF Inv, Single
    <3>2. listener = NoView
      BY <1>0, <2>3, <2>4, <3>1, OwnCalls DEF Calling, TypeOK
    <3> QED
      BY <3>1, <3>2 DEF Inv, Announced
  <2>5. CASE v \notin alive
    <3>1. UNCHANGED viewVars
      BY <1>10, <2>5 DEF RunFailed
    <3>2. TypeOK'
      BY <1>0, <2>1, <2>2, <3>1 DEF TypeOK, viewVars
    <3>3. Calls' /\ Shown'
      BY <2>1, <2>2, <3>1 DEF Inv, Calls, Calling, Shown, viewVars
    <3>4. Announced'
      BY <2>1, <2>2, <3>1 DEF Inv, Announced, viewVars
    <3>5. Single'
      BY <2>2, <2>4, <2>5 DEF Single
    <3> QED
      BY <3>2, <3>3, <3>4, <3>5 DEF Inv
  <2>6. CASE v \in alive
    <3>1. /\ isProxyStartInFlight' = [isProxyStartInFlight EXCEPT ![v] = FALSE]
          /\ isProxyListening' = [isProxyListening EXCEPT ![v] = FALSE]
          /\ waits' = [waits EXCEPT ![v] = TRUE]
          /\ serverState' = [serverState EXCEPT ![v] = "failed"]
          /\ UNCHANGED endpoint
      BY <1>10, <2>6 DEF RunFailed, MarkServerFailed
    <3>2. /\ isProxyStartInFlight' \in [View -> BOOLEAN] /\ isProxyListening' \in [View -> BOOLEAN]
          /\ waits' \in [View -> BOOLEAN]
          /\ ~isProxyStartInFlight'[v] /\ ~isProxyListening'[v]
          /\ \A u \in View : u # v => /\ isProxyStartInFlight'[u] = isProxyStartInFlight[u]
                                      /\ isProxyListening'[u] = isProxyListening[u]
      BY <1>0, <3>1 DEF TypeOK
    <3>3. /\ serverState' \in [View -> {"waitingForNetwork", "starting", "running", "failed"}]
          /\ serverState'[v] = "failed"
          /\ \A u \in View : u # v => serverState'[u] = serverState[u]
      BY <1>0, <3>1 DEF TypeOK
    <3>4. TypeOK'
      BY <1>0, <2>1, <2>2, <3>1, <3>2, <3>3 DEF TypeOK
    <3>5. Calls'
      BY <2>1, <2>2, <2>3, <3>2 DEF Inv, Calls, Calling
    <3>6. Shown'
      BY <2>2, <3>1, <3>2, <3>3 DEF Inv, Shown
    <3>7. Announced'
      BY <2>1, <2>2, <3>2 DEF Inv, Announced
    <3>8. Single'
      <4> SUFFICES ASSUME NEW u \in alive, used = {u}
                   PROVE  /\ receiver = u /\ ~isProxyStartInFlight'[u] /\ calls[u] # 1
                          /\ u \notin Reported' /\ ~ReadyPosted' /\ listener # u
        BY <2>2 DEF Single
      <4> QED
        BY <2>1, <2>3, <2>4, <3>2
    <3> QED
      BY <3>4, <3>5, <3>6, <3>7, <3>8 DEF Inv
  <2> QED
    BY <2>5, <2>6
<1>11. ASSUME NEW v \in View, RunTick(v) PROVE Inv'
  <2>1. SameMail
    BY <1>0, <1>11, TakeTick DEF RunTick
  <2>2. CASE v \in alive
    <3>1. waits[v] \in BOOLEAN
      BY <1>w
    <3>2. /\ RefreshLifecycle(v, waits[v]) /\ waits' = waits
          /\ UNCHANGED <<alive, used, receiver, listener, announced, network>>
      BY <1>11, <2>2 DEF RunTick
    <3> QED
      BY <1>w, <2>1, <2>2, <3>1, <3>2, LifecycleInv
  <2>3. CASE v \notin alive
    BY <1>11, <1>w, <2>1, <2>3, MailInv DEF RunTick, viewVars
  <2> QED
    BY <2>2, <2>3
<1>12. ASSUME NetworkChanges PROVE Inv'
  <2>1. SameMail
    BY <1>0, <1>12, UnchangedMail DEF NetworkChanges
  <2> QED
    BY <1>12, <1>w, <2>1, MailInv DEF NetworkChanges, viewVars
<1>13. ASSUME UNCHANGED vars PROVE Inv'
  <2>1. SameMail
    BY <1>0, <1>13, UnchangedMail DEF vars
  <2> QED
    BY <1>13, <1>w, <2>1, MailInv DEF vars, viewVars
<1> QED
  BY <1>1, <1>2, <1>3, <1>4, <1>5, <1>6, <1>7, <1>8, <1>9, <1>10, <1>11, <1>12, <1>13
  DEF Next, MainActor

THEOREM Invariant == Spec => []Inv
BY InitInv, StepInv, PTL DEF Spec

-----------------------------------------------------------------------------
\* The types, whatever the number of windows and however long the main
\* actor's queue grows.
THEOREM TypeCorrect == Spec => []TypeOK
<1>1. Inv => TypeOK
  BY DEF Inv
<1> QED
  BY <1>1, Invariant, PTL

\* startProxy is never called by a window whose call of socks_main is still
\* to end, and a single window's isProxyStartInFlight is set exactly until it
\* has heard of the end.
THEOREM OneCallCorrect == Spec => []OneCallInFlight
<1>1. Inv => OneCallInFlight
  <2> SUFFICES ASSUME Inv, NEW v \in alive
               PROVE  /\ calls[v] + (IF listener = v THEN 1 ELSE 0) <= 1
                      /\ Only(v) =>
                           (isProxyStartInFlight[v] <=>
                              \/ calls[v] = 1
                              \/ {k \in DOMAIN mailbox : mailbox[k] \in {Failed(v), Ready}} # {}
                              \/ (listener = v /\ ~announced))
    BY DEF OneCallInFlight
  <2>1. v \in View /\ calls[v] \in 0 .. 1 /\ (calls[v] = 1 => listener # v)
    BY DEF Inv, TypeOK, Calls
  <2>2. {k \in DOMAIN mailbox : mailbox[k] \in {Failed(v), Ready}} # {} <=> v \in Reported \/ ReadyPosted
    BY <2>1 DEF Reported, ReadyPosted, InMailbox
  <2> QED
    BY <2>1, <2>2 DEF Inv, Single, Only
<1> QED
  BY <1>1, Invariant, PTL

\* What a window shows of the proxy agrees with the listening socket.
THEOREM ShownCorrect == Spec => []ShownStateIsTrue
<1>1. Inv => ShownStateIsTrue
  <2> SUFFICES ASSUME Inv, NEW v \in alive
               PROVE  /\ serverState[v] \in {"running", "waitingForNetwork"} =>
                            listener # NoView /\ isProxyListening[v]
                      /\ serverState[v] = "waitingForNetwork" => endpoint[v] = "notAvailable"
                      /\ Only(v) /\ serverState[v] = "failed" => listener = NoView /\ calls[v] = 0
    BY DEF ShownStateIsTrue
  <2>1. v \in View
    BY DEF Inv, TypeOK
  <2>2. ASSUME used = {v}, serverState[v] = "failed" PROVE listener = NoView /\ calls[v] = 0
    <3>1. calls[v] = 0 /\ listener # v
      BY <2>1, <2>2, Idle DEF Inv, Shown
    <3> QED
      BY <2>2, <3>1, OwnCalls DEF Inv, TypeOK, Calling
  <2> QED
    BY <2>1, <2>2 DEF Inv, Shown, Only
<1> QED
  BY <1>1, Invariant, PTL

=============================================================================
