--------------------------- MODULE Dashboard_proofs ---------------------------
(***************************************************************************)
(* The safety properties of the list of connections, for every set of      *)
(* connections, every limit and every number of view models, of which any  *)
(* number are on the screen together.                                      *)
(*                                                                         *)
(* That nothing is shown open forever needs to know what is still on the   *)
(* way: an opening that waits for the main actor has its end, if there was *)
(* one, behind it (TasksFollowTheCore), and what is open in the receiver's *)
(* window is open in the core or about to end (ReceiverFollowsTheTasks).   *)
(* That the order and the dictionary agree rests on what filtering and     *)
(* trimming do to them, which is proved first.                             *)
(***************************************************************************)
EXTENDS Dashboard, SequenceTheorems, FiniteSetTheorems, WellFoundedInduction, TLAPS

\* An order and a dictionary know the same connections, the order each once.
Agree(order, byID) ==
    /\ order \in Seq(Ids)
    /\ byID \in [Ids -> State \cup {"absent"}]
    /\ \A j, k \in DOMAIN order : order[j] = order[k] => j = k
    /\ \A id \in Ids : byID[id] # "absent" <=> \E k \in DOMAIN order : order[k] = id

\* In every window the order, the dictionary and what is published belong together,
\* and a view model that is yet to be created lists nothing.
ViewsAreConsistent ==
    \A v \in View :
        /\ Agree(connectionOrder[v], connectionsByID[v])
        /\ connections[v] = Published(connectionOrder[v], connectionsByID[v])
        /\ v \notin used => connectionsByID[v] = Empty

\* The core is started by the first view model.
NothingBeforeTheFirstView ==
    used = {} => mailbox = <<>> /\ \A id \in Ids : reported[id] = "none"

\* Connections whose opening, or whose end, is on the way to the view
Opening == {id \in Ids : \E k \in Waiting(id) : mailbox[k].state = "open"}
Ending == {id \in Ids : \E k \in Waiting(id) : mailbox[k].state \in Core!Ended}

\* An opening that waits is overtaken by nothing: its connection is still open
\* or the end waits behind it.
TasksFollowTheCore ==
    \A k \in DOMAIN mailbox :
        LET id == mailbox[k].id IN
        IF mailbox[k].state = "open"
        THEN \/ reported[id] = "open"
             \/ \E j \in DOMAIN mailbox : j > k /\ mailbox[j].id = id /\ mailbox[j].state \in Core!Ended
        ELSE reported[id] \in Core!Ended

\* What is open in the receiver's window is open in the core or about to end; what
\* is open in the core is open in the only view model there has been or about to be.
ReceiverFollowsTheTasks ==
    \A v \in View : v = receiver =>
        \A id \in Ids :
            /\ connectionsByID[v][id] = "open" => reported[id] = "open" \/ id \in Ending
            /\ used = {v} /\ reported[id] = "open" => connectionsByID[v][id] = "open" \/ id \in Opening

Inv ==
    /\ TypeOK
    /\ ViewsAreConsistent
    /\ NothingBeforeTheFirstView
    /\ TasksFollowTheCore
    /\ ReceiverFollowsTheTasks

-----------------------------------------------------------------------------
\* What Filtered returns.  The claims about its recursive function are shown by
\* way of the shortest prefix of the order for which one would fail.

LEMMA LeastElement ==
    ASSUME NEW T \in SUBSET Nat, T # {}
    PROVE  \E m \in T : \A k \in T : m <= k
<1>1. PICK m \in T : \A k \in T : <<k, m>> \notin OpToRel(<, Nat)
  BY NatLessThanWellFounded, WFMin
<1>2. \A k \in T : ~(k < m)
  BY <1>1 DEF OpToRel
<1> QED
  BY <1>2

\* One step of the walk along the order.
Walk(order, ids, n, before) ==
    IF n = 0 THEN <<>>
    ELSE IF order[n] \in ids THEN Append(before, order[n]) ELSE before

\* The function that Filtered chooses exists.
LEMMA FilteredWalks ==
    ASSUME NEW S, NEW order \in Seq(S), NEW ids
    PROVE  \E F : /\ \A n \in 0 .. Len(order) : F[n] = Walk(order, ids, n, F[n - 1])
                  /\ Filtered(order, ids) = F[Len(order)]
<1> DEFINE W(n, f) == Walk(order, ids, n, f[n - 1])
           Reaches(n) == \E f : f = [m \in 0 .. n |-> W(m, f)]
           Bad == {n \in 0 .. Len(order) : ~Reaches(n)}
<1>1. Len(order) \in Nat
  BY LenProperties
<1>2. Bad = {}
  <2> SUFFICES ASSUME Bad # {} PROVE FALSE
    OBVIOUS
  <2>1. Bad \in SUBSET Nat
    BY <1>1
  <2>2. PICK n \in Bad : \A k \in Bad : n <= k
    <3> HIDE DEF Bad
    <3> QED BY <2>1, LeastElement
  <2>3. n \in 0 .. Len(order) /\ ~Reaches(n)
    OBVIOUS
  <2>4. CASE n = 0
    <3> DEFINE f == [m \in 0 .. 0 |-> <<>>]
    <3>1. \A m \in 0 .. 0 : W(m, f) = <<>>
      BY DEF Walk
    <3>2. f = [m \in 0 .. 0 |-> W(m, f)]
      BY <3>1
    <3> QED
      BY <2>3, <2>4, <3>2
  <2>5. CASE n # 0
    <3>1. n - 1 \in 0 .. Len(order) /\ n - 1 \notin Bad
      <4>1. n - 1 \in 0 .. Len(order)
        BY <1>1, <2>3, <2>5
      <4>2. n - 1 < n
        BY <2>3
      <4> HIDE DEF Bad
      <4> QED
        BY <2>1, <2>2, <4>1, <4>2
    <3>2. PICK f : f = [m \in 0 .. n - 1 |-> W(m, f)]
      BY <3>1
    <3> DEFINE g == [m \in 0 .. n |-> IF m = n THEN W(n, f) ELSE f[m]]
    <3>3. \A m \in 0 .. n : g[m] = W(m, g)
      <4> TAKE m \in 0 .. n
      <4>1. CASE m = 0
        BY <4>1, <2>5, <3>1, <3>2 DEF Walk
      <4>2. CASE m # 0
        <5>1. m - 1 \in 0 .. n /\ m - 1 # n
          BY <4>2, <2>3, <1>1
        <5>2. g[m - 1] = f[m - 1]
          BY <5>1
        <5>3. W(m, g) = W(m, f)
          BY <5>2
        <5>4. m # n => f[m] = W(m, f)
          <6>1. m # n => m \in 0 .. n - 1
            BY <2>3, <1>1
          <6> QED BY <3>2, <6>1
        <5> QED
          BY <5>3, <5>4
      <4> QED
        BY <4>1, <4>2
    <3>4. g = [m \in 0 .. n |-> W(m, g)]
      BY <3>3
    <3> QED
      BY <2>3, <3>4
  <2> QED
    BY <2>4, <2>5
<1>3. Reaches(Len(order))
  BY <1>1, <1>2
<1> DEFINE F == CHOOSE f : f = [n \in 0 .. Len(order) |-> W(n, f)]
<1>4. F = [n \in 0 .. Len(order) |-> W(n, F)]
  BY <1>3
<1>5. Filtered(order, ids) = F[Len(order)]
  BY DEF Filtered, Walk
<1>6. \A n \in 0 .. Len(order) : F[n] = Walk(order, ids, n, F[n - 1])
  BY <1>4
<1> QED
  BY <1>5, <1>6
\* The members of ids that are in the order, in a sequence without repetitions
\* if the order is one.
LEMMA FilteredProperties ==
    ASSUME NEW S, NEW order \in Seq(S), NEW ids,
           \A j, k \in DOMAIN order : order[j] = order[k] => j = k
    PROVE  LET part == Filtered(order, ids) IN
           /\ part \in Seq(S)
           /\ \A j, k \in DOMAIN part : part[j] = part[k] => j = k
           /\ \A x : (\E k \in DOMAIN part : part[k] = x)
                 <=> x \in ids /\ \E k \in DOMAIN order : order[k] = x
<1> DEFINE L == Len(order)
<1>1. L \in Nat /\ DOMAIN order = 1 .. L
  BY LenProperties
<1>2. PICK F : /\ \A n \in 0 .. L : F[n] = Walk(order, ids, n, F[n - 1])
               /\ Filtered(order, ids) = F[L]
  BY FilteredWalks
<1> DEFINE Good(n) ==
             /\ F[n] \in Seq(S)
             /\ \A j, k \in DOMAIN F[n] : F[n][j] = F[n][k] => j = k
             /\ \A x : (\E k \in DOMAIN F[n] : F[n][k] = x)
                   <=> x \in ids /\ \E k \in 1 .. n : order[k] = x
           Bad == {n \in 0 .. L : ~Good(n)}
<1>3. Bad = {}
  <2> SUFFICES ASSUME Bad # {} PROVE FALSE
    OBVIOUS
  <2>1. Bad \in SUBSET Nat
    BY <1>1
  <2>2. PICK n \in Bad : \A k \in Bad : n <= k
    <3> HIDE DEF Bad
    <3> QED BY <2>1, LeastElement
  <2>3. n \in 0 .. L /\ ~Good(n)
    OBVIOUS
  <2>4. CASE n = 0
    <3>1. F[0] = <<>>
      BY <1>2, <2>3, <2>4 DEF Walk
    <3>2. F[0] \in Seq(S) /\ DOMAIN F[0] = 1 .. 0
      BY <3>1, EmptySeq, LenProperties
    <3>3. Good(0)
      BY <3>2
    <3> QED
      BY <2>3, <2>4, <3>3
  <2>5. CASE n # 0
    <3>1. n - 1 \in 0 .. L /\ n \in 1 .. L
      BY <1>1, <2>3, <2>5
    <3>2. n - 1 < n
      BY <2>3
    <3>3. n - 1 \notin Bad
      <4> HIDE DEF Bad
      <4> QED BY <2>1, <2>2, <3>1, <3>2
    <3> DEFINE f == F[n - 1]
               x == order[n]
    <3>4. Good(n - 1)
      BY <3>1, <3>3
    <3>5. /\ f \in Seq(S)
          /\ \A j, k \in DOMAIN f : f[j] = f[k] => j = k
          /\ \A y : (\E k \in DOMAIN f : f[k] = y)
                <=> y \in ids /\ \E k \in 1 .. n - 1 : order[k] = y
      BY <3>4
    <3>6. F[n] = IF x \in ids THEN Append(f, x) ELSE f
      BY <1>2, <2>3, <2>5 DEF Walk
    <3>7. x \in S
      BY <3>1, <1>1, ElementOfSeq
    <3>8. \A y : (\E k \in 1 .. n : order[k] = y) <=> y = x \/ \E k \in 1 .. n - 1 : order[k] = y
      BY <3>1
    <3>9. ~\E k \in 1 .. n - 1 : order[k] = x
      BY <3>1, <1>1
    <3> HIDE DEF f, x, Good
    <3>10. CASE x \in ids
      <4> DEFINE g == Append(f, x)
      <4>1. /\ g \in Seq(S) /\ Len(g) = Len(f) + 1
            /\ \A k \in 1 .. Len(f) : g[k] = f[k]
            /\ g[Len(f) + 1] = x
        BY <3>5, <3>7, AppendProperties
      <4>2. Len(f) \in Nat /\ DOMAIN f = 1 .. Len(f) /\ DOMAIN g = 1 .. Len(f) + 1
        BY <3>5, <4>1, LenProperties
      <4>3. \A k \in DOMAIN f : f[k] # x
        BY <3>5, <3>9
      <4> HIDE DEF g
      <4>4. \A j, k \in DOMAIN g : g[j] = g[k] => j = k
        BY <3>5, <4>1, <4>2, <4>3
      <4>5. \A y : (\E k \in DOMAIN g : g[k] = y) <=> y = x \/ \E k \in DOMAIN f : f[k] = y
        BY <4>1, <4>2
      <4>6. F[n] = g
        BY <3>6, <3>10 DEF g
      <4>7. \A y : (\E k \in DOMAIN g : g[k] = y)
                   <=> y \in ids /\ \E k \in 1 .. n : order[k] = y
        BY <3>5, <3>8, <3>10, <4>5
      <4> QED
        BY <2>3, <4>1, <4>4, <4>6, <4>7 DEF Good
    <3>11. CASE x \notin ids
      <4>1. F[n] = f
        BY <3>6, <3>11
      <4>2. \A y : (\E k \in DOMAIN f : f[k] = y)
                   <=> y \in ids /\ \E k \in 1 .. n : order[k] = y
        BY <3>5, <3>8, <3>11
      <4> QED
        BY <2>3, <3>5, <4>1, <4>2 DEF Good
    <3> QED
      BY <3>10, <3>11
  <2> QED
    BY <2>4, <2>5
<1>4. L \in 0 .. L
  BY <1>1
<1>5. Good(L)
  BY <1>3, <1>4
<1> QED
  BY <1>1, <1>2, <1>5

\* Of two sets that share out the members of an order, each is filtered out of
\* it as often as it occurs.
LEMMA PartsAddUp ==
    ASSUME NEW S, NEW order \in Seq(S), NEW A, NEW B,
           \A k \in DOMAIN order : order[k] \in A <=> order[k] \notin B
    PROVE  Len(Filtered(order, A)) + Len(Filtered(order, B)) = Len(order)
<1> DEFINE L == Len(order)
<1>1. L \in Nat /\ DOMAIN order = 1 .. L
  BY LenProperties
<1>2. PICK F : /\ \A n \in 0 .. L : F[n] = Walk(order, A, n, F[n - 1])
               /\ Filtered(order, A) = F[L]
  BY FilteredWalks
<1>3. PICK G : /\ \A n \in 0 .. L : G[n] = Walk(order, B, n, G[n - 1])
               /\ Filtered(order, B) = G[L]
  BY FilteredWalks
<1> DEFINE Good(n) == F[n] \in Seq(S) /\ G[n] \in Seq(S) /\ Len(F[n]) + Len(G[n]) = n
           Bad == {n \in 0 .. L : ~Good(n)}
<1>4. Bad = {}
  <2> SUFFICES ASSUME Bad # {} PROVE FALSE
    OBVIOUS
  <2>1. Bad \in SUBSET Nat
    <3> HIDE DEF Good
    <3> QED BY <1>1
  <2>2. PICK n \in Bad : \A k \in Bad : n <= k
    <3> HIDE DEF Bad
    <3> QED BY <2>1, LeastElement
  <2>3. n \in 0 .. L /\ ~Good(n)
    OBVIOUS
  <2>4. CASE n = 0
    <3>1. F[0] = <<>> /\ G[0] = <<>>
      BY <1>2, <1>3, <2>3, <2>4 DEF Walk
    <3>2. Good(0)
      BY <3>1, EmptySeq
    <3> QED
      BY <2>3, <2>4, <3>2
  <2>5. CASE n # 0
    <3>1. n - 1 \in 0 .. L /\ n \in 1 .. L
      BY <1>1, <2>3, <2>5
    <3>2. n - 1 < n
      BY <2>3
    <3>3. n - 1 \notin Bad
      <4> HIDE DEF Bad
      <4> QED BY <2>1, <2>2, <3>1, <3>2
    <3> DEFINE f == F[n - 1]
               g == G[n - 1]
               x == order[n]
    <3>4. f \in Seq(S) /\ g \in Seq(S) /\ Len(f) + Len(g) = n - 1
      BY <3>1, <3>3
    <3>5. /\ F[n] = IF x \in A THEN Append(f, x) ELSE f
          /\ G[n] = IF x \in B THEN Append(g, x) ELSE g
      BY <1>2, <1>3, <2>3, <2>5 DEF Walk
    <3>6. x \in S /\ (x \in A <=> x \notin B)
      BY <3>1, <1>1, ElementOfSeq
    <3>7. /\ Append(f, x) \in Seq(S) /\ Len(Append(f, x)) = Len(f) + 1
          /\ Append(g, x) \in Seq(S) /\ Len(Append(g, x)) = Len(g) + 1
      BY <3>4, <3>6, AppendProperties
    <3>8. Len(f) \in Nat /\ Len(g) \in Nat
      BY <3>4, LenProperties
    <3> HIDE DEF f, g, x
    <3>9. F[n] \in Seq(S) /\ G[n] \in Seq(S)
      BY <3>4, <3>5, <3>7
    <3>10. Len(F[n]) + Len(G[n]) = n
      <4>1. CASE x \in A
        <5>1. F[n] = Append(f, x) /\ G[n] = g
          BY <3>5, <3>6, <4>1
        <5>2. Len(F[n]) = Len(f) + 1 /\ Len(G[n]) = Len(g)
          BY <3>7, <5>1
        <5> QED
          BY <3>4, <3>8, <5>2
      <4>2. CASE x \notin A
        <5>1. F[n] = f /\ G[n] = Append(g, x)
          BY <3>5, <3>6, <4>2
        <5>2. Len(F[n]) = Len(f) /\ Len(G[n]) = Len(g) + 1
          BY <3>7, <5>1
        <5> QED
          BY <3>4, <3>8, <5>2
      <4> QED
        BY <4>1, <4>2
    <3> QED
      BY <2>3, <3>9, <3>10
  <2> QED
    BY <2>4, <2>5
<1>5. Good(L)
  <2>1. L \in 0 .. L
    BY <1>1
  <2> HIDE DEF Good
  <2> QED BY <1>4, <2>1
<1> QED
  BY <1>2, <1>3, <1>5

-----------------------------------------------------------------------------
\* The parts of handleConnectionEvent, for an order and a dictionary that know
\* the same connections.

\* What is published is exactly what the dictionary says.
LEMMA PublishedProperties ==
    ASSUME NEW order, NEW byID, Agree(order, byID)
    PROVE  LET list == Published(order, byID) IN
           /\ list \in Seq(Connection)
           /\ Len(list) = Len(order)
           /\ \A id \in Ids, state \in State :
                (\E k \in DOMAIN list : list[k] = [id |-> id, state |-> state]) <=> byID[id] = state
<1> DEFINE A == {id \in Ids : byID[id] \in {"open"}}
           B == {id \in Ids : byID[id] \in Core!Ended}
           a == Filtered(order, A)
           b == Filtered(order, B)
           shown == a \o b
           list == Published(order, byID)
<1>1. list = [k \in DOMAIN shown |-> [id |-> shown[k], state |-> byID[shown[k]]]]
  BY DEF Published
<1>2. /\ order \in Seq(Ids)
      /\ \A j, k \in DOMAIN order : order[j] = order[k] => j = k
      /\ \A id \in Ids : byID[id] # "absent" <=> \E k \in DOMAIN order : order[k] = id
  BY DEF Agree
<1>3. \A k \in DOMAIN order : order[k] \in Ids
  BY <1>2, ElementOfSeq, LenProperties
<1>4. \A id \in Ids : /\ byID[id] \in State \cup {"absent"}
                      /\ id \in A \cup B <=> byID[id] # "absent"
                      /\ ~(id \in A /\ id \in B)
  BY DEF Agree, State, Core!Ended
<1>5. \A k \in DOMAIN order : order[k] \in A <=> order[k] \notin B
  <2> TAKE k \in DOMAIN order
  <2>1. order[k] \in Ids /\ byID[order[k]] # "absent"
    BY <1>2, <1>3
  <2> HIDE DEF A, B
  <2> QED BY <1>4, <2>1
<1> HIDE DEF A, B
<1>6. /\ a \in Seq(Ids) /\ b \in Seq(Ids)
      /\ \A x : (\E k \in DOMAIN a : a[k] = x) <=> x \in A /\ \E k \in DOMAIN order : order[k] = x
      /\ \A x : (\E k \in DOMAIN b : b[k] = x) <=> x \in B /\ \E k \in DOMAIN order : order[k] = x
  BY <1>2, FilteredProperties
<1>7. Len(a) + Len(b) = Len(order)
  BY <1>2, <1>5, PartsAddUp
<1> HIDE DEF a, b
<1>8. /\ shown \in Seq(Ids) /\ Len(shown) = Len(a) + Len(b)
      /\ \A k \in 1 .. Len(a) + Len(b) : shown[k] = IF k <= Len(a) THEN a[k] ELSE b[k - Len(a)]
  BY <1>6, ConcatProperties
<1>9. /\ Len(a) \in Nat /\ Len(b) \in Nat /\ DOMAIN a = 1 .. Len(a) /\ DOMAIN b = 1 .. Len(b)
      /\ DOMAIN shown = 1 .. Len(a) + Len(b)
  BY <1>6, <1>8, LenProperties
<1> HIDE DEF shown, list
<1>10. \A id \in Ids : (\E k \in DOMAIN shown : shown[k] = id) <=> byID[id] # "absent"
  <2> TAKE id \in Ids
  <2>1. ASSUME NEW k \in DOMAIN shown, shown[k] = id PROVE byID[id] # "absent"
    <3>1. CASE k <= Len(a)
      <4>1. k \in DOMAIN a /\ a[k] = id
        BY <2>1, <1>8, <1>9, <3>1
      <4> QED BY <1>4, <1>6, <4>1
    <3>2. CASE ~(k <= Len(a))
      <4>1. k - Len(a) \in DOMAIN b /\ b[k - Len(a)] = id
        BY <2>1, <1>8, <1>9, <3>2
      <4> QED BY <1>4, <1>6, <4>1
    <3> QED
      BY <3>1, <3>2
  <2>2. ASSUME byID[id] # "absent" PROVE \E k \in DOMAIN shown : shown[k] = id
    <3>1. \E k \in DOMAIN order : order[k] = id
      BY <1>2, <2>2
    <3>2. CASE id \in A
      <4>1. PICK k \in DOMAIN a : a[k] = id
        BY <1>6, <3>1, <3>2
      <4>2. k \in DOMAIN shown /\ shown[k] = id
        BY <1>8, <1>9, <4>1
      <4> QED BY <4>2
    <3>3. CASE id \in B
      <4>1. PICK k \in DOMAIN b : b[k] = id
        BY <1>6, <3>1, <3>3
      <4>2. k + Len(a) \in DOMAIN shown /\ shown[k + Len(a)] = id
        BY <1>8, <1>9, <4>1
      <4> QED BY <4>2
    <3> QED
      BY <1>4, <2>2, <3>2, <3>3
  <2> QED
    BY <2>1, <2>2
<1>11. \A k \in DOMAIN shown : shown[k] \in Ids
  BY <1>8, ElementOfSeq, LenProperties
<1>12. \A id \in Ids, state \in State :
          (\E k \in DOMAIN list : list[k] = [id |-> id, state |-> state]) <=> byID[id] = state
  <2>1. "absent" \notin State
    BY DEF State, Core!Ended
  <2>2. DOMAIN list = DOMAIN shown
    BY <1>1
  <2>3. \A id \in Ids, state \in State, k \in DOMAIN shown :
           list[k] = [id |-> id, state |-> state] <=> shown[k] = id /\ byID[id] = state
    BY <1>1
  <2> QED
    BY <1>10, <2>1, <2>2, <2>3
<1>13. /\ list \in Seq(Connection) /\ Len(list) = Len(order)
  <2>1. \A k \in 1 .. Len(order) : [id |-> shown[k], state |-> byID[shown[k]]] \in Connection
    <3> TAKE k \in 1 .. Len(order)
    <3>1. k \in DOMAIN shown
      BY <1>7, <1>9
    <3>2. shown[k] \in Ids /\ byID[shown[k]] # "absent"
      BY <1>10, <1>11, <3>1
    <3>3. byID[shown[k]] \in State
      BY <1>4, <3>2
    <3> QED
      BY <3>2, <3>3 DEF Connection
  <2>2. list = [k \in 1 .. Len(order) |-> [id |-> shown[k], state |-> byID[shown[k]]]]
    BY <1>1, <1>7, <1>9
  <2>3. Len(order) \in Nat
    BY <1>2, LenProperties
  <2>4. list \in Seq(Connection)
    BY <2>1, <2>2, <2>3, IsASeq
  <2>5. Len(list) = Len(order)
    BY <2>2, <2>3, <2>4, LenProperties
  <2> QED
    BY <2>4, <2>5
<1> QED
  BY <1>12, <1>13 DEF list

\* An event puts its connection in front, once.
LEMMA FrontAgrees ==
    ASSUME NEW order, NEW byID, Agree(order, byID), NEW id \in Ids, NEW state \in State
    PROVE  Agree(IF byID[id] # "absent" THEN MovedToFront(order, id) ELSE <<id>> \o order,
                 [byID EXCEPT ![id] = state])
<1> DEFINE rest == IF byID[id] # "absent" THEN Filtered(order, Ids \ {id}) ELSE order
           front == <<id>> \o rest
           known == [byID EXCEPT ![id] = state]
<1>1. /\ order \in Seq(Ids) /\ byID \in [Ids -> State \cup {"absent"}]
      /\ \A j, k \in DOMAIN order : order[j] = order[k] => j = k
      /\ \A x \in Ids : byID[x] # "absent" <=> \E k \in DOMAIN order : order[k] = x
  BY DEF Agree
<1>2. (IF byID[id] # "absent" THEN MovedToFront(order, id) ELSE <<id>> \o order) = front
  BY DEF MovedToFront
<1>3. /\ rest \in Seq(Ids)
      /\ \A j, k \in DOMAIN rest : rest[j] = rest[k] => j = k
      /\ \A x \in Ids : (\E k \in DOMAIN rest : rest[k] = x) <=> x # id /\ byID[x] # "absent"
  <2>1. CASE byID[id] # "absent"
    <3> DEFINE part == Filtered(order, Ids \ {id})
    <3>1. /\ part \in Seq(Ids)
          /\ \A j, k \in DOMAIN part : part[j] = part[k] => j = k
          /\ \A x : (\E k \in DOMAIN part : part[k] = x)
                <=> x \in Ids \ {id} /\ \E k \in DOMAIN order : order[k] = x
      BY <1>1, FilteredProperties
    <3>2. rest = part
      BY <2>1
    <3> HIDE DEF part, rest
    <3> QED
      BY <1>1, <3>1, <3>2
  <2>2. CASE byID[id] = "absent"
    <3>1. rest = order
      BY <2>2
    <3> HIDE DEF rest
    <3> QED
      BY <1>1, <2>2, <3>1
  <2> QED
    BY <2>1, <2>2
<1> HIDE DEF rest
<1>4. Len(rest) \in Nat /\ DOMAIN rest = 1 .. Len(rest)
  BY <1>3, LenProperties
<1>5. /\ front \in Seq(Ids) /\ DOMAIN front = 1 .. Len(rest) + 1
      /\ front[1] = id /\ \A k \in 1 .. Len(rest) : front[k + 1] = rest[k]
  <2>1. /\ <<id>> \in Seq(Ids) /\ Len(<<id>>) = 1 /\ <<id>>[1] = id
    OBVIOUS
  <2>2. /\ front \in Seq(Ids) /\ Len(front) = 1 + Len(rest)
        /\ \A k \in 1 .. 1 + Len(rest) : front[k] = IF k <= 1 THEN <<id>>[k] ELSE rest[k - 1]
    BY <1>3, <2>1, ConcatProperties
  <2>3. DOMAIN front = 1 .. Len(rest) + 1
    BY <1>4, <2>2, LenProperties
  <2> HIDE DEF front
  <2>4. front[1] = id
    BY <1>4, <2>1, <2>2
  <2>5. \A k \in 1 .. Len(rest) : front[k + 1] = rest[k]
    BY <1>4, <2>2
  <2> QED
    BY <2>2, <2>3, <2>4, <2>5
<1> HIDE DEF front
<1>6. \A j \in DOMAIN front : j # 1 => j - 1 \in DOMAIN rest /\ front[j] = rest[j - 1]
  <2> TAKE j \in DOMAIN front
  <2>1. j # 1 => j - 1 \in 1 .. Len(rest) /\ (j - 1) + 1 = j
    BY <1>4, <1>5
  <2> QED
    BY <1>4, <1>5, <2>1
<1>7. \A j \in DOMAIN rest : rest[j] # id
  BY <1>3
<1>8. \A j, k \in DOMAIN front : front[j] = front[k] => j = k
  <2> SUFFICES ASSUME NEW j \in DOMAIN front, NEW k \in DOMAIN front, front[j] = front[k]
               PROVE  j = k
    OBVIOUS
  <2>1. CASE j = 1 \/ k = 1
    BY <1>5, <1>6, <1>7, <2>1
  <2>2. CASE j # 1 /\ k # 1
    <3>1. j - 1 = k - 1
      BY <1>3, <1>6, <2>2
    <3> QED
      BY <3>1, <1>4, <1>5
  <2> QED
    BY <2>1, <2>2
<1>9. \A x \in Ids : (\E k \in DOMAIN front : front[k] = x) <=> known[x] # "absent"
  <2> TAKE x \in Ids
  <2>1. known[x] # "absent" <=> x = id \/ byID[x] # "absent"
    BY <1>1 DEF State, Core!Ended
  <2>2. CASE x = id
    <3>1. 1 \in DOMAIN front /\ front[1] = x
      BY <1>4, <1>5, <2>2
    <3> QED
      BY <2>1, <2>2, <3>1
  <2>3. CASE x # id
    <3>1. (\E k \in DOMAIN front : front[k] = x) <=> \E k \in DOMAIN rest : rest[k] = x
      <4>1. ASSUME NEW k \in DOMAIN front, front[k] = x PROVE \E j \in DOMAIN rest : rest[j] = x
        <5>1. k # 1
          BY <1>5, <2>3, <4>1
        <5> QED
          BY <1>6, <4>1, <5>1
      <4>2. ASSUME NEW k \in DOMAIN rest, rest[k] = x PROVE \E j \in DOMAIN front : front[j] = x
        <5>1. k + 1 \in DOMAIN front /\ front[k + 1] = x
          BY <1>4, <1>5, <4>2
        <5> QED
          BY <5>1
      <4> QED
        BY <4>1, <4>2
    <3> HIDE DEF known
    <3> QED
      BY <1>3, <2>1, <2>3, <3>1
  <2> QED
    BY <2>2, <2>3
<1>10. known \in [Ids -> State \cup {"absent"}]
  BY <1>1
<1> HIDE DEF known
<1>11. Agree(front, known)
  BY <1>5, <1>8, <1>9, <1>10 DEF Agree
<1> QED
  BY <1>2, <1>11 DEF known

\* Trimming takes away ended connections only, and leaves no more of them than
\* are to be retained: the ones that stay are, counted from the back, all among
\* those from the first that stays onwards.
LEMMA TrimmedProperties ==
    ASSUME NEW order, NEW byID, Agree(order, byID)
    PROVE  LET gone == IdsToRemove(order, byID)
               kept == [id \in Ids |-> IF id \in gone THEN "absent" ELSE byID[id]]
           IN /\ \A id \in gone : id \in Ids /\ byID[id] \in Core!Ended
              /\ Agree(Filtered(order, Ids \ gone), kept)
              /\ Cardinality({id \in Ids : kept[id] \in Core!Ended})
                    <= MaxRetainedEndedConnections
<1> DEFINE gone == IdsToRemove(order, byID)
           kept == [id \in Ids |-> IF id \in gone THEN "absent" ELSE byID[id]]
           part == Filtered(order, Ids \ gone)
           EndedAt == {k \in DOMAIN order : byID[order[k]] # "open"}
           From(k) == {j \in EndedAt : j >= k}
           Over == {k \in EndedAt : Cardinality(From(k)) > MaxRetainedEndedConnections}
           Stays == EndedAt \ Over
           EndedIds == {id \in Ids : kept[id] \in Core!Ended}
<1>1. /\ order \in Seq(Ids) /\ byID \in [Ids -> State \cup {"absent"}]
      /\ \A j, k \in DOMAIN order : order[j] = order[k] => j = k
      /\ \A x \in Ids : byID[x] # "absent" <=> \E k \in DOMAIN order : order[k] = x
  BY DEF Agree
<1>2. /\ Len(order) \in Nat /\ DOMAIN order = 1 .. Len(order)
      /\ \A k \in DOMAIN order : order[k] \in Ids
  BY <1>1, ElementOfSeq, LenProperties
<1>3. gone = {order[k] : k \in Over}
  BY DEF IdsToRemove
<1>4. \A x \in Ids : byID[x] \in Core!Ended <=> byID[x] # "absent" /\ byID[x] # "open"
  BY <1>1 DEF State, Core!Ended
<1>5. \A k \in EndedAt : order[k] \in Ids /\ byID[order[k]] \in Core!Ended
  BY <1>1, <1>2, <1>4
<1>6. Over \subseteq EndedAt /\ EndedAt \subseteq 1 .. Len(order)
  BY <1>2
<1>7. \A id \in gone : id \in Ids /\ byID[id] \in Core!Ended
  <2> HIDE DEF Over, gone, EndedAt
  <2> QED BY <1>3, <1>5, <1>6
<1> HIDE DEF gone
<1>8. Agree(part, kept)
  <2>1. /\ part \in Seq(Ids)
        /\ \A j, k \in DOMAIN part : part[j] = part[k] => j = k
        /\ \A x : (\E k \in DOMAIN part : part[k] = x)
              <=> x \in Ids \ gone /\ \E k \in DOMAIN order : order[k] = x
    BY <1>1, FilteredProperties
  <2>2. kept \in [Ids -> State \cup {"absent"}]
    BY <1>1
  <2>3. \A x \in Ids : kept[x] # "absent" <=> x \notin gone /\ byID[x] # "absent"
    OBVIOUS
  <2> HIDE DEF part, kept
  <2>4. \A x \in Ids : kept[x] # "absent" <=> \E k \in DOMAIN part : part[k] = x
    BY <1>1, <2>1, <2>3
  <2> QED
    BY <2>1, <2>2, <2>4 DEF Agree
<1>9. EndedIds \subseteq {order[k] : k \in Stays}
  <2> SUFFICES ASSUME NEW id \in Ids, kept[id] \in Core!Ended
               PROVE  \E k \in Stays : order[k] = id
    OBVIOUS
  <2>1. id \notin gone /\ byID[id] \in Core!Ended
    BY DEF Core!Ended
  <2>2. PICK k \in DOMAIN order : order[k] = id
    BY <1>1, <1>4, <2>1
  <2>3. k \in EndedAt
    BY <1>4, <2>1, <2>2
  <2>4. k \notin Over
    <3> HIDE DEF Over
    <3> QED BY <1>3, <2>1, <2>2
  <2> QED
    BY <2>2, <2>3, <2>4
<1>10. /\ IsFiniteSet(Stays) /\ Cardinality(Stays) \in Nat
       /\ Cardinality(Stays) <= MaxRetainedEndedConnections
  <2>1. /\ IsFiniteSet(1 .. Len(order)) /\ Stays \in SUBSET (1 .. Len(order))
    <3> HIDE DEF Over, EndedAt
    <3> QED BY <1>2, <1>6, FS_Interval
  <2>2. IsFiniteSet(Stays) /\ Cardinality(Stays) \in Nat
    <3> HIDE DEF Stays
    <3> QED BY <2>1, FS_Subset, FS_CardinalityType
  <2>3. CASE Stays = {}
    <3> HIDE DEF Stays
    <3>1. IsFiniteSet({}) /\ Cardinality({}) = 0
      BY FS_EmptySet
    <3>2. IsFiniteSet(Stays) /\ Cardinality(Stays) = 0
      BY <2>3, <3>1
    <3> QED
      BY <3>2, DashboardAssumption
  <2>4. CASE Stays # {}
    <3>1. Stays \in SUBSET Nat
      BY <2>1
    <3>2. PICK m \in Stays : \A k \in Stays : m <= k
      <4> HIDE DEF Stays
      <4> QED BY <2>4, <3>1, LeastElement
    <3>3. m \in EndedAt /\ m \notin Over
      OBVIOUS
    <3>4. From(m) \in SUBSET (1 .. Len(order))
      BY <1>6
    <3>5. IsFiniteSet(From(m)) /\ Cardinality(From(m)) \in Nat
      <4> DEFINE X == From(m)
      <4>1. X \in SUBSET (1 .. Len(order))
        BY <3>4
      <4> HIDE DEF X
      <4>2. IsFiniteSet(X) /\ Cardinality(X) \in Nat
        BY <2>1, <4>1, FS_Subset, FS_CardinalityType
      <4> QED
        BY <4>2 DEF X
    <3>6. Cardinality(From(m)) <= MaxRetainedEndedConnections
      BY <3>3, <3>5, DashboardAssumption
    <3>7. Stays \in SUBSET From(m)
      BY <3>1, <3>2
    <3>8. Cardinality(Stays) <= Cardinality(From(m))
      <4> DEFINE X == From(m)
      <4> HIDE DEF X, Stays
      <4>1. IsFiniteSet(X) /\ Stays \in SUBSET X
        BY <3>5, <3>7 DEF X
      <4>2. Cardinality(Stays) <= Cardinality(X)
        BY <4>1, FS_Subset
      <4> QED
        BY <4>2 DEF X
    <3> HIDE DEF Stays, From
    <3> QED
      BY <2>2, <3>5, <3>6, <3>8, DashboardAssumption
  <2> QED
    BY <2>3, <2>4
<1> HIDE DEF Stays, EndedIds
<1>11. Cardinality(EndedIds) <= MaxRetainedEndedConnections
  <2> DEFINE Image == {order[k] : k \in Stays}
  <2>1. IsFiniteSet(Image) /\ Cardinality(Image) <= Cardinality(Stays)
    <3> DEFINE f == [k \in Stays |-> order[k]]
    <3>1. f \in Surjection(Stays, Image)
      BY DEF Surjection
    <3> HIDE DEF f, Image
    <3> QED
      BY <1>10, <3>1, FS_Surjection
  <2> HIDE DEF Image
  <2>2. Cardinality(Image) \in Nat
    BY <2>1, FS_CardinalityType
  <2>3. EndedIds \in SUBSET Image
    BY <1>9 DEF Image
  <2>4. Cardinality(EndedIds) <= Cardinality(Image) /\ Cardinality(EndedIds) \in Nat
    BY <2>1, <2>3, FS_Subset, FS_CardinalityType
  <2> QED
    BY <1>10, <2>1, <2>2, <2>4, DashboardAssumption
<1> QED
  BY <1>7, <1>8, <1>11 DEF EndedIds, gone

\* A step gives a view model a new order and dictionary, and publishes them.
Replaces(v, order, byID) ==
    /\ connectionsByID' = [connectionsByID EXCEPT ![v] = byID]
    /\ connectionOrder' = [connectionOrder EXCEPT ![v] = order]
    /\ connections' = [connections EXCEPT ![v] = Published(order, byID)]
    /\ Agree(order, byID)
    /\ Cardinality({id \in Ids : byID[id] \in Core!Ended}) <= MaxRetainedEndedConnections

\* handleConnectionEvent as a whole: the view model stays consistent, and open in it
\* are the connections that were, but for the one the event is about.
LEMMA HandledProperties ==
    ASSUME NEW v \in View, Agree(connectionOrder[v], connectionsByID[v]),
           NEW event \in Connection, HandleConnectionEvent(v, event)
    PROVE  \E order, byID :
              /\ Replaces(v, order, byID)
              /\ \A id \in Ids : byID[id] = "open"
                    <=> IF id = event.id THEN event.state = "open" ELSE connectionsByID[v][id] = "open"
<1> DEFINE byID == [connectionsByID[v] EXCEPT ![event.id] = event.state]
           order == IF connectionsByID[v][event.id] # "absent"
                    THEN MovedToFront(connectionOrder[v], event.id)
                    ELSE <<event.id>> \o connectionOrder[v]
           gone == IdsToRemove(order, byID)
           kept == [id \in Ids |-> IF id \in gone THEN "absent" ELSE byID[id]]
           left == Filtered(order, Ids \ gone)
<1>1. event.id \in Ids /\ event.state \in State
  BY DEF Connection
<1>2. Agree(order, byID)
  BY <1>1, FrontAgrees
<1>3. /\ connectionsByID' = [connectionsByID EXCEPT ![v] = kept]
      /\ connectionOrder' = [connectionOrder EXCEPT ![v] = left]
      /\ connections' = [connections EXCEPT ![v] = Published(left, kept)]
  BY DEF HandleConnectionEvent
<1>4. connectionsByID[v] \in [Ids -> State \cup {"absent"}]
  BY DEF Agree
<1>5. \A id \in Ids : byID[id] = IF id = event.id THEN event.state ELSE connectionsByID[v][id]
  BY <1>4
<1> HIDE DEF byID, order
<1>6. /\ \A id \in gone : id \in Ids /\ byID[id] \in Core!Ended
      /\ Agree(left, kept)
      /\ Cardinality({id \in Ids : kept[id] \in Core!Ended}) <= MaxRetainedEndedConnections
  BY <1>2, TrimmedProperties
<1> HIDE DEF gone
<1>7. \A id \in Ids : kept[id] = "open" <=> byID[id] = "open"
  BY <1>6 DEF Core!Ended
<1> HIDE DEF kept, left
<1>8. Replaces(v, left, kept)
  BY <1>3, <1>6 DEF Replaces
<1>9. \A id \in Ids : kept[id] = "open"
         <=> IF id = event.id THEN event.state = "open" ELSE connectionsByID[v][id] = "open"
  BY <1>5, <1>7
<1> QED
  BY <1>8, <1>9

\* A view model that does not exist lists nothing.
LEMMA EmptyViewProperties ==
    /\ Agree(<<>>, Empty)
    /\ Published(<<>>, Empty) = <<>>
    /\ Cardinality({id \in Ids : Empty[id] \in Core!Ended}) <= MaxRetainedEndedConnections
<1>1. <<>> \in Seq(Ids) /\ Len(<<>>) = 0 /\ DOMAIN <<>> = 1 .. 0
  BY EmptySeq, LenProperties
<1>2. Agree(<<>>, Empty)
  BY <1>1 DEF Agree, Empty
<1>3. Published(<<>>, Empty) \in Seq(Connection) /\ Len(Published(<<>>, Empty)) = 0
  BY <1>1, <1>2, PublishedProperties
<1>4. Published(<<>>, Empty) = <<>>
  BY <1>3, EmptySeq
<1>5. {id \in Ids : Empty[id] \in Core!Ended} = {}
  BY DEF Core!Ended, Empty
<1>6. Cardinality({id \in Ids : Empty[id] \in Core!Ended}) = 0
  <2> DEFINE X == {id \in Ids : Empty[id] \in Core!Ended}
  <2>1. X = {}
    BY <1>5
  <2> HIDE DEF X
  <2>2. Cardinality(X) = 0
    BY <2>1, FS_EmptySet
  <2> QED
    BY <2>2 DEF X
<1> QED
  BY <1>2, <1>4, <1>6, DashboardAssumption

\* Such a step touches no other view model and leaves all of them consistent.
LEMMA ReplacedProperties ==
    ASSUME TypeOK, NEW v \in View, NEW order, NEW byID, Replaces(v, order, byID)
    PROVE  /\ connectionsByID' \in [View -> [Ids -> State \cup {"absent"}]]
           /\ \A w \in View : Cardinality({id \in Ids : connectionsByID'[w][id] \in Core!Ended})
                                 <= MaxRetainedEndedConnections
           /\ connectionOrder' \in [View -> Seq(Ids)]
           /\ connections' \in [View -> Seq(Connection)]
           /\ connectionsByID'[v] = byID /\ connectionOrder'[v] = order
           /\ connections'[v] = Published(order, byID)
           /\ \A w \in View : w # v => /\ connectionsByID'[w] = connectionsByID[w]
                                       /\ connectionOrder'[w] = connectionOrder[w]
                                       /\ connections'[w] = connections[w]
<1>1. /\ connectionsByID \in [View -> [Ids -> State \cup {"absent"}]]
      /\ \A w \in View : Cardinality({id \in Ids : connectionsByID[w][id] \in Core!Ended})
                            <= MaxRetainedEndedConnections
      /\ connectionOrder \in [View -> Seq(Ids)]
      /\ connections \in [View -> Seq(Connection)]
  BY DEF TypeOK
<1>2. /\ order \in Seq(Ids) /\ byID \in [Ids -> State \cup {"absent"}]
      /\ Published(order, byID) \in Seq(Connection)
  BY PublishedProperties DEF Replaces, Agree
<1>3. /\ connectionsByID' = [connectionsByID EXCEPT ![v] = byID]
      /\ connectionOrder' = [connectionOrder EXCEPT ![v] = order]
      /\ connections' = [connections EXCEPT ![v] = Published(order, byID)]
      /\ Cardinality({id \in Ids : byID[id] \in Core!Ended}) <= MaxRetainedEndedConnections
  BY DEF Replaces
<1> DEFINE list == Published(order, byID)
<1> HIDE DEF list
<1>4. /\ connectionsByID' \in [View -> [Ids -> State \cup {"absent"}]]
      /\ connectionOrder' \in [View -> Seq(Ids)]
      /\ connections' \in [View -> Seq(Connection)]
  BY <1>1, <1>2, <1>3
<1>5. connectionsByID'[v] = byID /\ connectionOrder'[v] = order /\ connections'[v] = Published(order, byID)
  BY <1>1, <1>3
<1>6. \A w \in View : w # v => /\ connectionsByID'[w] = connectionsByID[w]
                               /\ connectionOrder'[w] = connectionOrder[w]
                               /\ connections'[w] = connections[w]
  BY <1>1, <1>3
<1>7. ASSUME NEW w \in View
      PROVE  Cardinality({id \in Ids : connectionsByID'[w][id] \in Core!Ended})
                <= MaxRetainedEndedConnections
  BY <1>1, <1>3, <1>5, <1>6
<1> QED
  BY <1>4, <1>5, <1>6, <1>7

-----------------------------------------------------------------------------
\* The invariant holds in the beginning and is kept by every step.

LEMMA InitInv == Init => Inv
<1> SUFFICES ASSUME Init PROVE Inv
  OBVIOUS
<1>1. /\ Agree(<<>>, Empty) /\ Published(<<>>, Empty) = <<>>
      /\ Cardinality({id \in Ids : Empty[id] \in Core!Ended}) <= MaxRetainedEndedConnections
  BY EmptyViewProperties
<1>2. \A v \in View : /\ connectionsByID[v] = Empty /\ connectionOrder[v] = <<>>
                      /\ connections[v] = <<>>
  BY DEF Init
<1>3. mailbox \in Seq(Connection) /\ DOMAIN mailbox = 1 .. 0
  BY EmptySeq, LenProperties DEF Init
<1>4. TypeOK
  <2>1. Core!ReportedType
    BY DEF Init, Core!Init, Core!ReportedType
  <2>2. alive \subseteq used /\ used \subseteq View /\ receiver \in alive \cup {NoView}
    BY DEF Init
  <2>3. Empty \in [Ids -> State \cup {"absent"}]
    BY DEF Empty
  <2>4. connectionsByID \in [View -> [Ids -> State \cup {"absent"}]]
    BY <2>3 DEF Init
  <2>5. connectionOrder \in [View -> Seq(Ids)] /\ connections \in [View -> Seq(Connection)]
    BY EmptySeq DEF Init
  <2>6. \A v \in View : Cardinality({id \in Ids : connectionsByID[v][id] \in Core!Ended})
                           <= MaxRetainedEndedConnections
    BY <1>1, <1>2
  <2> QED
    BY <1>3, <2>1, <2>2, <2>4, <2>5, <2>6 DEF TypeOK
<1>5. ViewsAreConsistent
  BY <1>1, <1>2 DEF ViewsAreConsistent
<1>6. NothingBeforeTheFirstView
  BY DEF Init, NothingBeforeTheFirstView, Core!Init
<1>7. TasksFollowTheCore
  BY <1>3 DEF TasksFollowTheCore
<1>8. ReceiverFollowsTheTasks
  BY DashboardAssumption DEF Init, ReceiverFollowsTheTasks
<1> QED
  BY <1>4, <1>5, <1>6, <1>7, <1>8 DEF Inv

LEMMA CoreEmitsInv == ASSUME Inv, NEW id \in Ids, CoreEmits(id) PROVE Inv'
<1> DEFINE L == Len(mailbox)
<1>1. /\ mailbox \in Seq(Connection) /\ L \in Nat /\ DOMAIN mailbox = 1 .. L
      /\ reported \in [Ids -> {"none", "open"} \cup Core!Ended]
      /\ \A k \in 1 .. L : mailbox[k] \in Connection
  BY ElementOfSeq, LenProperties DEF Inv, TypeOK, Core!ReportedType
<1>2. PICK state \in State :
         /\ reported' = [reported EXCEPT ![id] = state]
         /\ \/ reported[id] = "none"
            \/ reported[id] = "open" /\ state \in Core!Ended
  BY DEF CoreEmits, Core!Open, Core!End, Core!Fail, State, Core!Ended
<1> DEFINE event == [id |-> id, state |-> state]
<1>3. reported'[id] = state /\ \A other \in Ids : other # id => reported'[other] = reported[other]
  BY <1>1, <1>2
<1>4. event \in Connection /\ mailbox' = Append(mailbox, event)
  BY <1>3 DEF CoreEmits, Connection
<1>5. /\ mailbox' \in Seq(Connection) /\ DOMAIN mailbox' = 1 .. L + 1
      /\ \A k \in 1 .. L : mailbox'[k] = mailbox[k]
      /\ mailbox'[L + 1] = event
  <2>1. /\ mailbox' \in Seq(Connection) /\ Len(mailbox') = L + 1
        /\ \A k \in 1 .. L : mailbox'[k] = mailbox[k]
        /\ mailbox'[L + 1] = event
    BY <1>1, <1>4, AppendProperties
  <2> QED
    BY <2>1, LenProperties
<1>6. UNCHANGED <<alive, used, receiver, connectionsByID, connectionOrder, connections>> /\ used # {}
  BY DEF CoreEmits, viewVars
<1> HIDE DEF event, L
<1>7. event.id = id /\ event.state = state
  BY DEF event
<1>8. TypeOK'
  BY <1>1, <1>2, <1>5, <1>6 DEF Inv, TypeOK, Core!ReportedType, State
<1>9. ViewsAreConsistent'
  BY <1>6 DEF Inv, ViewsAreConsistent
<1>10. NothingBeforeTheFirstView'
  BY <1>6 DEF NothingBeforeTheFirstView
<1>11. TasksFollowTheCore'
  <2> SUFFICES ASSUME NEW k \in 1 .. L + 1
               PROVE  IF mailbox'[k].state = "open"
                      THEN \/ reported'[mailbox'[k].id] = "open"
                           \/ \E j \in 1 .. L + 1 : /\ j > k /\ mailbox'[j].id = mailbox'[k].id
                                                    /\ mailbox'[j].state \in Core!Ended
                      ELSE reported'[mailbox'[k].id] \in Core!Ended
    BY <1>5 DEF TasksFollowTheCore
  <2>1. CASE k = L + 1
    BY <1>3, <1>5, <1>7, <2>1 DEF State
  <2>2. CASE k # L + 1
    <3>1. k \in 1 .. L /\ mailbox'[k] = mailbox[k]
      BY <1>1, <1>5, <2>2
    <3>2. IF mailbox[k].state = "open"
          THEN \/ reported[mailbox[k].id] = "open"
               \/ \E j \in 1 .. L : /\ j > k /\ mailbox[j].id = mailbox[k].id
                                    /\ mailbox[j].state \in Core!Ended
          ELSE reported[mailbox[k].id] \in Core!Ended
      BY <1>1, <3>1 DEF Inv, TasksFollowTheCore
    <3>3. mailbox[k].id \in Ids
      BY <1>1, <3>1 DEF Connection
    <3>4. \A j \in 1 .. L : mailbox[j].state \in Core!Ended => reported[mailbox[j].id] \in Core!Ended
      BY <1>1 DEF Inv, TasksFollowTheCore, Core!Ended
    <3>5. CASE mailbox[k].id = id
      <4>1. mailbox[k].state = "open" /\ reported[id] = "open"
        BY <1>2, <3>2, <3>4, <3>5 DEF Core!Ended
      <4>2. L + 1 \in 1 .. L + 1 /\ L + 1 > k /\ state \in Core!Ended
        BY <1>1, <1>2, <3>1, <4>1
      <4> QED
        BY <1>5, <1>7, <3>1, <3>5, <4>1, <4>2
    <3>6. CASE mailbox[k].id # id
      <4>1. \A j \in 1 .. L : j \in 1 .. L + 1 /\ mailbox'[j] = mailbox[j]
        BY <1>1, <1>5
      <4> QED
        BY <1>3, <3>1, <3>2, <3>3, <3>6, <4>1
    <3> QED
      BY <3>5, <3>6
  <2> QED
    BY <2>1, <2>2
<1>12. /\ Opening \subseteq Opening' /\ Ending \subseteq Ending'
       /\ state = "open" => id \in Opening'
       /\ state \in Core!Ended => id \in Ending'
  <2>1. \A k \in 1 .. L : k \in 1 .. L + 1
    BY <1>1
  <2>2. L + 1 \in 1 .. L + 1
    BY <1>1
  <2> QED
    BY <1>1, <1>5, <1>7, <2>1, <2>2 DEF Opening, Ending, Waiting
<1>13. id \in Ending => reported[id] \in Core!Ended
  BY <1>1 DEF Inv, Ending, Waiting, TasksFollowTheCore, Core!Ended
<1>14. ReceiverFollowsTheTasks'
  <2> SUFFICES ASSUME NEW v \in View, v = receiver, NEW x \in Ids
               PROVE  /\ connectionsByID[v][x] = "open" => reported'[x] = "open" \/ x \in Ending'
                      /\ used = {v} /\ reported'[x] = "open"
                            => connectionsByID[v][x] = "open" \/ x \in Opening'
    BY <1>6 DEF ReceiverFollowsTheTasks
  <2>1. /\ connectionsByID[v][x] = "open" => reported[x] = "open" \/ x \in Ending
        /\ used = {v} /\ reported[x] = "open" => connectionsByID[v][x] = "open" \/ x \in Opening
    BY DEF Inv, ReceiverFollowsTheTasks
  <2>2. CASE x = id
    BY <1>2, <1>3, <1>12, <1>13, <2>1, <2>2 DEF State, Core!Ended
  <2>3. CASE x # id
    BY <1>3, <1>12, <2>1, <2>3
  <2> QED
    BY <2>2, <2>3
<1> QED
  BY <1>8, <1>9, <1>10, <1>11, <1>14 DEF Inv

\* A view model that starts lists nothing, so that it shows nothing open that has
\* ended; if it is the first, there is nothing it could miss.
LEMMA ViewModelStartsInv == ASSUME Inv, NEW v \in View, ViewModelStarts(v) PROVE Inv'
<1>1. /\ v \notin used /\ alive' = alive \cup {v} /\ used' = used \cup {v} /\ receiver' = v
      /\ UNCHANGED <<reported, mailbox, connectionsByID, connectionOrder, connections>>
  BY DEF ViewModelStarts, viewVars
<1>2. TypeOK'
  BY <1>1 DEF Inv, TypeOK, Core!ReportedType
<1>3. ViewsAreConsistent'
  BY <1>1 DEF Inv, ViewsAreConsistent
<1>4. NothingBeforeTheFirstView'
  BY <1>1 DEF NothingBeforeTheFirstView
<1>5. TasksFollowTheCore'
  BY <1>1 DEF Inv, TasksFollowTheCore
<1>6. connectionsByID'[v] = Empty
  BY <1>1 DEF Inv, ViewsAreConsistent
<1>7. used' = {v} => \A id \in Ids : reported'[id] # "open"
  <2> SUFFICES ASSUME used' = {v} PROVE \A id \in Ids : reported'[id] # "open"
    OBVIOUS
  <2>1. used = {}
    BY <1>1
  <2> QED
    BY <1>1, <2>1 DEF Inv, NothingBeforeTheFirstView
<1>8. ReceiverFollowsTheTasks'
  BY <1>1, <1>6, <1>7 DEF ReceiverFollowsTheTasks, Empty
<1> QED
  BY <1>2, <1>3, <1>4, <1>5, <1>8 DEF Inv

\* When a view model ends, the window of the receiver, if there is one, is as it was.
LEMMA ViewModelEndsInv == ASSUME Inv, NEW v \in View, ViewModelEnds(v) PROVE Inv'
<1>1. /\ v \in alive /\ alive' = alive \ {v} /\ UNCHANGED <<reported, mailbox, used>>
      /\ receiver' = IF receiver = v THEN NoView ELSE receiver
  BY DEF ViewModelEnds
<1>2. Replaces(v, <<>>, Empty) /\ TypeOK
  BY EmptyViewProperties DEF ViewModelEnds, Replaces, Inv
<1>3. /\ connectionsByID' \in [View -> [Ids -> State \cup {"absent"}]]
      /\ \A w \in View : Cardinality({id \in Ids : connectionsByID'[w][id] \in Core!Ended})
                            <= MaxRetainedEndedConnections
      /\ connectionOrder' \in [View -> Seq(Ids)]
      /\ connections' \in [View -> Seq(Connection)]
  BY <1>2, ReplacedProperties
<1>4. /\ connectionsByID'[v] = Empty /\ connectionOrder'[v] = <<>>
      /\ connections'[v] = Published(<<>>, Empty)
      /\ \A w \in View : w # v => /\ connectionsByID'[w] = connectionsByID[w]
                                  /\ connectionOrder'[w] = connectionOrder[w]
                                  /\ connections'[w] = connections[w]
  BY <1>2, ReplacedProperties
<1>5. TypeOK'
  <2>1. alive' \subseteq used' /\ used' \subseteq View /\ receiver' \in alive' \cup {NoView}
    BY <1>1, <1>2 DEF TypeOK
  <2> QED
    BY <1>1, <1>2, <1>3, <2>1 DEF TypeOK, Core!ReportedType
<1>6. ViewsAreConsistent'
  <2> SUFFICES ASSUME NEW w \in View
               PROVE  /\ Agree(connectionOrder'[w], connectionsByID'[w])
                      /\ connections'[w] = Published(connectionOrder'[w], connectionsByID'[w])
                      /\ w \notin used => connectionsByID'[w] = Empty
    BY <1>1 DEF ViewsAreConsistent
  <2>1. CASE w = v
    BY <1>2, <1>4, <2>1 DEF Replaces
  <2>2. CASE w # v
    BY <1>4, <2>2 DEF Inv, ViewsAreConsistent
  <2> QED
    BY <2>1, <2>2
<1>7. NothingBeforeTheFirstView'
  BY <1>1 DEF Inv, NothingBeforeTheFirstView
<1>8. TasksFollowTheCore'
  BY <1>1 DEF Inv, TasksFollowTheCore
<1>9. ReceiverFollowsTheTasks'
  <2> SUFFICES ASSUME NEW w \in View, w = receiver', NEW id \in Ids
               PROVE  /\ connectionsByID'[w][id] = "open" => reported[id] = "open" \/ id \in Ending
                      /\ used = {w} /\ reported[id] = "open"
                            => connectionsByID'[w][id] = "open" \/ id \in Opening
    BY <1>1 DEF ReceiverFollowsTheTasks, Opening, Ending, Waiting
  <2>1. w = receiver /\ w # v
    BY <1>1, DashboardAssumption
  <2> QED
    BY <1>4, <2>1 DEF Inv, ReceiverFollowsTheTasks
<1> QED
  BY <1>5, <1>6, <1>7, <1>8, <1>9 DEF Inv

LEMMA MainActorRunsTaskInv == Inv /\ MainActorRunsTask => Inv'
<1> SUFFICES ASSUME Inv, MainActorRunsTask PROVE Inv'
  OBVIOUS
<1> DEFINE L == Len(mailbox)
           event == Head(mailbox)
<1>1. /\ mailbox \in Seq(Connection) /\ mailbox # <<>> /\ mailbox' = Tail(mailbox)
      /\ UNCHANGED <<reported, alive, used, receiver>>
  BY DEF Inv, TypeOK, MainActorRunsTask, OldestTaskTaken
<1>2. /\ L \in Nat /\ L >= 1 /\ DOMAIN mailbox = 1 .. L
      /\ event = mailbox[1] /\ event \in Connection
      /\ mailbox' \in Seq(Connection) /\ DOMAIN mailbox' = 1 .. L - 1
      /\ \A k \in 1 .. L - 1 : mailbox'[k] = mailbox[k + 1]
  <2>1. /\ event \in Connection /\ mailbox' \in Seq(Connection) /\ Len(mailbox') = L - 1
        /\ event = mailbox[1] /\ \A k \in 1 .. Len(mailbox') : mailbox'[k] = mailbox[k + 1]
    BY <1>1, HeadTailProperties
  <2>2. L \in Nat /\ L # 0 /\ DOMAIN mailbox = 1 .. L /\ DOMAIN mailbox' = 1 .. Len(mailbox')
    BY <1>1, <2>1, LenProperties, EmptySeq
  <2> QED
    BY <2>1, <2>2
<1> HIDE DEF L, event
<1>3. event.id \in Ids /\ event.state \in State
  BY <1>2 DEF Connection
<1>4. /\ connectionsByID' \in [View -> [Ids -> State \cup {"absent"}]]
      /\ \A w \in View : Cardinality({id \in Ids : connectionsByID'[w][id] \in Core!Ended})
                            <= MaxRetainedEndedConnections
      /\ connectionOrder' \in [View -> Seq(Ids)]
      /\ connections' \in [View -> Seq(Connection)]
      /\ \A w \in View : /\ Agree(connectionOrder'[w], connectionsByID'[w])
                         /\ connections'[w] = Published(connectionOrder'[w], connectionsByID'[w])
                         /\ w \notin used => connectionsByID'[w] = Empty
      /\ \A w \in View : w = receiver =>
            \A id \in Ids : connectionsByID'[w][id] = "open"
               <=> IF id = event.id THEN event.state = "open" ELSE connectionsByID[w][id] = "open"
  <2>1. /\ TypeOK
        /\ \A w \in View : /\ Agree(connectionOrder[w], connectionsByID[w])
                           /\ connections[w] = Published(connectionOrder[w], connectionsByID[w])
                           /\ w \notin used => connectionsByID[w] = Empty
    BY DEF Inv, ViewsAreConsistent
  <2>2. CASE receiver = NoView
    <3>1. UNCHANGED <<connectionsByID, connectionOrder, connections>>
      BY <2>2 DEF MainActorRunsTask, HandedOver, viewVars
    <3>2. \A w \in View : w # receiver
      BY <2>2, DashboardAssumption
    <3> QED
      BY <2>1, <3>1, <3>2 DEF TypeOK
  <2>3. CASE receiver # NoView
    <3>1. receiver \in View /\ receiver \in used
      BY <2>1, <2>3 DEF TypeOK
    <3>2. HandleConnectionEvent(receiver, event)
      BY <2>3 DEF MainActorRunsTask, HandedOver, event
    <3>3. PICK order, byID :
             /\ Replaces(receiver, order, byID)
             /\ \A id \in Ids : byID[id] = "open"
                   <=> IF id = event.id THEN event.state = "open" ELSE connectionsByID[receiver][id] = "open"
      BY <1>2, <2>1, <3>1, <3>2, HandledProperties
    <3>4. /\ connectionsByID' \in [View -> [Ids -> State \cup {"absent"}]]
          /\ \A w \in View : Cardinality({id \in Ids : connectionsByID'[w][id] \in Core!Ended})
                                <= MaxRetainedEndedConnections
          /\ connectionOrder' \in [View -> Seq(Ids)]
          /\ connections' \in [View -> Seq(Connection)]
      BY <2>1, <3>1, <3>3, ReplacedProperties
    <3>5. /\ connectionsByID'[receiver] = byID /\ connectionOrder'[receiver] = order
          /\ connections'[receiver] = Published(order, byID)
          /\ \A w \in View : w # receiver => /\ connectionsByID'[w] = connectionsByID[w]
                                             /\ connectionOrder'[w] = connectionOrder[w]
                                             /\ connections'[w] = connections[w]
      BY <2>1, <3>1, <3>3, ReplacedProperties
    <3>6. Agree(order, byID)
      BY <3>3 DEF Replaces
    <3>7. ASSUME NEW w \in View
          PROVE  /\ Agree(connectionOrder'[w], connectionsByID'[w])
                 /\ connections'[w] = Published(connectionOrder'[w], connectionsByID'[w])
                 /\ w \notin used => connectionsByID'[w] = Empty
      <4>1. CASE w = receiver
        BY <3>1, <3>5, <3>6, <4>1
      <4>2. CASE w # receiver
        BY <2>1, <3>5, <4>2
      <4> QED
        BY <4>1, <4>2
    <3>8. \A w \in View : w = receiver =>
            \A id \in Ids : connectionsByID'[w][id] = "open"
               <=> IF id = event.id THEN event.state = "open" ELSE connectionsByID[w][id] = "open"
      BY <3>3, <3>5
    <3> QED
      BY <3>4, <3>7, <3>8
  <2> QED
    BY <2>2, <2>3
<1>5. TypeOK'
  BY <1>1, <1>2, <1>4 DEF Inv, TypeOK, Core!ReportedType
<1>6. ViewsAreConsistent'
  BY <1>1, <1>4 DEF ViewsAreConsistent
<1>7. NothingBeforeTheFirstView'
  BY <1>1 DEF Inv, NothingBeforeTheFirstView
<1>8. \A k \in 1 .. L :
         IF mailbox[k].state = "open"
         THEN \/ reported[mailbox[k].id] = "open"
              \/ \E j \in 1 .. L : /\ j > k /\ mailbox[j].id = mailbox[k].id
                                   /\ mailbox[j].state \in Core!Ended
         ELSE reported[mailbox[k].id] \in Core!Ended
  BY <1>2 DEF Inv, TasksFollowTheCore
<1>9. \A j \in 1 .. L : j # 1 => j - 1 \in 1 .. L - 1 /\ mailbox'[j - 1] = mailbox[j]
  <2> TAKE j \in 1 .. L
  <2>1. j # 1 => j - 1 \in 1 .. L - 1 /\ (j - 1) + 1 = j
    BY <1>2
  <2> QED
    BY <1>2, <2>1
<1>10. TasksFollowTheCore'
  <2> SUFFICES ASSUME NEW k \in 1 .. L - 1
               PROVE  IF mailbox'[k].state = "open"
                      THEN \/ reported[mailbox'[k].id] = "open"
                           \/ \E j \in 1 .. L - 1 : /\ j > k /\ mailbox'[j].id = mailbox'[k].id
                                                    /\ mailbox'[j].state \in Core!Ended
                      ELSE reported[mailbox'[k].id] \in Core!Ended
    BY <1>1, <1>2 DEF TasksFollowTheCore
  <2>1. k + 1 \in 1 .. L /\ mailbox'[k] = mailbox[k + 1]
    BY <1>2
  <2>2. ASSUME NEW j \in 1 .. L, j > k + 1 PROVE j - 1 \in 1 .. L - 1 /\ j - 1 > k /\ mailbox'[j - 1] = mailbox[j]
    BY <1>2, <1>9, <2>2
  <2> QED
    BY <1>8, <2>1, <2>2
<1>11. /\ Opening \subseteq Opening' \cup {event.id} /\ Ending \subseteq Ending' \cup {event.id}
       /\ event.state = "open" => Ending \subseteq Ending'
  <2>1. ASSUME NEW id \in Opening PROVE id \in Opening' \cup {event.id}
    <3>1. PICK k \in 1 .. L : mailbox[k].id = id /\ mailbox[k].state = "open"
      BY <1>2 DEF Opening, Waiting
    <3>2. k # 1 => k - 1 \in DOMAIN mailbox' /\ mailbox'[k - 1].id = id /\ mailbox'[k - 1].state = "open"
      BY <1>2, <1>9, <3>1
    <3>3. k # 1 => id \in Opening'
      BY <3>2 DEF Opening, Waiting
    <3> QED
      BY <1>2, <3>1, <3>3
  <2>2. ASSUME NEW id \in Ending
        PROVE  id \in Ending' \/ (id = event.id /\ event.state \in Core!Ended)
    <3>1. PICK k \in 1 .. L : mailbox[k].id = id /\ mailbox[k].state \in Core!Ended
      BY <1>2 DEF Ending, Waiting
    <3>2. k # 1 => k - 1 \in DOMAIN mailbox' /\ mailbox'[k - 1].id = id /\ mailbox'[k - 1].state \in Core!Ended
      BY <1>2, <1>9, <3>1
    <3>3. k # 1 => id \in Ending'
      BY <3>2 DEF Ending, Waiting
    <3> QED
      BY <1>2, <3>1, <3>3
  <2> QED
    BY <2>1, <2>2 DEF Core!Ended
<1>12. event.state = "open" => reported[event.id] = "open" \/ event.id \in Ending'
  <2> SUFFICES ASSUME event.state = "open", reported[event.id] # "open" PROVE event.id \in Ending'
    OBVIOUS
  <2>1. PICK j \in 1 .. L : j > 1 /\ mailbox[j].id = event.id /\ mailbox[j].state \in Core!Ended
    BY <1>2, <1>8
  <2>2. /\ j - 1 \in DOMAIN mailbox' /\ mailbox'[j - 1].id = event.id
        /\ mailbox'[j - 1].state \in Core!Ended
    BY <1>2, <1>9, <2>1
  <2>3. event.id \in Ids
    BY <1>2, <1>3
  <2> QED
    BY <2>2, <2>3 DEF Ending, Waiting
<1>13. event.state # "open" => reported[event.id] # "open"
  BY <1>2, <1>8 DEF Core!Ended
<1>14. ReceiverFollowsTheTasks'
  <2> SUFFICES ASSUME NEW w \in View, w = receiver, NEW id \in Ids
               PROVE  /\ connectionsByID'[w][id] = "open" => reported[id] = "open" \/ id \in Ending'
                      /\ used = {w} /\ reported[id] = "open"
                            => connectionsByID'[w][id] = "open" \/ id \in Opening'
    BY <1>1 DEF ReceiverFollowsTheTasks
  <2>1. /\ connectionsByID[w][id] = "open" => reported[id] = "open" \/ id \in Ending
        /\ used = {w} /\ reported[id] = "open" => connectionsByID[w][id] = "open" \/ id \in Opening
    BY DEF Inv, ReceiverFollowsTheTasks
  <2>2. connectionsByID'[w][id] = "open"
           <=> IF id = event.id THEN event.state = "open" ELSE connectionsByID[w][id] = "open"
    BY <1>4
  <2>3. CASE id = event.id
    BY <1>12, <1>13, <2>2, <2>3
  <2>4. CASE id # event.id
    BY <1>11, <2>1, <2>2, <2>4
  <2> QED
    BY <2>3, <2>4
<1> QED
  BY <1>5, <1>6, <1>7, <1>10, <1>14 DEF Inv

LEMMA NextInv == Inv /\ [Next]_vars => Inv'
<1> SUFFICES ASSUME Inv, [Next]_vars PROVE Inv'
  OBVIOUS
<1>1. ASSUME NEW id \in Ids, CoreEmits(id) PROVE Inv'
  BY <1>1, CoreEmitsInv
<1>2. ASSUME NEW v \in View, ViewModelStarts(v) PROVE Inv'
  BY <1>2, ViewModelStartsInv
<1>3. ASSUME NEW v \in View, ViewModelEnds(v) PROVE Inv'
  BY <1>3, ViewModelEndsInv
<1>4. CASE MainActorRunsTask
  BY <1>4, MainActorRunsTaskInv
<1>5. CASE UNCHANGED vars
  BY <1>5 DEF vars, viewVars, Inv, TypeOK, Core!ReportedType, ViewsAreConsistent,
              NothingBeforeTheFirstView, TasksFollowTheCore, ReceiverFollowsTheTasks,
              Opening, Ending, Waiting
<1> QED
  BY <1>1, <1>2, <1>3, <1>4, <1>5 DEF Next

LEMMA InvHolds == Spec => []Inv
  BY InitInv, NextInv, PTL DEF Spec

-----------------------------------------------------------------------------
\* The lists are bounded: in no window are more ended connections kept than are to
\* be retained, however many connections there have been.
THEOREM TypeCorrect == Spec => []TypeOK
<1>1. Inv => TypeOK
  BY DEF Inv
<1> QED
  BY <1>1, InvHolds, PTL

\* What a window shows as open is open in its dictionary.
LEMMA ShownIsTracked ==
    ASSUME Inv, NEW v \in View
    PROVE  /\ Len(connections[v]) = Len(connectionOrder[v])
           /\ \A id \in Ids, state \in State :
                 id \in Shown(v, state) <=> connectionsByID[v][id] = state
<1>1. /\ Agree(connectionOrder[v], connectionsByID[v])
      /\ connections[v] = Published(connectionOrder[v], connectionsByID[v])
  BY DEF Inv, ViewsAreConsistent
<1> QED
  BY <1>1, PublishedProperties DEF Shown

\* The order, the dictionary and the published list of a window never disagree,
\* through every event and every trimming, whichever window gets the events.
THEOREM OrderAndDictionaryAgree == Spec => []OrderMatchesDictionary
<1>1. ASSUME Inv, NEW v \in View
      PROVE  /\ \A j, k \in DOMAIN connectionOrder[v] :
                    connectionOrder[v][j] = connectionOrder[v][k] => j = k
             /\ {connectionOrder[v][k] : k \in DOMAIN connectionOrder[v]}
                    = {id \in Ids : connectionsByID[v][id] # "absent"}
             /\ Len(connections[v]) = Len(connectionOrder[v])
             /\ \A id \in Ids : connectionsByID[v][id] # "absent"
                                   => id \in Shown(v, connectionsByID[v][id])
  <2> DEFINE order == connectionOrder[v]
             byID == connectionsByID[v]
  <2>1. /\ Len(connections[v]) = Len(order)
        /\ \A id \in Ids, state \in State : id \in Shown(v, state) <=> byID[id] = state
    BY <1>1, ShownIsTracked
  <2>2. Agree(order, byID)
    BY <1>1 DEF Inv, ViewsAreConsistent
  <2> HIDE DEF order, byID
  <2>3. /\ order \in Seq(Ids) /\ byID \in [Ids -> State \cup {"absent"}]
        /\ \A j, k \in DOMAIN order : order[j] = order[k] => j = k
        /\ \A id \in Ids : byID[id] # "absent" <=> \E k \in DOMAIN order : order[k] = id
    BY <2>2 DEF Agree
  <2>4. \A k \in DOMAIN order : order[k] \in Ids
    BY <2>3, ElementOfSeq, LenProperties
  <2>5. {order[k] : k \in DOMAIN order} = {id \in Ids : byID[id] # "absent"}
    BY <2>3, <2>4
  <2>6. \A id \in Ids : byID[id] # "absent" => id \in Shown(v, byID[id])
    BY <2>1, <2>3
  <2> QED
    BY <2>1, <2>3, <2>5, <2>6 DEF order, byID
<1>2. Inv => OrderMatchesDictionary
  BY <1>1 DEF OrderMatchesDictionary
<1> QED
  BY <1>2, InvHolds, PTL

\* However many windows there are and have been, the one that has the receiver shows
\* a connection that has ended as open only as long as its end waits.
THEOREM ReceiverIsHonest == Spec => []ReceiverShowsNothingOpenForever
<1>1. ASSUME Inv, NEW v \in View, v = receiver, NEW id \in Shown(v, "open")
      PROVE  \/ reported[id] = "open"
             \/ \E k \in Waiting(id) : mailbox[k].state \in Core!Ended
  <2>1. id \in Ids
    BY <1>1 DEF Shown
  <2>2. connectionsByID[v][id] = "open"
    BY <1>1, <2>1, ShownIsTracked DEF State
  <2> QED
    BY <1>1, <2>1, <2>2 DEF Inv, ReceiverFollowsTheTasks, Ending
<1>2. Inv => ReceiverShowsNothingOpenForever
  BY <1>1 DEF ReceiverShowsNothingOpenForever
<1> QED
  BY <1>2, InvHolds, PTL

\* Retiring old connections never hides a live one from the only window.
THEOREM FirstViewIsExact == Spec => []CaughtUpViewIsExact
<1>1. ASSUME Inv, NEW v \in View, v = receiver, used = {v}, mailbox = <<>>, NEW id \in Ids
      PROVE  id \in Shown(v, "open") <=> reported[id] = "open"
  <2>1. id \in Shown(v, "open") <=> connectionsByID[v][id] = "open"
    BY <1>1, ShownIsTracked DEF State
  <2>2. Opening = {} /\ Ending = {}
    BY <1>1, EmptySeq, LenProperties DEF Opening, Ending, Waiting
  <2> QED
    BY <1>1, <2>1, <2>2 DEF Inv, ReceiverFollowsTheTasks
<1>2. Inv => CaughtUpViewIsExact
  BY <1>1 DEF CaughtUpViewIsExact
<1> QED
  BY <1>2, InvHolds, PTL

=============================================================================
