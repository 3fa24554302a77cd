------------------------- MODULE ServerLoop_proofs -------------------------
(***************************************************************************)
(* The safety properties of ServerLoop for every set of clients,           *)
(* structures and descriptors.                                             *)
(*                                                                         *)
(* That no structure is freed while its thread uses it rests on where      *)
(* threads are: one that has started and is not joined is on the list, and *)
(* the structure main prepares has no thread yet (ThreadsAreListed).  That *)
(* collect passes over none rests on what it has walked past (Walked).     *)
(***************************************************************************)
EXTENDS ServerLoop, SequenceTheorems, TLAPS

ThreadsAreListed ==
    /\ \A t \in Thread : run[t] # "none" => t \in Listed
    /\ pc = "spawn" => /\ run[curr] = "none"
                       /\ Len(threads) > 0 /\ threads[Len(threads)] = curr

Walked ==
    /\ pc = "collect" =>
        /\ \A k \in DOMAIN threads : k < i => threads[k] \notin doneBefore
        /\ \A t \in doneBefore : done[t]
    /\ CollectIsComplete

Inv ==
    /\ TypeOK
    /\ StructuresAreListed
    /\ ThreadsAreListed
    /\ DescriptorsAreOwned
    /\ Walked

-----------------------------------------------------------------------------
\* What sblist_delete does to a list whose elements are distinct.
LEMMA DeletedProperties ==
    ASSUME NEW S, NEW list \in Seq(S), NEW k \in DOMAIN list,
           \A a, b \in DOMAIN list : list[a] = list[b] => a = b
    PROVE  /\ Deleted(list, k) \in Seq(S)
           /\ Len(Deleted(list, k)) = Len(list) - 1
           /\ \A j \in DOMAIN Deleted(list, k) :
                Deleted(list, k)[j] = IF j < k THEN list[j] ELSE list[j + 1]
           /\ \A a, b \in DOMAIN Deleted(list, k) :
                Deleted(list, k)[a] = Deleted(list, k)[b] => a = b
           /\ \A x : (\E j \in DOMAIN Deleted(list, k) : Deleted(list, k)[j] = x)
                <=> x # list[k] /\ \E j \in DOMAIN list : list[j] = x
<1> DEFINE n == Len(list) - 1
           e(j) == IF j < k THEN list[j] ELSE list[j + 1]
           d == Deleted(list, k)
<1>1. n \in Nat /\ k \in 1 .. n + 1 /\ DOMAIN list = 1 .. n + 1
  BY LenProperties
<1>2. \A j \in 1 .. n : e(j) \in S
  BY ElementOfSeq, LenProperties
<1>3. [j \in 1 .. n |-> e(j)] \in Seq(S)
  <2> HIDE DEF n, e
  <2> QED BY <1>1, <1>2, IsASeq
<1>4. d = [j \in 1 .. n |-> e(j)]
  BY DEF Deleted
<1>5. d \in Seq(S) /\ Len(d) = n /\ DOMAIN d = 1 .. n
  BY <1>1, <1>3, <1>4, LenProperties
<1>6. \A j \in 1 .. n : d[j] = IF j < k THEN list[j] ELSE list[j + 1]
  BY <1>4
<1> HIDE DEF n, e, d
<1>7. \A a, b \in 1 .. n : d[a] = d[b] => a = b
  <2> SUFFICES ASSUME NEW a \in 1 .. n, NEW b \in 1 .. n, d[a] = d[b]
               PROVE  a = b
    OBVIOUS
  <2> DEFINE old(j) == IF j < k THEN j ELSE j + 1
  <2>1. /\ old(a) \in DOMAIN list /\ old(b) \in DOMAIN list
        /\ d[a] = list[old(a)] /\ d[b] = list[old(b)]
    BY <1>1, <1>6
  <2>2. old(a) = old(b)
    <3> HIDE DEF old
    <3> QED BY <2>1
  <2> QED
    BY <1>1, <2>2
<1>8. ASSUME NEW j \in 1 .. n
      PROVE  \E l \in DOMAIN list : d[j] = list[l] /\ l # k
  <2>1. CASE j < k
    BY <1>1, <1>6, <2>1
  <2>2. CASE ~(j < k)
    <3>1. j + 1 \in DOMAIN list /\ j + 1 # k /\ d[j] = list[j + 1]
      BY <1>1, <1>6, <2>2
    <3> QED BY <3>1
  <2> QED BY <2>1, <2>2
<1>9. ASSUME NEW l \in DOMAIN list, l # k
      PROVE  \E j \in 1 .. n : d[j] = list[l]
  <2>1. CASE l < k
    <3>1. l \in 1 .. n /\ d[l] = list[l]
      BY <1>1, <1>6, <2>1
    <3> QED BY <3>1
  <2>2. CASE l > k
    <3>1. l - 1 \in 1 .. n /\ d[l - 1] = list[(l - 1) + 1] /\ (l - 1) + 1 = l
      BY <1>1, <1>6, <2>2
    <3> QED BY <3>1
  <2> QED BY <1>1, <1>9, <2>1, <2>2
<1>10. ASSUME NEW x
       PROVE  (\E j \in 1 .. n : d[j] = x) <=> x # list[k] /\ \E j \in DOMAIN list : list[j] = x
  BY <1>8, <1>9
<1> QED
  BY <1>5, <1>6, <1>7, <1>10 DEF n, d

LEMMA InitInv == Init => Inv
BY DEF Init, Inv, TypeOK, StructuresAreListed, ThreadsAreListed, DescriptorsAreOwned, Walked,
       CollectIsComplete, Listed, Fresh, Holds

\* The head of the loop: collect has passed by nothing yet.
LEMMA EnteringCollect ==
    ASSUME TypeOK', EnterCollect, UNCHANGED <<done, threads>> PROVE Walked'
BY DEF EnterCollect, Walked, CollectIsComplete, TypeOK, Listed

-----------------------------------------------------------------------------
LEMMA CollectInv == ASSUME Inv, Collect PROVE Inv'
<1> USE DEF Inv
<1>1. CASE CollectReaps
  <2> DEFINE t == threads[i]
  <2>1. i \in DOMAIN threads /\ t \in Thread /\ pc = "collect" /\ pc' = "collect"
    BY <1>1 DEF CollectReaps, TypeOK
  <2>2. /\ threads' \in Seq(Thread) /\ Len(threads') = Len(threads) - 1
        /\ \A j \in DOMAIN threads' : threads'[j] = IF j < i THEN threads[j] ELSE threads[j + 1]
        /\ \A a, b \in DOMAIN threads' : threads'[a] = threads'[b] => a = b
        /\ Listed' = Listed \ {t}
    <3>1. threads \in Seq(Thread) /\ threads' = Deleted(threads, i)
      BY <1>1 DEF CollectReaps, TypeOK
    <3>2. \A a, b \in DOMAIN threads : threads[a] = threads[b] => a = b
      BY DEF StructuresAreListed
    <3> HIDE DEF Inv
    <3>3. /\ Deleted(threads, i) \in Seq(Thread) /\ Len(Deleted(threads, i)) = Len(threads) - 1
          /\ \A j \in DOMAIN Deleted(threads, i) :
               Deleted(threads, i)[j] = IF j < i THEN threads[j] ELSE threads[j + 1]
          /\ \A a, b \in DOMAIN Deleted(threads, i) :
               Deleted(threads, i)[a] = Deleted(threads, i)[b] => a = b
      BY ONLY <2>1, <3>1, <3>2, DeletedProperties
    <3>4. \A x : (\E j \in DOMAIN Deleted(threads, i) : Deleted(threads, i)[j] = x)
            <=> x # threads[i] /\ \E j \in DOMAIN threads : threads[j] = x
      BY ONLY <2>1, <3>1, <3>2, DeletedProperties
    <3>5. \A x : x \in Listed' <=> x \in Listed /\ x # t
      BY ONLY <3>1, <3>4 DEF Listed
    <3> QED
      BY ONLY <3>1, <3>3, <3>5
  <2>3. /\ run' = [run EXCEPT ![t] = "none"] /\ heap' = heap \ {t} /\ run[t] = "returned"
        /\ UNCHANGED <<i, curr, doneBefore, done, fd, conn, backlog>>
    BY <1>1 DEF CollectReaps
  <2>4. t \in Listed
    BY <2>1 DEF Listed
  <2> HIDE DEF t
  <2>5. TypeOK'
    BY <2>1, <2>2, <2>3 DEF TypeOK
  <2>6. StructuresAreListed' /\ ThreadsAreListed'
    BY <2>1, <2>2, <2>3, <2>4 DEF TypeOK, StructuresAreListed, ThreadsAreListed, Fresh
  <2>7. DescriptorsAreOwned'
    BY <2>1, <2>3 DEF TypeOK, DescriptorsAreOwned, Holds
  <2>8. Walked'
    <3>1. DOMAIN threads = 1 .. Len(threads) /\ DOMAIN threads' = 1 .. Len(threads')
          /\ Len(threads) \in Nat
      BY <2>2, LenProperties DEF TypeOK
    <3>2. ASSUME NEW k \in DOMAIN threads', k < i'
          PROVE  threads'[k] \notin doneBefore'
      <4>1. k < i /\ k \in DOMAIN threads /\ threads'[k] = threads[k]
        BY <2>1, <2>2, <2>3, <3>1, <3>2
      <4> QED
        BY <2>1, <2>3, <4>1 DEF Walked
    <3>3. \A u \in doneBefore' : done'[u]
      BY <2>1, <2>3 DEF Walked
    <3> QED
      BY <2>1, <3>2, <3>3 DEF Walked, CollectIsComplete
  <2> QED
    BY <2>5, <2>6, <2>7, <2>8
<1>2. CASE CollectSkips
  <2>1. TypeOK' /\ StructuresAreListed' /\ ThreadsAreListed' /\ DescriptorsAreOwned'
    BY <1>2 DEF CollectSkips, TypeOK, StructuresAreListed, ThreadsAreListed, DescriptorsAreOwned,
                Listed, Fresh, Holds
  <2>2. Walked'
    BY <1>2 DEF CollectSkips, TypeOK, Walked, CollectIsComplete
  <2> QED
    BY <2>1, <2>2
<1>3. CASE CollectEnds
  <2>1. TypeOK' /\ StructuresAreListed' /\ ThreadsAreListed' /\ DescriptorsAreOwned'
    BY <1>3 DEF CollectEnds, TypeOK, StructuresAreListed, ThreadsAreListed, DescriptorsAreOwned,
                Listed, Fresh, Holds
  <2>2. \A k \in DOMAIN threads : threads[k] \notin doneBefore
    BY <1>3 DEF CollectEnds, TypeOK, Walked
  <2>3. Walked'
    BY <1>3, <2>2 DEF CollectEnds, Walked, CollectIsComplete, Listed
  <2> QED
    BY <2>1, <2>3
<1> QED
  BY <1>1, <1>2, <1>3 DEF Collect

LEMMA AcceptInv ==
    ASSUME Inv, SetupSucceeds \/ SetupFails \/ Allocate \/ AllocateFails \/ Accept \/ AcceptFails
    PROVE  Inv'
<1> USE DEF Inv
<1>1. CASE SetupSucceeds
  <2>1. TypeOK' /\ StructuresAreListed' /\ ThreadsAreListed' /\ DescriptorsAreOwned'
    BY <1>1 DEF SetupSucceeds, EnterCollect, TypeOK, StructuresAreListed, ThreadsAreListed,
                DescriptorsAreOwned, Listed, Fresh, Holds
  <2> QED
    BY <1>1, <2>1, EnteringCollect DEF SetupSucceeds
<1>2. CASE SetupFails
  BY <1>2 DEF SetupFails, TypeOK, StructuresAreListed, ThreadsAreListed, DescriptorsAreOwned,
              Walked, CollectIsComplete, Listed, Fresh, Holds
<1>3. CASE Allocate
  <2>1. curr' \in Thread \ heap /\ curr' \notin Listed
    BY <1>3 DEF Allocate, StructuresAreListed
  <2>2. TypeOK' /\ StructuresAreListed' /\ ThreadsAreListed'
    BY <1>3, <2>1 DEF Allocate, TypeOK, StructuresAreListed, ThreadsAreListed, Listed, Fresh
  <2>3. DescriptorsAreOwned' /\ Walked'
    BY <1>3, <2>1 DEF Allocate, TypeOK, DescriptorsAreOwned, Holds, Walked, CollectIsComplete, Listed
  <2> QED
    BY <2>2, <2>3
<1>4. CASE AllocateFails
  <2>1. TypeOK' /\ StructuresAreListed' /\ ThreadsAreListed' /\ DescriptorsAreOwned'
    BY <1>4 DEF AllocateFails, EnterCollect, TypeOK, StructuresAreListed, ThreadsAreListed,
                DescriptorsAreOwned, Listed, Fresh, Holds
  <2> QED
    BY <1>4, <2>1, EnteringCollect DEF AllocateFails
<1>5. CASE Accept
  <2>1. PICK f \in Fd : /\ conn[f] = NoClient
                        /\ conn' = [conn EXCEPT ![f] = Head(backlog)]
                        /\ fd' = [fd EXCEPT ![curr] = f]
    BY <1>5 DEF Accept
  <2>2. Head(backlog) \in Client /\ Head(backlog) # NoClient /\ backlog' \in Seq(Client)
    BY <1>5, ServerAssumption DEF Accept, TypeOK
  <2>3. TypeOK'
    BY <1>5, <2>1, <2>2 DEF Accept, TypeOK
  <2>4. StructuresAreListed' /\ ThreadsAreListed' /\ Walked'
    BY <1>5 DEF Accept, StructuresAreListed, ThreadsAreListed, Walked, CollectIsComplete, Listed,
                Fresh
  <2>5. pc = "accept" /\ pc' = "add" /\ curr' = curr /\ run' = run /\ heap' = heap
    BY <1>5 DEF Accept
  <2>6. curr \in heap /\ run[curr] # "running"
    BY <2>5 DEF StructuresAreListed, ThreadsAreListed, Fresh, TypeOK
  <2>7. DescriptorsAreOwned'
    BY <2>1, <2>2, <2>5, <2>6 DEF TypeOK, DescriptorsAreOwned, Holds
  <2> QED
    BY <2>3, <2>4, <2>7
<1>6. CASE AcceptFails
  <2>1. TypeOK' /\ StructuresAreListed' /\ ThreadsAreListed'
    BY <1>6 DEF AcceptFails, EnterCollect, TypeOK, StructuresAreListed, ThreadsAreListed, Listed,
                Fresh
  <2>2. DescriptorsAreOwned'
    BY <1>6 DEF AcceptFails, EnterCollect, TypeOK, StructuresAreListed, ThreadsAreListed,
                DescriptorsAreOwned, Fresh, Holds
  <2> QED
    BY <1>6, <2>1, <2>2, EnteringCollect DEF AcceptFails
<1> QED
  BY <1>1, <1>2, <1>3, <1>4, <1>5, <1>6

\* Main closes the descriptor it has just accepted and frees its structure.
LEMMA ClosingTheOnly ==
    ASSUME Inv, pc \in {"add", "spawn"}, pc' = "collect", run[curr] = "none",
           conn' = [conn EXCEPT ![fd[curr]] = NoClient], heap' = heap \ {curr},
           UNCHANGED <<curr, fd, run>>
    PROVE  DescriptorsAreOwned'
<1>1. /\ curr \in Thread /\ Holds(curr) /\ ~Holds(curr)'
      /\ \A t \in Thread : t # curr => (Holds(t)' <=> Holds(t))
  BY DEF Inv, TypeOK, Holds
<1>2. /\ \A f \in Fd : conn[f] # NoClient => \E t \in heap : Holds(t) /\ fd[t] = f
      /\ \A t \in Thread : Holds(t) => fd[t] \in Fd /\ conn[fd[t]] # NoClient
      /\ \A t, u \in Thread : Holds(t) /\ Holds(u) /\ fd[t] = fd[u] => t = u
  BY DEF Inv, DescriptorsAreOwned
<1>3. /\ DOMAIN conn = Fd /\ fd' = fd /\ heap \subseteq Thread
      /\ \A f \in Fd : conn'[f] = IF f = fd[curr] THEN NoClient ELSE conn[f]
  BY DEF Inv, TypeOK
<1> HIDE DEF Holds
<1>4. \A f \in Fd : conn'[f] # NoClient => \E t \in heap' : Holds(t)' /\ fd'[t] = f
  BY <1>1, <1>2, <1>3
<1>5. \A t \in Thread : Holds(t)' => fd'[t] \in Fd /\ conn'[fd'[t]] # NoClient
  BY <1>1, <1>2, <1>3
<1>6. \A t, u \in Thread : Holds(t)' /\ Holds(u)' /\ fd'[t] = fd'[u] => t = u
  BY <1>1, <1>2, <1>3
<1> QED
  BY <1>4, <1>5, <1>6 DEF DescriptorsAreOwned

\* Taking the last pointer out again.
LEMMA DroppingTheLast ==
    ASSUME Inv, pc = "spawn", threads' = Deleted(threads, Len(threads))
    PROVE  /\ threads' \in Seq(Thread)
           /\ \A a, b \in DOMAIN threads' : threads'[a] = threads'[b] => a = b
           /\ Listed' = Listed \ {curr}
<1>1. Len(threads) \in DOMAIN threads /\ threads[Len(threads)] = curr
  BY LenProperties DEF Inv, TypeOK, ThreadsAreListed
<1>2. threads \in Seq(Thread) /\ \A a, b \in DOMAIN threads : threads[a] = threads[b] => a = b
  BY DEF Inv, TypeOK, StructuresAreListed
<1> DEFINE n == Len(threads)
<1>3. /\ Deleted(threads, n) \in Seq(Thread)
      /\ \A a, b \in DOMAIN Deleted(threads, n) :
           Deleted(threads, n)[a] = Deleted(threads, n)[b] => a = b
  BY <1>1, <1>2, DeletedProperties
<1>4. \A x : (\E j \in DOMAIN Deleted(threads, n) : Deleted(threads, n)[j] = x)
        <=> x # threads[n] /\ \E j \in DOMAIN threads : threads[j] = x
  BY <1>1, <1>2, DeletedProperties
<1>5. \A x : x \in Listed' <=> x \in Listed /\ x # curr
  BY <1>1, <1>4 DEF Listed
<1> QED
  BY <1>1, <1>3, <1>5

LEMMA SpawnInv ==
    ASSUME Inv, AddThread \/ AddFails \/ Spawn \/ SpawnFails PROVE Inv'
<1> USE DEF Inv
<1>1. CASE AddThread
  <2>1. /\ threads' \in Seq(Thread) /\ Len(threads') = Len(threads) + 1
        /\ Len(threads) \in Nat
        /\ DOMAIN threads' = DOMAIN threads \cup {Len(threads) + 1}
        /\ DOMAIN threads = 1 .. Len(threads)
        /\ threads'[Len(threads) + 1] = curr
        /\ \A k \in DOMAIN threads : threads'[k] = threads[k]
    <3>1. threads \in Seq(Thread) /\ curr \in Thread /\ threads' = Append(threads, curr)
      BY <1>1 DEF AddThread, TypeOK
    <3> HIDE DEF Inv
    <3> QED
      BY <3>1, LenProperties, AppendProperties
  <2>2. Listed' = Listed \cup {curr}
    BY <2>1 DEF Listed
  <2>3. /\ pc = "add" /\ pc' = "spawn"
        /\ UNCHANGED <<i, curr, heap, doneBefore, done, fd, run, conn, backlog>>
    BY <1>1 DEF AddThread
  <2>4. TypeOK'
    BY <2>1, <2>3 DEF TypeOK
  <2>5. /\ heap = Listed \cup {curr} /\ curr \notin Listed
        /\ \A j, k \in DOMAIN threads : threads[j] = threads[k] => j = k
        /\ \A t \in Thread : run[t] # "none" => t \in Listed
    BY <2>3 DEF StructuresAreListed, ThreadsAreListed, Fresh
  <2>6. \A k \in DOMAIN threads : threads'[k] \in Listed
    BY <2>1 DEF Listed
  <2>7. \A j, k \in DOMAIN threads' : threads'[j] = threads'[k] => j = k
    BY <2>1, <2>5, <2>6
  <2>8. StructuresAreListed'
    BY <2>2, <2>3, <2>5, <2>7 DEF StructuresAreListed, Fresh
  <2>9. curr \in Thread
    BY DEF TypeOK
  <2>10. ThreadsAreListed'
    BY <2>1, <2>2, <2>3, <2>5, <2>9 DEF ThreadsAreListed
  <2>11. DescriptorsAreOwned' /\ Walked'
    BY <2>3 DEF DescriptorsAreOwned, Holds, Walked, CollectIsComplete
  <2> QED
    BY <2>4, <2>8, <2>10, <2>11
<1>2. CASE AddFails
  <2>1. /\ pc = "add" /\ pc' = "collect" /\ EnterCollect /\ i' = 1
        /\ conn' = [conn EXCEPT ![fd[curr]] = NoClient]
        /\ heap' = heap \ {curr}
        /\ UNCHANGED <<threads, curr, done, fd, run, backlog>>
    BY <1>2 DEF AddFails, EnterCollect, Close
  <2>2. TypeOK'
    <3>1. Len(threads) \in Nat
      BY LenProperties DEF TypeOK
    <3>2. conn' \in [Fd -> Client \cup {NoClient}] /\ heap' \subseteq Thread
      BY <2>1 DEF TypeOK
    <3>3. doneBefore' \subseteq Thread
      BY <2>1 DEF EnterCollect, TypeOK, Listed
    <3> QED
      BY <2>1, <3>1, <3>2, <3>3 DEF TypeOK
  <2>3. /\ heap = Listed \cup {curr} /\ curr \notin Listed /\ Listed' = Listed
        /\ curr \in Thread /\ run[curr] = "none"
    BY <2>1 DEF StructuresAreListed, ThreadsAreListed, Fresh, TypeOK, Listed
  <2>4. StructuresAreListed' /\ ThreadsAreListed'
    BY <2>1, <2>3 DEF StructuresAreListed, ThreadsAreListed, Fresh
  <2>5. DescriptorsAreOwned'
    BY <2>1, <2>3, ClosingTheOnly
  <2> QED
    BY <2>1, <2>2, <2>4, <2>5, EnteringCollect
<1>3. CASE Spawn
  <2>1. /\ pc = "spawn" /\ pc' = "collect" /\ EnterCollect /\ i' = 1
        /\ run' = [run EXCEPT ![curr] = "running"]
        /\ UNCHANGED <<threads, curr, heap, done, fd, conn, backlog>>
    BY <1>3 DEF Spawn, EnterCollect
  <2>2. curr \in Listed
    BY <2>1, LenProperties DEF ThreadsAreListed, Listed, TypeOK
  <2>3. TypeOK' /\ StructuresAreListed' /\ ThreadsAreListed'
    BY <2>1, <2>2 DEF EnterCollect, TypeOK, StructuresAreListed, ThreadsAreListed, Listed, Fresh
  <2>4. \A t \in Thread : Holds(t)' <=> Holds(t)
    BY <2>1 DEF Holds, TypeOK
  <2>5. DescriptorsAreOwned'
    BY <2>1, <2>4 DEF DescriptorsAreOwned, TypeOK
  <2> QED
    BY <2>1, <2>3, <2>5, EnteringCollect
<1>4. CASE SpawnFails
  <2>1. /\ pc = "spawn" /\ pc' = "collect" /\ EnterCollect /\ i' = 1
        /\ conn' = [conn EXCEPT ![fd[curr]] = NoClient]
        /\ threads' = Deleted(threads, Len(threads))
        /\ heap' = heap \ {curr}
        /\ UNCHANGED <<curr, done, fd, run, backlog>>
    BY <1>4 DEF SpawnFails, EnterCollect, Close
  <2>2. /\ threads' \in Seq(Thread)
        /\ \A a, b \in DOMAIN threads' : threads'[a] = threads'[b] => a = b
        /\ Listed' = Listed \ {curr}
    BY <2>1, DroppingTheLast
  <2>3. run[curr] = "none"
    BY <2>1 DEF ThreadsAreListed
  <2>4. TypeOK'
    <3>1. Len(threads') \in Nat
      BY <2>2, LenProperties
    <3>2. conn' \in [Fd -> Client \cup {NoClient}] /\ heap' \subseteq Thread
      BY <2>1 DEF TypeOK
    <3>3. doneBefore' \subseteq Thread
      BY <2>1 DEF EnterCollect, TypeOK, Listed
    <3> QED
      BY <2>1, <2>2, <3>1, <3>2, <3>3 DEF TypeOK
  <2>5. StructuresAreListed' /\ ThreadsAreListed'
    BY <2>1, <2>2, <2>3 DEF StructuresAreListed, ThreadsAreListed, Fresh
  <2>6. DescriptorsAreOwned'
    BY <2>1, <2>3, ClosingTheOnly
  <2> QED
    BY <2>1, <2>4, <2>5, <2>6 DEF EnterCollect, Walked, CollectIsComplete, TypeOK
<1> QED
  BY <1>1, <1>2, <1>3, <1>4

\* The end of a client thread; applications connect.
LEMMA ThreadInv ==
    ASSUME Inv, NEW t \in Thread, ThreadCloses(t) \/ Finish(t) PROVE Inv'
<1> USE DEF Inv
<1>1. UNCHANGED mainVars
  BY DEF ThreadCloses, Finish, ThreadMarksDone, ThreadReturns
<1>2. /\ t \in Listed /\ run[t] \in {"running", "closed", "marked"} /\ Listed' = Listed
      /\ pc = "spawn" => t # curr
  BY <1>1 DEF ThreadCloses, Finish, ThreadMarksDone, ThreadReturns, ThreadsAreListed, mainVars, Listed
<1>3. CASE ThreadCloses(t)
  <2>1. /\ run[t] = "running" /\ run' = [run EXCEPT ![t] = "closed"]
        /\ conn' = [conn EXCEPT ![fd[t]] = NoClient] /\ UNCHANGED <<done, fd, backlog>>
    BY <1>3 DEF ThreadCloses, Close
  <2>2. TypeOK' /\ StructuresAreListed' /\ ThreadsAreListed' /\ Walked'
    BY <1>1, <1>2, <2>1 DEF mainVars, TypeOK, StructuresAreListed, ThreadsAreListed, Walked,
                            CollectIsComplete, Fresh
  <2>3. /\ Holds(t) /\ ~Holds(t)'
        /\ \A u \in Thread : u # t => (Holds(u)' <=> Holds(u))
    <3>1. ~(t = curr /\ pc \in {"add", "spawn"})
      BY <1>2 DEF StructuresAreListed, Fresh
    <3> QED
      BY <1>1, <2>1, <3>1 DEF mainVars, Holds, TypeOK
  <2>4. /\ \A f \in Fd : conn[f] # NoClient => \E u \in heap : Holds(u) /\ fd[u] = f
        /\ \A u \in Thread : Holds(u) => fd[u] \in Fd /\ conn[fd[u]] # NoClient
        /\ \A u, v \in Thread : Holds(u) /\ Holds(v) /\ fd[u] = fd[v] => u = v
    BY DEF DescriptorsAreOwned
  <2>5. /\ heap' = heap /\ heap \subseteq Thread /\ fd' = fd
        /\ \A f \in Fd : conn'[f] = IF f = fd[t] THEN NoClient ELSE conn[f]
    BY <1>1, <2>1 DEF mainVars, TypeOK
  <2> HIDE DEF Holds, Inv
  <2>6. \A f \in Fd : conn'[f] # NoClient => \E u \in heap' : Holds(u)' /\ fd'[u] = f
    BY <2>3, <2>4, <2>5
  <2>7. \A u \in Thread : Holds(u)' => fd'[u] \in Fd /\ conn'[fd'[u]] # NoClient
    BY <2>3, <2>4, <2>5
  <2>8. \A u, v \in Thread : Holds(u)' /\ Holds(v)' /\ fd'[u] = fd'[v] => u = v
    BY <2>3, <2>4, <2>5
  <2>9. DescriptorsAreOwned'
    BY <2>6, <2>7, <2>8 DEF DescriptorsAreOwned
  <2> QED
    BY <2>2, <2>9 DEF Inv
<1>4. CASE Finish(t)
  <2>1. /\ run[t] \in {"closed", "marked"}
        /\ run' \in {[run EXCEPT ![t] = "marked"], [run EXCEPT ![t] = "returned"]}
        /\ done' \in {done, [done EXCEPT ![t] = TRUE]}
        /\ UNCHANGED <<fd, conn, backlog>>
    BY <1>4 DEF Finish, ThreadMarksDone, ThreadReturns
  <2>2. TypeOK'
    BY <1>1, <2>1 DEF mainVars, TypeOK
  <2>3. StructuresAreListed' /\ ThreadsAreListed'
    BY <1>1, <1>2, <2>1 DEF mainVars, TypeOK, StructuresAreListed, ThreadsAreListed, Fresh
  <2>4. Walked'
    BY <1>1, <1>2, <2>1 DEF mainVars, TypeOK, Walked, CollectIsComplete
  <2>5. \A u \in Thread : Holds(u)' <=> Holds(u)
    BY <1>1, <2>1 DEF mainVars, Holds, TypeOK
  <2>6. DescriptorsAreOwned'
    BY <1>1, <2>1, <2>5 DEF mainVars, DescriptorsAreOwned, TypeOK
  <2> QED
    BY <2>2, <2>3, <2>4, <2>6
<1> QED
  BY <1>3, <1>4

LEMMA NextInv == Inv /\ [Next]_vars => Inv'
<1> SUFFICES ASSUME Inv, [Next]_vars PROVE Inv'
  OBVIOUS
<1>1. CASE Main
  BY <1>1, AcceptInv, CollectInv, SpawnInv DEF Main
<1>2. CASE \E t \in Thread : ThreadCloses(t) \/ Finish(t)
  BY <1>2, ThreadInv
<1>3. CASE \E c \in Client : Connect(c)
  <2>1. UNCHANGED <<mainVars, done, fd, run, conn>> /\ backlog' \in Seq(Client)
    BY <1>3 DEF Connect, Inv, TypeOK
  <2> QED
    BY <2>1 DEF Inv, TypeOK, StructuresAreListed, ThreadsAreListed, DescriptorsAreOwned, Walked,
                CollectIsComplete, Listed, Fresh, Holds, mainVars
<1>4. CASE UNCHANGED vars
  BY <1>4 DEF Inv, TypeOK, StructuresAreListed, ThreadsAreListed, DescriptorsAreOwned, Walked,
              CollectIsComplete, Listed, Fresh, Holds, mainVars, vars
<1> QED
  BY <1>1, <1>2, <1>3, <1>4 DEF Next

LEMMA Invariance == Spec => []Inv
BY InitInv, NextInv, PTL DEF Spec

-----------------------------------------------------------------------------
\* Every variable of main, of the client threads and of the kernel keeps its
\* type; the index of collect never leaves the list by more than one place.
THEOREM TypeCorrect == Spec => []TypeOK
BY Invariance, PTL DEF Inv

\* The structures that are allocated are those listed and the one being
\* prepared, whichever of malloc, accept, sblist_add and pthread_create
\* fails, and no thread uses one that is freed.
THEOREM StructuresCorrect == Spec => []StructuresAreListed
BY Invariance, PTL DEF Inv

\* Every open client descriptor has one structure that will close it, and
\* no two threads ever hold the same descriptor.
THEOREM DescriptorsCorrect == Spec => []DescriptorsAreOwned
BY Invariance, PTL DEF Inv

\* collect joins every thread that was done when it was entered.
THEOREM CollectCorrect == Spec => []CollectIsComplete
<1>1. Inv => CollectIsComplete
  BY DEF Inv, Walked
<1> QED
  BY <1>1, Invariance, PTL
-----------------------------------------------------------------------------
\* threads, a sequence here, is an sblist in the code: a block of cells that grows
\* and is searched up to its count.  Sblist models the block.
CONSTANTS Item, Garbage, BlockItems, MaxCapa
VARIABLES items, capa, count, result
Block == INSTANCE Sblist

\* An empty block has no cells.
LEMMA EmptyBlock == ASSUME NEW S PROVE <<>> \in [1 .. 0 -> S]
<1>1. <<>> \in Seq(S) /\ Len(<<>>) = 0
  BY EmptySeq
<1> QED
  BY <1>1, LenProperties

\* The invariant is inductive.
LEMMA BlockInit == Block!SblistAssumption /\ Block!Init => Block!TypeOK
  BY EmptyBlock DEF Block!SblistAssumption, Block!Init, Block!TypeOK

LEMMA BlockStep == Block!SblistAssumption /\ Block!TypeOK /\ [Block!Next]_Block!vars => Block!TypeOK'
<1> SUFFICES ASSUME Block!SblistAssumption, Block!TypeOK, [Block!Next]_Block!vars PROVE Block!TypeOK'
  OBVIOUS
<1> USE DEF Block!SblistAssumption, Block!TypeOK
<1>1. ASSUME NEW x \in Item, Block!AddWithRoom(x) PROVE Block!TypeOK'
  BY <1>1 DEF Block!AddWithRoom
<1>2. ASSUME NEW x \in Item, Block!AddGrows(x) PROVE Block!TypeOK'
  <2>1. Block!Grown \in [1 .. capa + BlockItems -> Item \cup {Garbage}]
    BY DEF Block!Grown
  <2>2. count + 1 \in 1 .. capa + BlockItems
    BY <1>2 DEF Block!AddGrows
  <2>3. \A k \in 1 .. count : Block!Grown[k] = items[k]
    BY DEF Block!Grown
  <2>4. items' = [Block!Grown EXCEPT ![count + 1] = x]
    BY <1>2 DEF Block!AddGrows
  <2>5. items' \in [1 .. capa' -> Item \cup {Garbage}]
    BY <2>1, <2>2, <2>4, <1>2 DEF Block!AddGrows
  <2>6. \A k \in 1 .. count' : items'[k] \in Item
    <3> TAKE k \in 1 .. count'
    <3>1. CASE k = count + 1
      BY <3>1, <2>1, <2>2, <2>4
    <3>2. CASE k # count + 1
      <4>1. k \in 1 .. count
        BY <3>2, <1>2 DEF Block!AddGrows
      <4> QED
        BY <4>1, <2>1, <2>3, <2>4
    <3> QED
      BY <3>1, <3>2
  <2> QED
    BY <2>5, <2>6, <1>2 DEF Block!AddGrows
<1>3. ASSUME NEW x \in Item, Block!Search(x) PROVE Block!TypeOK'
  BY <1>3 DEF Block!Search
<1>4. CASE Block!AddFails
  BY <1>4 DEF Block!AddFails
<1>5. ASSUME NEW n \in 0 .. count, Block!Delete(n) PROVE Block!TypeOK'
  BY <1>5 DEF Block!Delete
<1>6. CASE Block!FreeItems
  BY <1>6, EmptyBlock DEF Block!FreeItems
<1>7. CASE UNCHANGED Block!vars
  BY <1>7 DEF Block!vars
<1> QED
  BY <1>1, <1>2, <1>3, <1>4, <1>5, <1>6, <1>7 DEF Block!Next

\* The count never passes the capacity, and the cells that count are items:
\* sblist_add writes inside the block whatever was added and deleted before.
LEMMA BlockInvariance == ASSUME Block!SblistAssumption PROVE Block!Spec => []Block!TypeOK
<1>1. Block!Init => Block!TypeOK
  BY BlockInit
<1>2. Block!TypeOK /\ [Block!Next]_Block!vars => Block!TypeOK'
  BY BlockStep
<1> QED
  BY <1>1, <1>2, PTL DEF Block!Spec

-----------------------------------------------------------------------------
\* The items in use form a sequence.
LEMMA ContentsIsSeq ==
    ASSUME Block!TypeOK
    PROVE  /\ Block!Contents \in Seq(Item)
           /\ Len(Block!Contents) = count
           /\ DOMAIN Block!Contents = 1 .. count
           /\ \A k \in 1 .. count : Block!Contents[k] = items[k]
<1>1. Block!Contents \in [1 .. count -> Item] /\ count \in Nat
  BY DEF Block!TypeOK, Block!Contents
<1>2. Block!Contents \in Seq(Item)
  BY <1>1, SeqDef
<1>3. DOMAIN Block!Contents = 1 .. count /\ \A k \in 1 .. count : Block!Contents[k] = items[k]
  BY DEF Block!Contents
<1>4. Len(Block!Contents) \in Nat /\ DOMAIN Block!Contents = 1 .. Len(Block!Contents)
  BY <1>2, LenProperties
<1>5. Len(Block!Contents) = count
  BY <1>1, <1>3, <1>4
<1> QED
  BY <1>2, <1>3, <1>5

\* An item written behind the last one is appended.
LEMMA WriteAppends ==
    ASSUME Block!TypeOK, Block!TypeOK', NEW x \in Item, count' = count + 1,
           items'[count + 1] = x,
           \A k \in 1 .. count : items'[k] = items[k]
    PROVE  Block!Contents' = Append(Block!Contents, x)
<1>1. /\ Block!Contents \in Seq(Item) /\ Len(Block!Contents) = count
      /\ \A k \in 1 .. count : Block!Contents[k] = items[k]
  BY ContentsIsSeq
<1>2. /\ Block!Contents' \in Seq(Item) /\ Len(Block!Contents') = count + 1
      /\ \A k \in 1 .. count + 1 : Block!Contents'[k] = items'[k]
  <2>1. Block!Contents' \in [1 .. count' -> Item] /\ count' \in Nat
    BY DEF Block!TypeOK, Block!Contents
  <2>2. Block!Contents' \in Seq(Item) /\ DOMAIN Block!Contents' = 1 .. count'
    BY <2>1, SeqDef
  <2>3. Len(Block!Contents') = count'
    BY <2>1, <2>2, LenProperties
  <2> QED
    BY <2>2, <2>3 DEF Block!Contents
<1>3. /\ Append(Block!Contents, x) \in Seq(Item) /\ Len(Append(Block!Contents, x)) = count + 1
      /\ \A k \in 1 .. count : Append(Block!Contents, x)[k] = Block!Contents[k]
      /\ Append(Block!Contents, x)[count + 1] = x
  BY <1>1, AppendProperties
<1>4. count \in Nat
  BY DEF Block!TypeOK
<1>5. \A k \in 1 .. count + 1 : Block!Contents'[k] = Append(Block!Contents, x)[k]
  BY <1>1, <1>2, <1>3, <1>4
<1> QED
  BY <1>2, <1>3, <1>5, SeqEqual

LEMMA StepImplementsItemList == Block!SblistAssumption /\ Block!TypeOK /\ Block!TypeOK' /\ [Block!Next]_Block!vars
    => [Block!List!Next]_Block!List!vars
<1> SUFFICES ASSUME Block!SblistAssumption, Block!TypeOK, Block!TypeOK', [Block!Next]_Block!vars
             PROVE  [Block!List!Next]_Block!List!vars
  OBVIOUS
<1>1. ASSUME NEW x \in Item, Block!AddWithRoom(x) PROVE Block!List!Next
  <2>1. /\ count' = count + 1 /\ items'[count + 1] = x /\ result' = 1
        /\ \A k \in 1 .. count : items'[k] = items[k]
    BY <1>1 DEF Block!SblistAssumption, Block!AddWithRoom, Block!TypeOK
  <2>2. Block!Contents' = Append(Block!Contents, x)
    BY <2>1, WriteAppends
  <2> QED
    BY <2>1, <2>2 DEF Block!List!Next, Block!List!Add
<1>2. ASSUME NEW x \in Item, Block!AddGrows(x) PROVE Block!List!Next
  <2>1. /\ Block!Grown \in [1 .. capa + BlockItems -> Item \cup {Garbage}]
        /\ \A k \in 1 .. count : Block!Grown[k] = items[k]
    BY DEF Block!SblistAssumption, Block!Grown, Block!TypeOK
  <2>2. /\ count' = count + 1 /\ items'[count + 1] = x /\ result' = 1
        /\ \A k \in 1 .. count : items'[k] = items[k]
    BY <1>2, <2>1 DEF Block!SblistAssumption, Block!AddGrows, Block!TypeOK
  <2>3. Block!Contents' = Append(Block!Contents, x)
    BY <2>2, WriteAppends
  <2> QED
    BY <2>2, <2>3 DEF Block!List!Next, Block!List!Add
<1>3. ASSUME NEW x \in Item, Block!Search(x) PROVE Block!List!Next
  <2>1. /\ DOMAIN Block!Contents = 1 .. count
        /\ \A k \in 1 .. count : Block!Contents[k] = items[k]
    BY ContentsIsSeq
  <2>2. UNCHANGED Block!Contents
    BY <1>3 DEF Block!Search, Block!Contents
  <2>3. CASE \A k \in 1 .. count : items[k] # x
    BY <2>1, <2>2, <2>3, <1>3 DEF Block!Search, Block!List!Next, Block!List!Search
  <2>4. CASE \E k \in 1 .. count : items[k] = x
    <3>1. PICK k \in 1 .. count : /\ items[k] = x /\ result' = k - 1
                                  /\ \A j \in 1 .. count : items[j] = x => k <= j
      BY <2>4, <1>3 DEF Block!Search
    <3>2. \A j \in 1 .. k - 1 : j \in 1 .. count /\ j < k
      BY DEF Block!TypeOK
    <3>3. \A j \in 1 .. k - 1 : Block!Contents[j] # x
      BY <2>1, <3>1, <3>2 DEF Block!TypeOK
    <3> QED
      BY <2>1, <2>2, <3>1, <3>3 DEF Block!List!Next, Block!List!Search
  <2> QED
    BY <2>3, <2>4
<1>4. CASE Block!AddFails
  BY <1>4 DEF Block!AddFails, Block!Contents, Block!List!Next, Block!List!AddRefused
<1>5. ASSUME NEW n \in 0 .. count, Block!Delete(n) PROVE Block!List!Next
  <2>1. /\ Len(Block!Contents) = count
        /\ \A k \in 1 .. count : Block!Contents[k] = items[k]
    BY ContentsIsSeq
  <2>2. CASE n < count
    <3>1. Block!Contents' = [k \in 1 .. count - 1 |-> items'[k]]
      BY <1>5, <2>2 DEF Block!Delete, Block!Contents
    <3>2. \A k \in 1 .. count - 1 :
             items'[k] = IF k <= n THEN Block!Contents[k] ELSE Block!Contents[k + 1]
      BY <1>5, <2>1, <2>2 DEF Block!Delete, Block!TypeOK
    <3>3. Block!Contents' = [k \in 1 .. count - 1 |-> IF k <= n THEN Block!Contents[k] ELSE Block!Contents[k + 1]]
      BY <3>1, <3>2
    <3> QED
      BY <1>5, <2>1, <2>2, <3>3 DEF Block!Delete, Block!List!Next, Block!List!Delete
  <2>3. CASE ~(n < count)
    <3>1. UNCHANGED <<Block!Contents, result>>
      BY <1>5, <2>3 DEF Block!Delete, Block!Contents
    <3> QED
      BY <2>1, <2>3, <3>1 DEF Block!List!Next, Block!List!Delete
  <2> QED
    BY <2>2, <2>3
<1>6. CASE Block!FreeItems
  <2>1. Len(Block!Contents') = 0 /\ Block!Contents' \in Seq(Item)
    <3>1. Block!Contents' \in [1 .. 0 -> Item]
      BY <1>6 DEF Block!FreeItems, Block!Contents
    <3> QED
      BY <3>1, SeqDef, LenProperties
  <2>2. Block!Contents' = <<>>
    BY <2>1, EmptySeq
  <2> QED
    BY <2>2, <1>6 DEF Block!FreeItems, Block!List!Next, Block!List!Clear
<1>7. CASE UNCHANGED Block!vars
  BY <1>7 DEF Block!vars, Block!Contents, Block!List!vars
<1> QED
  BY <1>1, <1>2, <1>3, <1>4, <1>5, <1>6, <1>7 DEF Block!Next

\* The list the callers see is the abstract one: no item is lost, moved or
\* found that is not there, through every growth, failure and deletion.
THEOREM ImplementsItemList == ASSUME Block!SblistAssumption PROVE Block!Spec => Block!ItemListSpec
<1>1. Block!Init => Block!List!Init
  <2> SUFFICES ASSUME Block!Init PROVE Block!List!Init
    OBVIOUS
  <2>1. Block!Contents \in [1 .. 0 -> Item]
    BY DEF Block!Init, Block!Contents
  <2>2. Block!Contents \in Seq(Item) /\ Len(Block!Contents) = 0
    BY <2>1, SeqDef, LenProperties
  <2> QED
    BY <2>2, EmptySeq DEF Block!Init, Block!List!Init
<1>2. Block!Spec => []Block!TypeOK
  BY BlockInvariance
<1>3. Block!TypeOK /\ Block!TypeOK' /\ [Block!Next]_Block!vars => [Block!List!Next]_Block!List!vars
  BY StepImplementsItemList
<1> QED
  BY <1>1, <1>2, <1>3, PTL DEF Block!Spec, Block!ItemListSpec, Block!List!Spec
=============================================================================
