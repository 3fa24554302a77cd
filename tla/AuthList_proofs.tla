--------------------------- MODULE AuthList_proofs ---------------------------
(***************************************************************************)
(* The shared list is never read through a pointer to memory that was      *)
(* freed or not written, for any number of threads and addresses and any   *)
(* block size.                                                             *)
(*                                                                         *)
(* The invariant has three parts.  Exclusion: who is inside the list holds *)
(* the lock in the way its call needs.  Representation: what the members   *)
(* of auth_ips and the heap say of each other at every line of sblist_add, *)
(* where they disagree for a while.  Pointers: what a thread may rely on   *)
(* between sblist_get and the comparison.                                  *)
(***************************************************************************)
EXTENDS AuthList, SequenceTheorems, TLAPS

Adding == {"grow", "capa", "items", "count", "set"}
Moving == {"capa", "items"}        \* the members do not describe the block

TypeOK ==
    /\ readers \subseteq Thread
    /\ writer \in Thread \cup {NoThread}
    /\ items \in Block \cup {NoBlock}
    /\ capa \in Nat
    /\ count \in Nat
    /\ pc \in [Thread -> {"idle", "lock", "look", "compare", "unlock"} \cup Adding]
    /\ want \in [Thread -> {"check", "add"}]
    /\ arg \in [Thread -> Ip]
    /\ i \in [Thread -> Nat]
    /\ ptr \in [Thread -> Block \cup {NoBlock}]
    /\ DOMAIN heap = Block

Exclusion ==
    /\ writer # NoThread => readers = {}
    /\ \A t \in Thread :
        /\ pc[t] \in {"look", "compare"} => IF want[t] = "check" THEN t \in readers ELSE writer = t
        /\ pc[t] \in Adding => writer = t

\* block b has n cells, of which the first m hold addresses
Holds(b, n, m) ==
    /\ b \in Block
    /\ DOMAIN heap[b] = 1 .. n
    /\ \A k \in 1 .. m : heap[b][k] \in Ip

Representation ==
    /\ count <= capa
    /\ \A t \in Thread :
        /\ pc[t] = "capa" => count = capa /\ Holds(ptr[t], capa + BlockItems, count)
        /\ pc[t] = "items" => count < capa /\ Holds(ptr[t], capa, count)
        /\ pc[t] = "count" => count < capa
        /\ pc[t] = "set" => count > 0 /\ Holds(items, capa, count - 1)
    /\ capa > 0 /\ (\A t \in Thread : pc[t] \notin Moving \cup {"set"}) => Holds(items, capa, count)

Pointers == \A t \in Thread : pc[t] = "compare" => ptr[t] = items /\ i[t] < count

Inv == TypeOK /\ Exclusion /\ Representation /\ Pointers

-----------------------------------------------------------------------------
\* While a thread adds, no other is inside the list.
LEMMA AddingAlone ==
    ASSUME Inv, NEW t \in Thread, pc[t] \in Adding
    PROVE  \A u \in Thread \ {t} : pc[u] \notin {"look", "compare"} \cup Adding
  BY AuthListAssumption DEF Inv, TypeOK, Exclusion

\* While a thread looks, none adds.
LEMMA LookingUndisturbed ==
    ASSUME Inv, NEW t \in Thread, pc[t] \in {"look", "compare"}
    PROVE  \A u \in Thread : pc[u] \notin Adding
  BY AuthListAssumption DEF Inv, TypeOK, Exclusion, Adding

LEMMA InitInv == Init => Inv
  BY AuthListAssumption DEF Init, Inv, TypeOK, Exclusion, Representation, Pointers, Adding, Holds

LEMMA LockStepInv ==
    ASSUME Inv, NEW t \in Thread, LockSteps(t)
    PROVE  Inv'
<1> USE DEF Inv, TypeOK, Exclusion, Representation, Pointers, Adding, Moving, Holds, Goto, Answer,
            shared, call
<1>1. ASSUME NEW what \in {"check", "add"}, NEW a \in Ip, Call(t, what, a) PROVE Inv'
  BY <1>1 DEF Call
<1>2. CASE LockFails(t)
  BY <1>2 DEF LockFails
<1>3. CASE ReadLock(t)
  BY <1>3 DEF ReadLock, Locked
<1>4. CASE WriteLock(t)
  BY <1>4, AuthListAssumption DEF WriteLock, Locked
<1>5. CASE Unlock(t)
  BY <1>5, AuthListAssumption DEF Unlock
<1> QED
  BY <1>1, <1>2, <1>3, <1>4, <1>5 DEF LockSteps

LEMMA ListStepInv ==
    ASSUME Inv, NEW t \in Thread, ListSteps(t)
    PROVE  Inv'
<1> USE DEF Inv, TypeOK, Exclusion, Representation, Pointers, Adding, Moving, Holds, Goto, Answer,
            shared, call
<1>1. CASE Look(t)
  BY <1>1 DEF Look
<1>2. CASE LookEnds(t)
  <2>1. CASE want[t] = "check"
    BY <1>2, <2>1, LookingUndisturbed DEF LookEnds
  <2>2. CASE want[t] # "check"
    <3>1. /\ pc[t] = "look" /\ pc' = [pc EXCEPT ![t] = "grow"]
          /\ UNCHANGED <<readers, writer, items, capa, count, heap, want, arg, i, ptr>>
      BY <1>2, <2>2 DEF LookEnds
    <3>2. want[t] = "add" /\ writer = t /\ \A u \in Thread : pc[u] \notin Adding
      BY <2>2, <3>1, LookingUndisturbed
    <3>3. TypeOK'
      BY <3>1
    <3>4. Exclusion' /\ Pointers'
      BY <3>1, <3>2
    <3>5. Holds(items, capa, count) \/ ~(capa > 0)
      BY <3>2
    <3>6. Representation'
      BY <3>1, <3>2, <3>5
    <3> QED
      BY <3>3, <3>4, <3>6
  <2> QED
    BY <2>1, <2>2
<1>3. CASE Compare(t)
  <2>1. /\ pc[t] = "compare" /\ pc' \in {[pc EXCEPT ![t] = "unlock"], [pc EXCEPT ![t] = "look"]}
        /\ i' \in {i, [i EXCEPT ![t] = i[t] + 1]}
        /\ UNCHANGED <<shared, call, ptr>>
    <3>1. CASE heap[ptr[t]][i[t] + 1] = arg[t]
      BY <1>3, <3>1 DEF Compare
    <3>2. CASE heap[ptr[t]][i[t] + 1] # arg[t]
      BY <1>3, <3>2 DEF Compare
    <3> QED
      BY <3>1, <3>2
  <2>2. i' \in [Thread -> Nat]
    BY <2>1
  <2>3. CASE pc' = [pc EXCEPT ![t] = "unlock"]
    BY <2>1, <2>2, <2>3
  <2>4. CASE pc' = [pc EXCEPT ![t] = "look"]
    BY <2>1, <2>2, <2>4
  <2> QED
    BY <2>1, <2>3, <2>4
<1>4. CASE HasRoom(t)
  BY <1>4, AddingAlone DEF HasRoom
<1>5. ASSUME NEW b \in Block, Realloc(t, b) PROVE Inv'
  BY <1>5, AddingAlone, AuthListAssumption DEF Realloc, Enlarged
<1>6. CASE ReallocFails(t)
  BY <1>6, AddingAlone DEF ReallocFails
<1>7. CASE SetCapa(t)
  BY <1>7, AddingAlone, AuthListAssumption DEF SetCapa
<1>8. CASE SetItems(t)
  BY <1>8, AddingAlone DEF SetItems
<1>9. CASE Count(t)
  BY <1>9, AddingAlone DEF Count
<1>10. CASE Set(t)
  BY <1>10, AddingAlone DEF Set
<1> QED
  BY <1>1, <1>2, <1>3, <1>4, <1>5, <1>6, <1>7, <1>8, <1>9, <1>10 DEF ListSteps

LEMMA Invariance == Spec => []Inv
<1>1. ASSUME Inv, UNCHANGED vars PROVE Inv'
  BY <1>1 DEF vars, shared, call, Inv, TypeOK, Exclusion, Representation, Pointers, Holds
<1>2. Inv /\ [Next]_vars => Inv'
  BY <1>1, LockStepInv, ListStepInv DEF Next
<1> QED
  BY <1>2, InitInv, PTL DEF Spec

\* No thread follows a pointer into memory that realloc has freed, behind the
\* items in use, or to a cell that sblist_add has counted but not written.
THEOREM AccessIsSafe == Spec => []NoStaleAccess
<1>1. Inv => NoStaleAccess
  <2> SUFFICES ASSUME Inv, NEW t \in Thread
               PROVE  /\ pc[t] = "compare" => /\ ptr[t] \in Block
                                              /\ i[t] + 1 \in DOMAIN heap[ptr[t]]
                                              /\ heap[ptr[t]][i[t] + 1] # Garbage
                      /\ pc[t] = "set" => items \in Block /\ count \in DOMAIN heap[items]
    BY DEF NoStaleAccess
  <2>1. CASE pc[t] = "compare"
    <3>1. \A u \in Thread : pc[u] \notin Adding
      BY <2>1, LookingUndisturbed
    <3>2. ptr[t] = items /\ i[t] \in 0 .. count - 1 /\ count <= capa /\ capa \in Nat /\ count \in Nat
      BY <2>1 DEF Inv, TypeOK, Pointers, Representation
    <3>3. Holds(items, capa, count)
      BY <3>1, <3>2 DEF Inv, Representation, Adding, Moving
    <3> QED
      BY <2>1, <3>2, <3>3, AuthListAssumption DEF Holds
  <2>2. CASE pc[t] = "set"
    BY <2>2 DEF Inv, TypeOK, Representation, Holds
  <2> QED
    BY <2>1, <2>2
<1> QED
  BY <1>1, Invariance, PTL

-----------------------------------------------------------------------------
\* The list is a set that is asked and extended in one step.

\* What a search has found out so far.
Searched ==
    \A t \in Thread :
        /\ pc[t] \in {"look", "compare"} =>
              /\ i[t] <= count
              /\ \A k \in 1 .. i[t] : heap[items][k] # arg[t]
        /\ pc[t] \in {"grow", "count"} => \A k \in 1 .. count : heap[items][k] # arg[t]
        /\ pc[t] \in Moving => \A k \in 1 .. count : heap[ptr[t]][k] # arg[t]
        /\ pc[t] = "set" => \A k \in 1 .. count - 1 : heap[items][k] # arg[t]
        /\ pc[t] \in Adding => want[t] = "add"

Answering ==
    /\ answer \in [Thread -> {"pending", "listed", "unlisted", "added", "short", "unlocked"}]
    /\ \A t \in Thread : answer[t] = "pending" <=> pc[t] \notin {"idle", "unlock"}

Inv2 == Inv /\ Searched /\ Answering

LEMMA InitInv2 == Init => Inv2
  BY InitInv DEF Init, Inv2, Searched, Answering, Adding, Moving

LEMMA LockStepInv2 ==
    ASSUME Inv2, NEW t \in Thread, LockSteps(t)
    PROVE  Inv2'
<1>1. Inv'
  BY LockStepInv DEF Inv2
<1> SUFFICES Searched' /\ Answering'
  BY <1>1 DEF Inv2
<1> USE DEF Inv2, Inv, TypeOK, Searched, Answering, Adding, Moving, Goto, Answer, shared, call
<1>2. ASSUME NEW what \in {"check", "add"}, NEW a \in Ip, Call(t, what, a)
      PROVE  Searched' /\ Answering'
  BY <1>2 DEF Call
<1>3. CASE LockFails(t)
  BY <1>3 DEF LockFails
<1>4. CASE ReadLock(t)
  BY <1>4 DEF ReadLock, Locked
<1>5. CASE WriteLock(t)
  BY <1>5 DEF WriteLock, Locked
<1>6. CASE Unlock(t)
  BY <1>6 DEF Unlock
<1> QED
  BY <1>2, <1>3, <1>4, <1>5, <1>6 DEF LockSteps

LEMMA ListStepInv2 ==
    ASSUME Inv2, NEW t \in Thread, ListSteps(t)
    PROVE  Inv2'
<1>1. Inv'
  BY ListStepInv DEF Inv2
<1>2. ASSUME pc[t] \in Adding
      PROVE  \A u \in Thread \ {t} : pc[u] \notin {"look", "compare"} \cup Adding
  BY <1>2, AddingAlone DEF Inv2
<1> SUFFICES Searched' /\ Answering'
  BY <1>1 DEF Inv2
<1> USE DEF Inv2, Inv, TypeOK, Searched, Answering, Adding, Moving, Goto, Answer, shared, call
<1>3. CASE Look(t)
  BY <1>3 DEF Look
<1>4. CASE LookEnds(t)
  <2>1. want[t] \in {"check", "add"}
    OBVIOUS
  <2>2. CASE want[t] = "check"
    BY <1>4, <2>2 DEF LookEnds
  <2>3. CASE want[t] = "add"
    BY <1>4, <2>3 DEF LookEnds
  <2> QED
    BY <2>1, <2>2, <2>3
<1>5. CASE Compare(t)
  <2>1. ptr[t] = items /\ i[t] < count
    BY <1>5 DEF Compare, Pointers
  <2>2. CASE heap[items][i[t] + 1] = arg[t]
    BY <1>5, <2>1, <2>2 DEF Compare
  <2>3. CASE heap[items][i[t] + 1] # arg[t]
    <3>1. \A k \in 1 .. i[t] + 1 : heap[items][k] # arg[t]
      BY <1>5, <2>3 DEF Compare
    <3> QED
      BY <1>5, <2>1, <2>3, <3>1 DEF Compare
  <2> QED
    BY <2>2, <2>3
<1>6. CASE HasRoom(t)
  BY <1>6 DEF HasRoom
<1>7. ASSUME NEW b \in Block, Realloc(t, b) PROVE Searched' /\ Answering'
  <2>1. heap'[b] = Enlarged /\ count = capa
    BY <1>7 DEF Realloc
  <2>2. \A k \in 1 .. count : heap'[b][k] = heap[items][k]
    BY <2>1, AuthListAssumption DEF Enlarged
  <2>3. /\ pc[t] = "grow" /\ pc' = [pc EXCEPT ![t] = "capa"] /\ ptr' = [ptr EXCEPT ![t] = b]
        /\ UNCHANGED <<items, count, call, i, answer>>
    BY <1>7 DEF Realloc
  <2>4. \A u \in Thread \ {t} : pc'[u] = pc[u] /\ pc[u] \notin {"look", "compare"} \cup Adding
    BY <1>2, <2>3
  <2>5. pc'[t] = "capa" /\ ptr'[t] = b /\ \A k \in 1 .. count : heap'[ptr'[t]][k] # arg[t]
    BY <2>2, <2>3
  <2>6. Searched'
    BY <2>3, <2>4, <2>5
  <2>7. Answering'
    BY <2>3, <2>4
  <2> QED
    BY <2>6, <2>7
<1>8. CASE ReallocFails(t)
  BY <1>2, <1>8 DEF ReallocFails
<1>9. CASE SetCapa(t)
  BY <1>2, <1>9 DEF SetCapa
<1>10. CASE SetItems(t)
  BY <1>2, <1>10 DEF SetItems
<1>11. CASE Count(t)
  BY <1>2, <1>11 DEF Count
<1>12. CASE Set(t)
  BY <1>2, <1>12 DEF Set
<1> QED
  BY <1>3, <1>4, <1>5, <1>6, <1>7, <1>8, <1>9, <1>10, <1>11, <1>12 DEF ListSteps

LEMMA Invariance2 == Spec => []Inv2
<1>1. ASSUME Inv2, UNCHANGED vars PROVE Inv2'
  BY <1>1 DEF vars, shared, call, Inv2, Inv, TypeOK, Exclusion, Representation, Pointers, Holds,
              Searched, Answering
<1>2. Inv2 /\ [Next]_vars => Inv2'
  BY <1>1, LockStepInv2, ListStepInv2 DEF Next
<1> QED
  BY <1>2, InitInv2, PTL DEF Spec

-----------------------------------------------------------------------------
\* Where the abstract list is found in each state.
Mapped ==
    /\ \A t \in Thread : pc[t] \in Moving => Base = ptr[t] /\ Written = count
    /\ \A t \in Thread : pc[t] = "set" => Base = items /\ Written = count - 1
    /\ (\A t \in Thread : pc[t] \notin Moving \cup {"set"}) => Base = items /\ Written = count

LEMMA Mapping == Inv => Mapped
<1> SUFFICES ASSUME Inv PROVE Mapped
  OBVIOUS
<1>1. \A t, u \in Thread : pc[t] \in Adding /\ pc[u] \in Adding => t = u
  BY AddingAlone
<1>2. ASSUME NEW t \in Thread, pc[t] \in Moving PROVE Base = ptr[t] /\ Written = count
  <2>1. (CHOOSE u \in Thread : pc[u] \in Moving) = t
    BY <1>1, <1>2 DEF Moving, Adding
  <2>2. \A u \in Thread : pc[u] # "set"
    BY <1>1, <1>2 DEF Moving, Adding
  <2> QED
    BY <1>2, <2>1, <2>2 DEF Base, Written, Moving
<1>3. ASSUME NEW t \in Thread, pc[t] = "set" PROVE Base = items /\ Written = count - 1
  <2>1. \A u \in Thread : pc[u] \notin Moving
    BY <1>1, <1>3 DEF Moving, Adding
  <2> QED
    BY <1>3, <2>1 DEF Base, Written, Moving
<1>4. ASSUME \A t \in Thread : pc[t] \notin Moving \cup {"set"} PROVE Base = items /\ Written = count
  BY <1>4 DEF Base, Written, Moving
<1> QED
  BY <1>2, <1>3, <1>4 DEF Mapped

LEMMA MappingNext == Inv' => Mapped'
  BY Mapping, PTL

\* A step that is not one of sblist_add's leaves the abstract list alone.
LEMMA Frame ==
    ASSUME Inv, Inv', NEW t \in Thread,
           pc[t] \notin Moving \cup {"set"}, pc'[t] \notin Moving \cup {"set"},
           \A u \in Thread \ {t} : pc'[u] = pc[u] /\ ptr'[u] = ptr[u],
           UNCHANGED <<items, count, heap>>
    PROVE  UNCHANGED Addresses
<1>1. CASE \A u \in Thread : pc[u] \notin Moving \cup {"set"}
  <2>1. \A u \in Thread : pc'[u] \notin Moving \cup {"set"}
    BY <1>1
  <2>2. Base' = items' /\ Written' = count'
    BY <2>1, MappingNext DEF Mapped
  <2> QED
    BY <1>1, <2>2, Mapping DEF Addresses, Mapped
<1>2. ASSUME NEW u \in Thread, pc[u] \in Moving \cup {"set"} PROVE UNCHANGED Addresses
  <2>1. Base' = Base /\ Written' = Written
    BY <1>2, Mapping, MappingNext DEF Mapped, Moving
  <2> QED
    BY <2>1 DEF Addresses
<1> QED
  BY <1>1, <1>2

LEMMA FunctionIsSeq ==
    ASSUME NEW S, NEW n \in Nat, NEW f \in [1 .. n -> S]
    PROVE  f \in Seq(S) /\ Len(f) = n
<1>1. f \in Seq(S)
  BY SeqDef
<1> QED
  BY <1>1, LenProperties

\* the abstract list of one writer's state
LEMMA AddressesAre ==
    ASSUME NEW n \in Nat, NEW b, Written = n, Base = b
    PROVE  DOMAIN Addresses = 1 .. n /\ \A k \in 1 .. n : Addresses[k] = heap[b][k]
  BY DEF Addresses

LEMMA LockStepImplementsWhitelist ==
    ASSUME Inv2, Inv2', NEW t \in Thread, LockSteps(t)
    PROVE  [List!Next]_List!vars
<1> USE DEF Inv2, Inv, TypeOK, Goto, Answer, shared, call
<1>1. ASSUME /\ pc[t] \notin Moving \cup {"set"} /\ pc'[t] \notin Moving \cup {"set"}
             /\ \A u \in Thread \ {t} : pc'[u] = pc[u] /\ ptr'[u] = ptr[u]
             /\ UNCHANGED <<items, count, heap>>
      PROVE  UNCHANGED Addresses
  BY <1>1, Frame
<1>2. ASSUME NEW what \in {"check", "add"}, NEW a \in Ip, Call(t, what, a) PROVE List!Next
  <2>1. UNCHANGED Addresses
    BY <1>1, <1>2 DEF Call, Moving
  <2>2. answer[t] # "pending"
    BY <1>2 DEF Call, Answering
  <2> QED
    BY <1>2, <2>1, <2>2 DEF Call, List!Next, List!Call
<1>3. CASE LockFails(t)
  <2>1. UNCHANGED Addresses
    BY <1>1, <1>3 DEF LockFails, Moving
  <2>2. answer[t] = "pending"
    BY <1>3 DEF LockFails, Answering
  <2> QED
    BY <1>3, <2>1, <2>2 DEF LockFails, List!Next, List!Unlocked, List!Return
<1>4. CASE ReadLock(t) \/ WriteLock(t)
  <2>1. UNCHANGED Addresses
    BY <1>1, <1>4 DEF ReadLock, WriteLock, Locked, Moving
  <2> QED
    BY <1>4, <2>1 DEF ReadLock, WriteLock, Locked, List!vars
<1>5. CASE Unlock(t)
  <2>1. UNCHANGED Addresses
    BY <1>1, <1>5 DEF Unlock, Moving
  <2> QED
    BY <1>5, <2>1 DEF Unlock, List!vars
<1> QED
  BY <1>2, <1>3, <1>4, <1>5 DEF LockSteps

LEMMA SearchStepImplementsWhitelist ==
    ASSUME Inv2, Inv2', NEW t \in Thread,
           Look(t) \/ LookEnds(t) \/ Compare(t) \/ HasRoom(t) \/ ReallocFails(t)
    PROVE  [List!Next]_List!vars
<1> USE DEF Inv2, Inv, TypeOK, Goto, Answer, shared, call
<1>1. UNCHANGED Addresses
  <2>1. /\ pc[t] \notin Moving \cup {"set"} /\ pc'[t] \notin Moving \cup {"set"}
        /\ \A u \in Thread \ {t} : pc'[u] = pc[u] /\ ptr'[u] = ptr[u]
        /\ UNCHANGED <<items, count, heap>>
    BY DEF Look, LookEnds, Compare, HasRoom, ReallocFails, Moving
  <2> QED
    BY <2>1, Frame
<1>2. \A u \in Thread : pc[u] \notin Moving \cup {"set"}
  <2>1. pc[t] \in {"look", "compare", "grow"}
    BY DEF Look, LookEnds, Compare, HasRoom, ReallocFails
  <2> QED
    BY <2>1, LookingUndisturbed, AddingAlone DEF Moving, Adding
<1>3. DOMAIN Addresses = 1 .. count /\ \A k \in 1 .. count : Addresses[k] = heap[items][k]
  BY <1>2, Mapping, AddressesAre DEF Mapped
<1>4. answer[t] = "pending"
  BY DEF Look, LookEnds, Compare, HasRoom, ReallocFails, Answering
<1>5. CASE Look(t) \/ HasRoom(t)
  BY <1>1, <1>5 DEF Look, HasRoom, List!vars
<1>6. CASE LookEnds(t) /\ want[t] = "check"
  <2>1. i[t] = count /\ \A k \in 1 .. count : heap[items][k] # arg[t]
    BY <1>6 DEF LookEnds, Searched
  <2>2. ~List!Listed(arg[t])
    BY <1>3, <2>1 DEF List!Listed
  <2> QED
    BY <1>1, <1>4, <1>6, <2>2 DEF LookEnds, List!Next, List!Miss, List!Return
<1>7. CASE LookEnds(t) /\ want[t] # "check"
  BY <1>1, <1>7 DEF LookEnds, List!vars
<1>8. CASE Compare(t) /\ heap[ptr[t]][i[t] + 1] = arg[t]
  <2>1. ptr[t] = items /\ i[t] + 1 \in 1 .. count
    BY <1>8 DEF Compare, Pointers
  <2>2. List!Listed(arg[t])
    BY <1>3, <1>8, <2>1 DEF List!Listed
  <2> QED
    BY <1>1, <1>4, <1>8, <2>2 DEF Compare, List!Next, List!Find, List!Return
<1>9. CASE Compare(t) /\ heap[ptr[t]][i[t] + 1] # arg[t]
  BY <1>1, <1>9 DEF Compare, List!vars
<1>10. CASE ReallocFails(t)
  <2>1. want[t] = "add" /\ \A k \in 1 .. count : heap[items][k] # arg[t]
    BY <1>10 DEF ReallocFails, Searched, Adding
  <2>2. ~List!Listed(arg[t])
    BY <1>3, <2>1 DEF List!Listed
  <2> QED
    BY <1>1, <1>4, <1>10, <2>1, <2>2 DEF ReallocFails, List!Next, List!Add, List!Return
<1> QED
  BY <1>5, <1>6, <1>7, <1>8, <1>9, <1>10

LEMMA AddStepImplementsWhitelist ==
    ASSUME Inv2, Inv2', NEW t \in Thread,
           (\E b \in Block : Realloc(t, b)) \/ SetCapa(t) \/ SetItems(t) \/ Count(t) \/ Set(t)
    PROVE  [List!Next]_List!vars
<1> USE DEF Inv2, Inv, TypeOK, Goto, Answer, shared, call
<1>1. Mapped /\ Mapped'
  BY Mapping, MappingNext
<1>2. pc[t] \in Adding
  BY DEF Realloc, SetCapa, SetItems, Count, Set, Adding
<1>3. \A u \in Thread \ {t} : pc[u] \notin Adding /\ pc'[u] = pc[u]
  BY <1>2, AddingAlone DEF Realloc, SetCapa, SetItems, Count, Set
<1>4. ASSUME NEW b \in Block, Realloc(t, b) PROVE UNCHANGED Addresses
  <2>1. Written = count /\ Base = items
    BY <1>1, <1>3, <1>4 DEF Mapped, Realloc, Moving, Adding
  <2>2. Written' = count /\ Base' = b
    BY <1>1, <1>4 DEF Mapped, Realloc, Moving
  <2>3. \A k \in 1 .. count : heap'[b][k] = heap[items][k]
    BY <1>4, AuthListAssumption DEF Realloc, Enlarged
  <2> QED
    BY <2>1, <2>2, <2>3 DEF Addresses
<1>5. CASE SetCapa(t)
  BY <1>1, <1>5 DEF Mapped, SetCapa, Moving, Addresses, List!vars
<1>6. CASE SetItems(t)
  <2>1. Written = count /\ Base = ptr[t]
    BY <1>1, <1>6 DEF Mapped, SetItems, Moving
  <2>2. \A u \in Thread : pc'[u] \notin Moving \cup {"set"}
    BY <1>3, <1>6 DEF SetItems, Moving, Adding
  <2>3. Written' = count /\ Base' = ptr[t]
    BY <1>1, <1>6, <2>2 DEF Mapped, SetItems
  <2> QED
    BY <1>6, <2>1, <2>3 DEF SetItems, Addresses, List!vars
<1>7. CASE Count(t)
  <2>1. \A u \in Thread : pc[u] \notin Moving \cup {"set"}
    BY <1>3, <1>7 DEF Count, Moving, Adding
  <2>2. Written = count /\ Base = items
    BY <1>1, <2>1 DEF Mapped
  <2>3. Written' = count /\ Base' = items
    BY <1>1, <1>7 DEF Mapped, Count
  <2> QED
    BY <1>7, <2>2, <2>3 DEF Count, Addresses, List!vars
<1>8. CASE Set(t)
  <2> DEFINE n == count - 1
  <2>1. /\ n \in Nat /\ count = n + 1 /\ Holds(items, capa, n) /\ count <= capa
    BY <1>8 DEF Set, Representation
  <2>2. \A u \in Thread : pc'[u] \notin Moving \cup {"set"}
    BY <1>3, <1>8 DEF Set, Moving, Adding
  <2>3. /\ heap'[items] = [heap[items] EXCEPT ![count] = arg[t]]
        /\ UNCHANGED <<items, count>>
    BY <1>8, <2>1 DEF Set, Holds
  <2>4. /\ heap'[items][n + 1] = arg[t]
        /\ \A k \in 1 .. n : heap'[items][k] = heap[items][k]
    BY <2>1, <2>3 DEF Holds
  <2>5. Written = n /\ Base = items
    BY <1>1, <1>8 DEF Mapped, Set
  <2>6. Written' = n + 1 /\ Base' = items
    BY <1>1, <2>1, <2>2, <2>3 DEF Mapped
  <2> HIDE DEF n
  <2>7. Addresses = [k \in 1 .. n |-> heap[items][k]]
    BY <2>5 DEF Addresses
  <2>8. Addresses' = [k \in 1 .. n + 1 |-> heap'[items][k]]
    BY <2>6 DEF Addresses
  <2>9. Addresses \in [1 .. n -> Ip] /\ arg[t] \in Ip
    BY <2>1, <2>7 DEF Holds
  <2>10. Addresses \in Seq(Ip) /\ Len(Addresses) = n
    BY <2>1, <2>9, FunctionIsSeq
  <2>11. \A k \in 1 .. n + 1 : heap'[items][k] \in Ip
    <3> TAKE k \in 1 .. n + 1
    <3>1. CASE k = n + 1
      BY <2>4, <2>9, <3>1
    <3>2. CASE k # n + 1
      <4>1. k \in 1 .. n
        BY <2>1, <3>2
      <4> QED
        BY <2>4, <2>7, <2>9, <4>1
    <3> QED
      BY <3>1, <3>2
  <2>12. Addresses' \in Seq(Ip) /\ Len(Addresses') = n + 1
    <3>1. n + 1 \in Nat /\ Addresses' \in [1 .. n + 1 -> Ip]
      BY <2>1, <2>8, <2>11
    <3> QED
      BY <3>1, FunctionIsSeq
  <2>13. /\ Append(Addresses, arg[t]) \in Seq(Ip) /\ Len(Append(Addresses, arg[t])) = n + 1
         /\ \A k \in 1 .. n : Append(Addresses, arg[t])[k] = Addresses[k]
         /\ Append(Addresses, arg[t])[n + 1] = arg[t]
    BY <2>9, <2>10, AppendProperties
  <2>14. \A k \in 1 .. n + 1 : Addresses'[k] = Append(Addresses, arg[t])[k]
    <3> TAKE k \in 1 .. n + 1
    <3>1. Addresses'[k] = heap'[items][k]
      BY <2>8
    <3>2. CASE k = n + 1
      BY <2>4, <2>13, <3>1, <3>2
    <3>3. CASE k # n + 1
      <4>1. k \in 1 .. n
        BY <2>1, <3>3
      <4>2. Addresses[k] = heap[items][k] /\ heap'[items][k] = heap[items][k]
        BY <2>4, <2>7, <4>1
      <4> QED
        BY <2>13, <3>1, <4>1, <4>2
    <3> QED
      BY <3>2, <3>3
  <2>15. Addresses' = Append(Addresses, arg[t])
    BY <2>12, <2>13, <2>14, SeqEqual
  <2>16. want[t] = "add" /\ ~List!Listed(arg[t])
    <3>1. \A k \in 1 .. n : heap[items][k] # arg[t]
      <4>1. pc[t] = "set"
        BY <1>8 DEF Set
      <4>2. \A k \in 1 .. count - 1 : heap[items][k] # arg[t]
        BY <4>1 DEF Searched
      <4> QED
        BY <4>2 DEF n
    <3>2. want[t] = "add"
      BY <1>8 DEF Set, Searched, Adding
    <3>3. \A k \in 1 .. n : Addresses[k] = heap[items][k]
      BY <2>7
    <3>4. DOMAIN Addresses = 1 .. n
      BY <2>7
    <3>5. \A k \in DOMAIN Addresses : Addresses[k] # arg[t]
      BY <3>1, <3>3, <3>4
    <3> QED
      BY <3>2, <3>5 DEF List!Listed
  <2>17. answer[t] = "pending"
    BY <1>8 DEF Set, Answering
  <2> QED
    BY <1>8, <2>15, <2>16, <2>17 DEF Set, List!Next, List!Add, List!Return
<1>9. ASSUME NEW b \in Block, Realloc(t, b) PROVE UNCHANGED List!vars
  BY <1>4, <1>9 DEF Realloc, List!vars
<1> QED
  BY <1>5, <1>6, <1>7, <1>8, <1>9

\* Every answer is true of the list at a moment of the call, no address is
\* entered twice and none is lost: ClientSession may ask and extend the list in
\* one step.
THEOREM ImplementsWhitelist == Spec => WhitelistSpec
<1>1. Init => List!Init
  <2> SUFFICES ASSUME Init PROVE List!Init
    OBVIOUS
  <2>1. Written = 0
    BY DEF Init, Written
  <2>2. Addresses \in [1 .. 0 -> Ip]
    BY <2>1 DEF Addresses
  <2>3. Addresses \in Seq(Ip) /\ Len(Addresses) = 0
    BY <2>2, SeqDef, LenProperties
  <2>4. Addresses = <<>>
    BY <2>3, EmptySeq
  <2> QED
    BY <2>4 DEF Init, List!Init
<1>2. Inv2 /\ Inv2' /\ [Next]_vars => [List!Next]_List!vars
  <2> SUFFICES ASSUME Inv2, Inv2', [Next]_vars PROVE [List!Next]_List!vars
    OBVIOUS
  <2>1. CASE UNCHANGED vars
    BY <2>1 DEF vars, shared, call, List!vars, Addresses, Written, Base
  <2>2. ASSUME NEW t \in Thread, ListSteps(t) PROVE [List!Next]_List!vars
    BY <2>2, SearchStepImplementsWhitelist, AddStepImplementsWhitelist DEF ListSteps
  <2>3. ASSUME NEW t \in Thread, LockSteps(t) PROVE [List!Next]_List!vars
    BY <2>3, LockStepImplementsWhitelist
  <2> QED
    BY <2>1, <2>2, <2>3 DEF Next
<1> QED
  BY <1>1, <1>2, Invariance2, PTL DEF Spec, WhitelistSpec, List!Spec
=============================================================================
