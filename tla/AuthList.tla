------------------------------ MODULE AuthList ------------------------------
(***************************************************************************)
(* The list of auth-once mode as the client threads share it: auth_ips, an *)
(* sblist in one block of memory that realloc moves, guarded by the        *)
(* read-write lock auth_ips_lock.  check_auth_method walks it under the    *)
(* read lock; clientthread searches and extends it under the write lock.   *)
(* Every read and write of shared memory is a step of its own.             *)
(*                                                                         *)
(* Abstracted: an address is a cell (memcmp and memcpy of it are one       *)
(* step); malloc and the lock behave as POSIX says.  Threads come and go   *)
(* with their clients: a thread here stands for one session after another. *)
(***************************************************************************)
EXTENDS Integers, Sequences

CONSTANTS
    Thread,      \* client threads
    Ip,          \* addresses of clients
    Block,       \* places for a block of memory
    BlockItems,  \* blockitems
    NoThread, NoBlock, Garbage

ASSUME AuthListAssumption ==
    /\ BlockItems \in Nat \ {0}
    /\ NoThread \notin Thread
    /\ NoBlock \notin Block
    /\ Garbage \notin Ip

VARIABLES
    readers, writer,       \* auth_ips_lock
    items, capa, count,    \* members of auth_ips
    heap,                  \* the cells of each block; none when it is not allocated
    pc,                    \* where each thread is
    want, arg,             \* what it does, for which address
    i,                     \* its index in is_in_authed_list, from 0
    ptr,                   \* the block it works on: base of item2, temp
    answer                 \* what came of it

shared == <<readers, writer, items, capa, count, heap>>
call == <<want, arg>>
vars == <<shared, pc, call, i, ptr, answer>>

Init ==
    /\ readers = {} /\ writer = NoThread
    /\ items = NoBlock /\ capa = 0 /\ count = 0
    /\ heap = [b \in Block |-> <<>>]
    /\ pc = [t \in Thread |-> "idle"]
    /\ want \in [Thread -> {"check", "add"}]
    /\ arg \in [Thread -> Ip]
    /\ i = [t \in Thread |-> 0]
    /\ ptr = [t \in Thread |-> NoBlock]
    /\ answer = [t \in Thread |-> "unlocked"]

Goto(t, label) == pc' = [pc EXCEPT ![t] = label]
Answer(t, result) == answer' = [answer EXCEPT ![t] = result]

-----------------------------------------------------------------------------
\* The lock

\* an offer of no-auth is examined, or credentials were right
Call(t, what, a) ==
    /\ pc[t] = "idle"
    /\ want' = [want EXCEPT ![t] = what]
    /\ arg' = [arg EXCEPT ![t] = a]
    /\ Answer(t, "pending")
    /\ Goto(t, "lock")
    /\ UNCHANGED <<shared, i, ptr>>

LockFails(t) ==
    /\ pc[t] = "lock"
    /\ Answer(t, "unlocked")
    /\ Goto(t, "idle")
    /\ UNCHANGED <<shared, call, i, ptr>>

\* is_in_authed_list is entered
Locked(t) ==
    /\ i' = [i EXCEPT ![t] = 0]
    /\ Goto(t, "look")
    /\ UNCHANGED <<items, capa, count, heap, call, ptr, answer>>

\* mutant: the list is read without the lock
ReadLockNone(t) ==
    /\ pc[t] = "lock" /\ want[t] = "check"
    /\ UNCHANGED <<readers, writer>>
    /\ Locked(t)

ReadLock(t) ==
    /\ pc[t] = "lock" /\ want[t] = "check"
    /\ writer = NoThread
    /\ readers' = readers \cup {t}
    /\ UNCHANGED writer
    /\ Locked(t)

\* mutant: the list is extended under the read lock
WriteLockShared(t) ==
    /\ pc[t] = "lock" /\ want[t] = "add"
    /\ writer = NoThread
    /\ readers' = readers \cup {t}
    /\ UNCHANGED writer
    /\ Locked(t)

WriteLock(t) ==
    /\ pc[t] = "lock" /\ want[t] = "add"
    /\ writer = NoThread /\ readers = {}
    /\ writer' = t
    /\ UNCHANGED readers
    /\ Locked(t)

Unlock(t) ==
    /\ pc[t] = "unlock"
    /\ readers' = readers \ {t}
    /\ writer' = IF writer = t THEN NoThread ELSE writer
    /\ Goto(t, "idle")
    /\ UNCHANGED <<items, capa, count, heap, call, i, ptr, answer>>

-----------------------------------------------------------------------------
\* is_in_authed_list

\* sblist_getsize and sblist_get: the pointer to the next item
Look(t) ==
    /\ pc[t] = "look"
    /\ i[t] < count
    /\ ptr' = [ptr EXCEPT ![t] = items]
    /\ Goto(t, "compare")
    /\ UNCHANGED <<shared, call, i, answer>>

LookEnds(t) ==
    /\ pc[t] = "look"
    /\ i[t] >= count
    /\ IF want[t] = "check"
       THEN Answer(t, "unlisted") /\ Goto(t, "unlock")
       ELSE UNCHANGED answer /\ Goto(t, "grow")
    /\ UNCHANGED <<shared, call, i, ptr>>

\* is_authed through the pointer
Compare(t) ==
    /\ pc[t] = "compare"
    /\ IF heap[ptr[t]][i[t] + 1] = arg[t]
       THEN Answer(t, "listed") /\ Goto(t, "unlock") /\ UNCHANGED i
       ELSE i' = [i EXCEPT ![t] = @ + 1] /\ Goto(t, "look") /\ UNCHANGED answer
    /\ UNCHANGED <<shared, call, ptr>>

-----------------------------------------------------------------------------
\* sblist_add

HasRoom(t) ==
    /\ pc[t] = "grow"
    /\ count # capa
    /\ Goto(t, "count")
    /\ UNCHANGED <<shared, call, i, ptr, answer>>

\* realloc: the cells of a block that is BlockItems larger
Enlarged ==
    [k \in 1 .. capa + BlockItems |-> IF k <= capa THEN heap[items][k] ELSE Garbage]

\* in another place, or where the block is
Realloc(t, b) ==
    /\ pc[t] = "grow"
    /\ count = capa
    /\ b = items \/ heap[b] = <<>>
    /\ heap' = [c \in Block |-> IF c = b THEN Enlarged ELSE IF c = items THEN <<>> ELSE heap[c]]
    /\ ptr' = [ptr EXCEPT ![t] = b]
    /\ Goto(t, "capa")
    /\ UNCHANGED <<readers, writer, items, capa, count, call, i, answer>>

ReallocFails(t) ==
    /\ pc[t] = "grow"
    /\ count = capa
    /\ Answer(t, "short")
    /\ Goto(t, "unlock")
    /\ UNCHANGED <<shared, call, i, ptr>>

SetCapa(t) ==
    /\ pc[t] = "capa"
    /\ capa' = capa + BlockItems
    /\ Goto(t, "items")
    /\ UNCHANGED <<readers, writer, items, count, heap, call, i, ptr, answer>>

SetItems(t) ==
    /\ pc[t] = "items"
    /\ items' = ptr[t]
    /\ Goto(t, "count")
    /\ UNCHANGED <<readers, writer, capa, count, heap, call, i, ptr, answer>>

Count(t) ==
    /\ pc[t] = "count"
    /\ count' = count + 1
    /\ Goto(t, "set")
    /\ UNCHANGED <<readers, writer, items, capa, heap, call, i, ptr, answer>>

\* sblist_set
Set(t) ==
    /\ pc[t] = "set"
    /\ heap' = [heap EXCEPT ![items][count] = arg[t]]
    /\ Answer(t, "added")
    /\ Goto(t, "unlock")
    /\ UNCHANGED <<readers, writer, items, capa, count, call, i, ptr>>

-----------------------------------------------------------------------------
LockSteps(t) ==
    \/ \E what \in {"check", "add"}, a \in Ip : Call(t, what, a)
    \/ LockFails(t) \/ ReadLock(t) \/ WriteLock(t) \/ Unlock(t)

ListSteps(t) ==
    \/ Look(t) \/ LookEnds(t) \/ Compare(t)
    \/ HasRoom(t) \/ (\E b \in Block : Realloc(t, b)) \/ ReallocFails(t)
    \/ SetCapa(t) \/ SetItems(t) \/ Count(t) \/ Set(t)

Next == \E t \in Thread : LockSteps(t) \/ ListSteps(t)

Spec == Init /\ [][Next]_vars

-----------------------------------------------------------------------------
\* A pointer into the list is followed only while its block is allocated, its
\* place is in use and something has been written there, although realloc
\* moves the block and sblist_add counts an item before it writes it.
NoStaleAccess ==
    \A t \in Thread :
        /\ pc[t] = "compare" =>
              /\ ptr[t] \in Block
              /\ i[t] + 1 \in DOMAIN heap[ptr[t]]
              /\ heap[ptr[t]][i[t] + 1] # Garbage
        /\ pc[t] = "set" => items \in Block /\ count \in DOMAIN heap[items]

\* To the client threads the list is a set that is asked and extended in one
\* step: an answer is true of the list at some moment of the call, and no
\* address is entered twice or lost.
Written == IF \E t \in Thread : pc[t] = "set" THEN count - 1 ELSE count
Base == IF \E t \in Thread : pc[t] \in {"capa", "items"}
        THEN ptr[CHOOSE t \in Thread : pc[t] \in {"capa", "items"}]
        ELSE items
Addresses == [k \in 1 .. Written |-> heap[Base][k]]
List == INSTANCE Whitelist WITH list <- Addresses
WhitelistSpec == List!Spec

=============================================================================
