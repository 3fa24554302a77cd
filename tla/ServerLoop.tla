----------------------------- MODULE ServerLoop -----------------------------
(***************************************************************************)
(* The accepting thread: socks_main of sockssrv.c once its arguments are   *)
(* parsed, with server_setup and server_waitclient of server.c, and the    *)
(* beginning and the end of the client threads it starts.  Main owns the   *)
(* list of thread structures and joins and frees the finished ones before  *)
(* every accept; a client thread writes only the done flag of its own.     *)
(*                                                                         *)
(* Abstracted: what a client thread does between its start and breakloop   *)
(* (ClientSession), usleep after a failure, the attributes of threads.     *)
(* done is read and written in one piece and its new value is seen.        *)
(***************************************************************************)
EXTENDS Naturals, Sequences

CONSTANTS
    Client,      \* applications that connect, one connection at a time each
    Thread,      \* bound: the structures malloc can hand out
    Fd,          \* bound: the descriptors the process can have open
    NoClient,    \* "this descriptor is not open"
    NoFd         \* content of a structure that was never used

ASSUME ServerAssumption == NoClient \notin Client /\ NoFd \notin Fd

VARIABLES
    pc,          \* where main is
    threads,     \* threads: pointers to the structures
    i,           \* the index in collect
    curr,        \* curr
    heap,        \* the structures that are allocated
    done, fd,    \* members done and client.fd; memory keeps its content when freed
    run,         \* where the thread of a structure is
    conn,        \* kernel: the client at the other end of each open descriptor
    backlog,     \* kernel: connections waiting to be accepted
    doneBefore   \* history: the structures marked done when collect was entered

mainVars == <<pc, threads, i, curr, heap, doneBefore>>
vars == <<mainVars, done, fd, run, conn, backlog>>

Listed == {threads[k] : k \in DOMAIN threads}

TypeOK ==
    /\ pc \in {"setup", "failed", "collect", "allocate", "accept", "add", "spawn"}
    /\ threads \in Seq(Thread)
    /\ i \in Nat /\ (pc = "collect" => i \in 1 .. Len(threads) + 1)
    /\ curr \in Thread
    /\ heap \subseteq Thread
    /\ done \in [Thread -> BOOLEAN]
    /\ fd \in [Thread -> Fd \cup {NoFd}]
    /\ run \in [Thread -> {"none", "running", "closed", "marked", "returned"}]
    /\ conn \in [Fd -> Client \cup {NoClient}]
    /\ backlog \in Seq(Client)
    /\ doneBefore \subseteq Thread

Init ==
    /\ pc = "setup"
    /\ threads = <<>>
    /\ i = 1
    /\ curr \in Thread
    /\ heap = {}
    /\ done = [t \in Thread |-> FALSE]
    /\ fd = [t \in Thread |-> NoFd]
    /\ run = [t \in Thread |-> "none"]
    /\ conn = [f \in Fd |-> NoClient]
    /\ backlog = <<>>
    /\ doneBefore = {}

-----------------------------------------------------------------------------
\* Main

\* sblist_delete: the pointers behind the deleted one move up
Deleted(list, k) == [j \in 1 .. Len(list) - 1 |-> IF j < k THEN list[j] ELSE list[j + 1]]

Close(f) == conn' = [conn EXCEPT ![f] = NoClient]

\* the head of the while loop
EnterCollect ==
    /\ pc' = "collect"
    /\ i' = 1
    /\ doneBefore' = {t \in Listed : done[t]}

\* server_setup; the ready event is emitted
SetupSucceeds ==
    /\ pc = "setup"
    /\ EnterCollect
    /\ UNCHANGED <<threads, curr, heap, done, fd, run, conn, backlog>>

\* the address does not resolve, bind or listen fails: socks_main returns 1
SetupFails ==
    /\ pc = "setup"
    /\ pc' = "failed"
    /\ UNCHANGED <<threads, i, curr, heap, doneBefore, done, fd, run, conn, backlog>>

\* mutant: the index moves on although the next pointer has moved up
CollectReapsMovesOn ==
    /\ pc = "collect" /\ i <= Len(threads)
    /\ done[threads[i]] /\ run[threads[i]] = "returned"
    /\ heap' = heap \ {threads[i]}
    /\ run' = [run EXCEPT ![threads[i]] = "none"]
    /\ threads' = Deleted(threads, i)
    /\ i' = i + 1
    /\ UNCHANGED <<pc, curr, doneBefore, done, fd, conn, backlog>>

\* mutant: the structure is freed before the thread is joined
CollectReapsUnjoined ==
    /\ pc = "collect" /\ i <= Len(threads)
    /\ done[threads[i]]
    /\ heap' = heap \ {threads[i]}
    /\ threads' = Deleted(threads, i)
    /\ UNCHANGED <<pc, i, curr, doneBefore, done, fd, run, conn, backlog>>

\* pthread_join returns when the thread has; then the structure is freed
CollectReaps ==
    /\ pc = "collect" /\ i <= Len(threads)
    /\ done[threads[i]] /\ run[threads[i]] = "returned"
    /\ heap' = heap \ {threads[i]}
    /\ run' = [run EXCEPT ![threads[i]] = "none"]
    /\ threads' = Deleted(threads, i)
    /\ UNCHANGED <<pc, i, curr, doneBefore, done, fd, conn, backlog>>

CollectSkips ==
    /\ pc = "collect" /\ i <= Len(threads)
    /\ ~done[threads[i]]
    /\ i' = i + 1
    /\ UNCHANGED <<pc, threads, curr, heap, doneBefore, done, fd, run, conn, backlog>>

\* mutant: the walk stops at the first thread that is still running
CollectEndsEarly ==
    /\ pc = "collect"
    /\ i <= Len(threads) => ~done[threads[i]]
    /\ pc' = "allocate"
    /\ UNCHANGED <<threads, i, curr, heap, doneBefore, done, fd, run, conn, backlog>>

CollectEnds ==
    /\ pc = "collect" /\ i > Len(threads)
    /\ pc' = "allocate"
    /\ UNCHANGED <<threads, i, curr, heap, doneBefore, done, fd, run, conn, backlog>>

\* mutant: done is not initialised; malloc returns memory that was used before
AllocateUninitialised ==
    /\ pc = "allocate"
    /\ \E t \in Thread \ heap :
        /\ curr' = t
        /\ heap' = heap \cup {t}
    /\ pc' = "accept"
    /\ UNCHANGED <<threads, i, doneBefore, done, fd, run, conn, backlog>>

\* malloc and curr->done = 0
Allocate ==
    /\ pc = "allocate"
    /\ \E t \in Thread \ heap :
        /\ curr' = t
        /\ heap' = heap \cup {t}
        /\ done' = [done EXCEPT ![t] = FALSE]
    /\ pc' = "accept"
    /\ UNCHANGED <<threads, i, doneBefore, fd, run, conn, backlog>>

\* goto oom
AllocateFails ==
    /\ pc = "allocate"
    /\ EnterCollect
    /\ UNCHANGED <<threads, curr, heap, done, fd, run, conn, backlog>>

\* server_waitclient blocks until somebody connects
Accept ==
    /\ pc = "accept"
    /\ backlog # <<>>
    /\ \E f \in Fd :
        /\ conn[f] = NoClient
        /\ conn' = [conn EXCEPT ![f] = Head(backlog)]
        /\ fd' = [fd EXCEPT ![curr] = f]
    /\ backlog' = Tail(backlog)
    /\ pc' = "add"
    /\ UNCHANGED <<threads, i, curr, heap, doneBefore, done, run>>

\* mutant: curr is not freed
AcceptFailsLeaks ==
    /\ pc = "accept"
    /\ EnterCollect
    /\ UNCHANGED <<threads, curr, heap, done, fd, run, conn, backlog>>

AcceptFails ==
    /\ pc = "accept"
    /\ heap' = heap \ {curr}
    /\ EnterCollect
    /\ UNCHANGED <<threads, curr, done, fd, run, conn, backlog>>

AddThread ==
    /\ pc = "add"
    /\ threads' = Append(threads, curr)
    /\ pc' = "spawn"
    /\ UNCHANGED <<i, curr, heap, doneBefore, done, fd, run, conn, backlog>>

\* the list cannot grow
AddFails ==
    /\ pc = "add"
    /\ Close(fd[curr])
    /\ heap' = heap \ {curr}
    /\ EnterCollect
    /\ UNCHANGED <<threads, curr, done, fd, run, backlog>>

Spawn ==
    /\ pc = "spawn"
    /\ run' = [run EXCEPT ![curr] = "running"]
    /\ EnterCollect
    /\ UNCHANGED <<threads, curr, heap, done, fd, conn, backlog>>

\* mutant: the descriptor stays open
SpawnFailsKeepsFd ==
    /\ pc = "spawn"
    /\ threads' = Deleted(threads, Len(threads))
    /\ heap' = heap \ {curr}
    /\ EnterCollect
    /\ UNCHANGED <<curr, done, fd, run, conn, backlog>>

\* pthread_create fails: the pointer just added is taken out again
SpawnFails ==
    /\ pc = "spawn"
    /\ Close(fd[curr])
    /\ threads' = Deleted(threads, Len(threads))
    /\ heap' = heap \ {curr}
    /\ EnterCollect
    /\ UNCHANGED <<curr, done, fd, run, backlog>>

-----------------------------------------------------------------------------
\* clientthread at breakloop

ThreadCloses(t) ==
    /\ run[t] = "running"
    /\ Close(fd[t])
    /\ run' = [run EXCEPT ![t] = "closed"]
    /\ UNCHANGED <<mainVars, done, fd, backlog>>

ThreadMarksDone(t) ==
    /\ run[t] = "closed"
    /\ done' = [done EXCEPT ![t] = TRUE]
    /\ run' = [run EXCEPT ![t] = "marked"]
    /\ UNCHANGED <<mainVars, fd, conn, backlog>>

ThreadReturns(t) ==
    /\ run[t] = "marked"
    /\ run' = [run EXCEPT ![t] = "returned"]
    /\ UNCHANGED <<mainVars, done, fd, conn, backlog>>

\* An application connects, if it has no connection that is waiting or served.
Connect(c) ==
    /\ pc \notin {"setup", "failed"}
    /\ \A k \in DOMAIN backlog : backlog[k] # c
    /\ \A f \in Fd : conn[f] # c
    /\ backlog' = Append(backlog, c)
    /\ UNCHANGED <<mainVars, done, fd, run, conn>>

-----------------------------------------------------------------------------
Collect == CollectReaps \/ CollectSkips \/ CollectEnds

Main ==
    \/ SetupSucceeds \/ SetupFails
    \/ Collect
    \/ Allocate \/ AllocateFails
    \/ Accept \/ AcceptFails
    \/ AddThread \/ AddFails
    \/ Spawn \/ SpawnFails

Finish(t) == ThreadMarksDone(t) \/ ThreadReturns(t)

Next ==
    \/ Main
    \/ \E t \in Thread : ThreadCloses(t) \/ Finish(t)
    \/ \E c \in Client : Connect(c)

Spec == Init /\ [][Next]_vars

\* Main keeps running, a thread that has closed its connection returns, and
\* memory and descriptors are not short for ever.  Nothing is assumed of how
\* long a thread serves its client.
FairSpec ==
    /\ Spec
    /\ WF_vars(Main)
    /\ SF_vars(Allocate)
    /\ SF_vars(Accept)
    /\ \A t \in Thread : WF_vars(Finish(t))

-----------------------------------------------------------------------------
Fresh == pc \in {"accept", "add"}                \* curr is not in the list yet
Holds(t) == \/ run[t] = "running"                \* the descriptor of t is its own
            \/ t = curr /\ pc \in {"add", "spawn"}

\* The structures that are allocated are those in the list, each there once,
\* and the one being prepared: none is lost on the failure paths, none is
\* freed while it is listed, and a thread that has been started and not joined
\* yet is on the list with its structure.
StructuresAreListed ==
    /\ \A j, k \in DOMAIN threads : threads[j] = threads[k] => j = k
    /\ heap = Listed \cup (IF Fresh THEN {curr} ELSE {})
    /\ Fresh => curr \notin Listed
    /\ \A t \in Thread : run[t] # "none" => t \in Listed

\* An open descriptor belongs to exactly one structure whose thread has not
\* closed it yet, although threads close while main accepts and descriptors
\* are given out again.
DescriptorsAreOwned ==
    /\ \A f \in Fd : conn[f] # NoClient => \E t \in heap : Holds(t) /\ fd[t] = f
    /\ \A t \in Thread : Holds(t) => fd[t] \in Fd /\ conn[fd[t]] # NoClient
    /\ \A t, u \in Thread : Holds(t) /\ Holds(u) /\ fd[t] = fd[u] => t = u

\* When main goes on to malloc and accept, every thread that was done when
\* collect was entered is joined and freed: deleting while walking the list
\* passes over none.
CollectIsComplete ==
    pc \in {"allocate", "accept"} => doneBefore \cap Listed = {}

\* A waiting connection is accepted in the end: main is held up by join only
\* for threads that are about to return, never for one that serves a client.
ClientIsAccepted ==
    \A c \in Client :
        (\E k \in DOMAIN backlog : backlog[k] = c) ~> (\A k \in DOMAIN backlog : backlog[k] # c)

=============================================================================
