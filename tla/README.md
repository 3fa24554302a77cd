# Verification of TwoSocks

TwoSocks is a SOCKS5 proxy for iOS: a C core (`src/TwoSocks/microsocks`, a fork of
microsocks with UDP ASSOCIATE and an event interface) that runs inside a SwiftUI app, and the
view model that starts it and shows what it does. This directory holds TLA+ models of both, the
TLC configurations that check them, and proofs checked by TLAPS.

Paths below are relative to the repository; `sockssrv.c`, `server.c` and `sblist.c` are in
`src/TwoSocks/microsocks`, `ContentView-VM.swift` ("VM") is in `src/TwoSocks`. Line numbers
without a file are those of `sockssrv.c`.

## 1. Inventory

| component | state | operations | what is hard | module |
|---|---|---|---|---|
| UDP association (`copy_loop_udp`, 629-1037) | `fds`, `poll_fds`, `sock_list`, `udp_is_bound`, the final state | poll, forward a client datagram (search, open, connect, add, send), pass over the destination sockets, end | two parallel arrays changed while they are walked; fixed-size poll set; blocking recv; five ways a destination is dropped | `UdpAssociation` |
| TCP relay (`copyloop`, `relay_data`, 480-610) | revents, buffer, pending byte counters | poll, read, write until done, account, hangup check | one thread, two directions, blocking calls; half-close, reset, short writes, data with a hangup | `TcpRelay` |
| Client session (`clientthread`, 356-403, 1039-1240) | `state`, `auth_ips` (shared, rwlock), identifiers (shared, mutex) | negotiate, check credentials, CONNECT, UDP ASSOCIATE, close | threads sharing the list; failure after the target is connected | `ClientSession` |
| Auth-once list (`auth_ips`, 339-384, 1120-1131; sblist.c) | the list's members and block, the rwlock | check, search and add | realloc moves a block that others point into; an item is counted before it is written | `AuthList` |
| Wire format and negotiation (260-337, 386-478, 613-627, 757-792, 943-992, 1086-1192) | one buffer per thread | parse greeting, credentials, request, datagram; write replies and headers | pieces of messages over the remains of earlier ones; lengths taken from the message | `Handshake`, `WireFormat` |
| Accept loop (`socks_main`, `collect`, 1242-1369; server.c 43-73) | `threads`, the structures, descriptors | set up, collect, allocate, accept, add, spawn | join and free against running threads; failure at every step | `ServerLoop` |
| Connection dashboard (VM 127-165, 354-395, 435-467) | `connectionsByID`, `connectionOrder`, `connections` | event bridge, handle, trim, publish | events of several threads through the main actor; view models come and go, and several share one receiver | `Dashboard` |
| Proxy lifecycle (VM 167-172, 287-352, 409-433) | `serverState`, `isProxyListening`, `isProxyStartInFlight`, retry time | timer, Retry, start, ready, failed | timer, button and two messages interleave; several windows, one process | `ProxyLifecycle` |
| Transfer totals (VM 469-543, sockssrv.c 129-145) | native counters, last read values, pending, session, lifetime, UserDefaults | record, poll, publish, persist, load | delayed publication; process killed in between; view model rebuilt | `TransferTotals` |
| Growable list (sblist.c) | items, count, capacity | add, delete, search, free | realloc, memmove, what is left in the block | `Sblist` |
| Resolution and sockets (server.c) | none of its own | resolve, set up, accept | | partly: `Handshake`, `ServerLoop` |
| Command line (1275-1325) | the options | parse | | partly: `Options` of `ClientSession` |
| Handler registration, views, audio, build files | | | | not modelled, see section 7 |

**How they interact.** The view model calls `socks_main` on a detached task. `socks_main` sets
up the listening socket, emits the ready event and accepts for ever, one thread per client. A
client thread negotiates, asks or extends the auth-once list, and then runs `copyloop` or
`copy_loop_udp` to the end. Both emit connection events through the registered handler, on their
own thread; the handler turns each into a task of the main actor, which hands it to the view model
that is the receiver at that time. Bytes are added to two atomic counters that the view model polls.

What is correct, component by component, is in section 4; the hazards the properties are for are
listed with their lines in `PROJECT.json`.

## 2. Modules and composition

Four modules say what a component promises and nothing of how; each is implemented by a detailed
module, and that it is is a property of a run and a theorem.

| promise | implemented by | used by |
|---|---|---|
| `ConnectionLifecycle`: events per connection identifier | `ClientSession`, `UdpAssociation` | `Dashboard`, as the core |
| `ItemList`: a sequence with add, delete, search | `Sblist` | the sequences in `UdpAssociation` and `ServerLoop` |
| `Whitelist`: a set asked and extended in one step | `AuthList` | `authIps` of `ClientSession` |
| `Negotiation`: what a client may expect, message by message | `Handshake` over `WireFormat` | the outcomes `ClientSession` chooses from |

```
ServerLoop            starts and ends the threads of ClientSession
ClientSession         one step per message; RelayEnds stands for TcpRelay, an association
                      for UdpAssociation
ProxyLifecycle        calls ServerLoop's SetupSucceeds / SetupFails
TransferTotals        polls the totals TcpRelay flushes
<Module>_proofs       theorems about the module; those about Sblist are at the end of
                      ServerLoop_proofs, those about Handshake at the end of
                      ClientSession_proofs, each over an instance of its module
MC<Module>            what TLC needs besides: symmetry, and the sessions of Handshake
```

The composition is by contract: a session sees of the relay that it ends as closed or error, the
dashboard sees of the sessions that they follow `ConnectionLifecycle`, the view model sees of
`socks_main` that it fails before it listens or listens and does not return.

## 3. How the models correspond to the code

General conventions:

* One action per step of a thread that another actor can see or influence: a system call that
  blocks or fails, a write to shared state, an emitted event. Code between two such points is
  one action. The order of actions is that of the code, by `pc`.
* A system call that can fail is two actions, or a disjunct, and the failing one does what the
  error path of the code does. Failing is always possible.
* Blocking is a disabled action (`write` in `TcpRelay`, `recv` in `UdpAssociation`, `accept` and
  `pthread_join` in `ServerLoop`, the lock in `AuthList`).
* C indices start at 0, sequences at 1: item `k` of `sock_list` is in slot `k + 1` of `fds`.
* Definitions with a comment that starts with "mutant:" are not part of any specification. Each is
  a variant of the definition below it with a plausible mistake; `PROJECT.json` pairs it with the
  property that catches the mistake.

**UdpAssociation.** `fds` holds slots 2 and up; what poll says of slots 0 and 1 decides the branch
(`PollTimesOut`, `ControlCloses`, `ControlFails`, the `client` label). `PollReports` rewrites the
revents of the slots in use *and of no other*, and `AddPollfd` sets the descriptor only: this is
what the code does, and what makes revents stale. `CloseUdpDestination` is `close_udp_destination`
with `remove_udp_pollfd` and `sblist_delete` inside. In the pass, `i--; continue` is an action that
leaves `i` where it is. `peer` and `net` are the kernel's side: which descriptor is connected
where, and whether a datagram or an error is waiting on it. An ICMP error may show as an error
condition, as readiness for reading (recv then fails), or both. The unreachable branches of the
pass (an address that does not parse back, lines 956-985) are part of `SweepDrops`.

**TcpRelay.** A chunk stands for some bytes, and is numbered by its sender. `inbox` and `outbox` are
the socket buffers. `revents` is read again after the first direction was served, so it can be
out of date by then, as in the code. A peer that resets makes reads and writes fail; data
received before may be gone. `pending` and `total` follow `pending_*_bytes` and `record_*_bytes`.

**ClientSession.** `state` is the member of `struct thread`; `pc` is where the thread is within the
`case`. `CredentialsAccepted` and `AddAuthIp` are two actions because the reply is written before
the lock is taken. `proved` is a history variable. The initial states are those the argument
parser lets through (`Options`): auth-once needs a password. A lock that cannot be taken, or a list
that cannot grow, only leaves the address out. A UDP association's own events are those of
`UdpAssociation` and are not repeated.

**AuthList.** One action per access to shared memory: the lock, the pointer `sblist_get` returns,
the comparison through it, and in `sblist_add` the call of realloc and the assignments to `capa`, `items`,
`count` and the new item one by one. `Realloc` picks a block, the old one or a free one, and frees the
one it leaves; reading a freed block would be reading outside the domain of its cells. `Base` and
`Written` say which block and how much of it is the list in the middle of `sblist_add`.

**Sblist.** `items` is the block with all its cells, including those behind `count`, which keep what was
in them; `Garbage` is memory that was never written. `Delete` is the memmove, cell by cell.

**Handshake, WireFormat.** The parsers of `WireFormat` are those of the code over a buffer numbered from 0
and the number of bytes received. What is left in the buffer matters here, so the buffer is one
function that each `Recv` overwrites from the front; a new one holds any of `Leftover` throughout.
`Recv(n)` may return any part of what is under way. The client is one that follows RFC 1928; `whole`
is a history variable that says whether every message has arrived in one piece, datagrams included. A datagram cut
short stands for a client that sends a malformed one. `RecvDatagram` puts the answer's header into the
same buffer, as the code does. Names are resolved by a table, a connection to an address that
resolves succeeds (its failure is `ClientSession`'s).

`HandshakeAssumption` says what the clients write: messages as the RFCs have them, each of which fits
the buffer (1024 bytes in the code, so the longest are admitted). One of its conjuncts is needed
because of something the code does: every `recv` is taken for a whole message, so when a greeting
comes in pieces and the first is enough to agree on a method, what is left of it is read as the next
message. Where its first byte is the version of that message, 5 of a request or 1 of the credentials,
it can pass for the beginning of one, and `Negotiation` no longer describes what happens; otherwise the
session is refused. So the assumption leaves out clients that offer method 5, or 1 (GSSAPI) together with 2.

**ServerLoop.** `heap`, `done`, `fd` and `run` are indexed by structure; freed memory keeps its content.
`collect` takes one action per list element, so threads finish while it walks. `EnterCollect` is the
head of the `while`. `doneBefore` is a history variable.

**Dashboard.** `CoreEmits` takes any step of the contract and appends the new state to the mailbox.
Each window has a view model, and any number of them may be on the screen: `ViewModelStarts` makes the
new one the receiver whoever was, as `init` does, and `ViewModelEnds` clears the receiver only if it is the
one that ends, as `deinit` does. `HandedOver` finds the receiver when the task runs.
`HandleConnectionEvent` is the whole method with trimming and publishing; `Filtered` is Swift's
`filter`, a recursive function so that it can be reasoned about, and `MCDashboard` has TLC compare it with
`SelectSeq`. Tasks run in creation
order: the Swift 6 toolchain the project is built with (`LastUpgradeCheck = 1630`) guarantees it for
tasks created with an explicit main-actor isolation. On an older toolchain this is an
assumption; the mutant `MainActorRunsAnyTask` shows what depends on it.

**ProxyLifecycle.** `calls` counts calls of `socks_main` before the port is bound, `listener` and
`announced` say how far the one that succeeded has got. Ready, failed and timer ticks are tasks of
the main actor; Retry and a new window run on it directly. A port can be bound once.

**TransferTotals.** Both directions are kept, as functions, because the code's conditions mix
them. `Commit` includes the write to UserDefaults. `WindowOpens` contains the first poll. `relayed`
and `lost` are history variables.

## 4. Runs

Ten runs pass, one per component; safety, refinement and liveness of a module share a run.

| run | bounds | distinct states | shows |
|---|---|---|---|
| udp | 3 destinations, 3 descriptors, poll set of 4 (2 usable), 4 identifiers | 654,890 | arrays, descriptors and events agree; the contract is implemented; the association ends when the client leaves |
| tcp | 3 chunks each way, sockets hold 3 in and 1 out, reads return 2, flush at 2 | 702,519 | no loss, no duplication, the closer is heard out, totals, the session ends |
| session | 3 clients, 2 addresses | 71,533 | authorization, the shared list, descriptors, events; the contract is implemented |
| authlist | 3 threads, 3 addresses, 2 blocks, 2 items per block | 610,638 | no pointer into memory that is gone or not written; a set to its users |
| sblist | 3 items, 2 per block, 2 blocks | 2,135 | a sequence to its users |
| handshake | 40 sessions over two accounts, buffers of 32 bytes with two fillings | 23,394 | served what was asked or refused, for a reason; neither side waits for ever |
| server | 2 clients, 3 structures, 2 descriptors | 313,173 | no leak, no use after free, collect is complete, waiting connections are accepted |
| dashboard | 3 connections, 2 retained, 2 view models, one after the other or together | 129,669 | every window's list is consistent; the receiver's agrees with what is reported, and ends reach it |
| proxy | 2 windows, 3 waiting tasks | 65,106 | one start at a time; it comes up in the end |
| totals | 2 launches with up to 2 windows each, 2 units each way | 61,896 | every byte once, and published |

(With symmetry in `session` and `authlist`, which check no liveness.)

Why the bounds are enough to be interesting:

* `udp`: one destination more than usable slots, so the poll set fills up and one is refused; with
  two in it one is dropped in front of the other, slots and descriptors are used again, and the
  identifiers run out only after one more than the destinations. What more slots would add, a
  removal from the middle, is in the proofs.
* `tcp`: a read returns less than a socket holds, so a hangup can be reported with more data than
  one read takes; it returns more than a write has room for, so writes are short and block; a
  buffer reaches the flush threshold exactly, below and above.
* `session`: two clients of one address and one of another meet at the list.
* `authlist`: three addresses do not fit into the first two items, so the block is grown while others
  wait for it, in place and into the other one; a third thread reads while one writes and one waits.
* `sblist`: the list is full at the end of the first block and at the end of the second, where
  realloc fails because there is no more.
* `handshake`: every address type, a name that resolves and one that does not, the unspecified
  address of both families, orders of methods, passwords that are wrong, too short and right, a
  command the server does not know; every message cut at every byte; a buffer of zeros, and one of
  twos, which pass for the method number, for a length and for a length's continuation.
* `server`: three structures let the list be deleted from at either end while a thread in
  the middle runs, and clients reconnect without bound, so structures and descriptors are reused;
  there are fewer descriptors than structures, so accept fails as well.
* `dashboard`: more connections than are retained, and a second view model that has missed
  the beginning, takes the receiver from the first, or leaves it to nobody when it ends.
* `proxy`: no other bound than waiting timer tasks; a window may close, another open.
* `totals` needs one launch more than one crash, and amounts of two or more in a batch.

The project supports several windows (`UIApplicationSceneManifest_Generation = YES`, device family
`1,2`), and all three modules of the app have two of them come and go. What holds of each window is stated
of each; the rest is limited as follows, and does not hold without the limit:

* `ProxyComesUp` and a conjunct each of `OneCallInFlight` and `ShownStateIsTrue`: the only window a process
  has opened (`Only(v)`). The view model of a second one does not know of the listening socket of its
  process, calls `socks_main` again and shows Failed while the proxy is listening.
* `EveryByteIsAccountedFor`: no process has opened a second window (`single`). The last native counters
  of a second view model are zero, so it adds what the process has relayed to the persisted totals again.
* `ReceiverShowsNothingOpenForever` and `EndReachesTheView`: the window whose view model is the receiver, that
  is, the one opened last while it is open. A window that has lost the receiver to it hears of no event
  any more: a connection it shows open stays so on its screen, though it ends, until the window is
  closed, also when the other is closed before it.
* `CaughtUpViewIsExact`: the only window there has been. A later one has missed what was opened before it.

Nothing in the repository says what a second window is to show, so these are recorded as hazards
(`ContentView-VM.swift` 212, 349 and 487) and not as findings.

Deadlock is checked for `UdpAssociation`, whose end states stutter explicitly, and for `AuthList`, whose
threads serve one session after another. The other systems may stop: all sessions over, nobody
connecting, a peer that does nothing, a list without room.

Fairness:

* `Thread` of `UdpAssociation` and `TcpRelay`, `Main` of `ServerLoop`, the main actor, timers: weakly fair,
  the operating system schedules runnable threads and the run loop its timers.
* `AnsweringSpec` and `ReadingSpec` add an assumption about the other side, destinations that answer
  and peers that read. Without the first the property fails, as the run `udp_stale_read_blocks` shows;
  without the second a blocked write never returns.
* `FairSpec` of `Handshake`: the network delivers what was sent and a client that has its answer goes on, unless it
  leaves.
* `ServerLoop`: `Allocate` and `Accept` are strongly fair, that is, shortage of memory or descriptors
  is not permanent; a thread that has closed its connection returns. Nothing is assumed of how
  long a session lasts, which is the point of `ClientIsAccepted`.
* `Dashboard`: the main actor takes its tasks, oldest first (`WF_mailbox(OldestTaskTaken)`, which
  `MainActorRunsTask` alone does); applications and windows may do as they like.
* `ProxyLifecycle`: `SetupSucceeds` is strongly fair, the port can be had if it is tried for ever.
* `TransferTotals`: the clock reaches the time of a publication.

Two runs end in a violation, each a disagreement between the code and what the repository says:

| run | what it shows |
|---|---|
| udp_stale_read_blocks | a new destination inherits POLLIN from the slot's last user; the thread blocks in recv and does not notice that the client left |
| dashboard_recent | at the limit the newest ended connection is removed, not the oldest |

The cause of the first has a second effect that the model shows and no run states: a new destination that
inherits POLLERR or POLLHUP is closed in the same pass (`SweepDrops`), though its socket is fine.

Other things the code does that a reader of its comments might not expect, seen in the models and
not taken for findings:

* "inactive connections are reaped after 15 min" (549) is what poll's timeout does; a thread blocked in
  write is not in poll (`SessionEnds` needs `ReadingSpec`).
* `SS_2_NEED_AUTH` is "skipped if NO_AUTH method supported" (sockssrv.h:11), but with auth-once the
  client's order of methods decides whether a listed client is asked again.
* A request that does not parse or resolve ends the session without a reply, as a malformed datagram
  ends its association: `RecvRequest` and `RecvDatagram` of `Handshake`, `Refuse` of `Negotiation`.
* A client that asks for any IPv6 address over a control connection of IPv4 is told `::`
  (`AddressesOf` in `Handshake`).

## 5. Proofs

Eight modules hold theorems, for every value of the constants their assumptions admit. Between
them they state every safety property, action property and refinement that a run checks.

| module | theorems | properties | assumptions on constants |
|---|---|---|---|
| UdpAssociation_proofs | TypeCorrect, PollSetCorrect, SocketsCorrect, ReportsCorrect, ErrorsCorrect, ImplementsLifecycle | TypeOK, PollSetMatchesList, SocketsMatchDestinations, ReportsMatchList, ErrorsAreNotPassedOver, LifecycleSpec | the "none" values are not members of their sets; the poll set has room for the control descriptors |
| TcpRelay_proofs | TypeCorrect, StreamsCorrect, CloserCorrect, TotalsCorrect | TypeOK, NothingIsLostInTransit, CloserIsHeardOut, TotalsMatchRelayed | sizes are positive |
| ClientSession_proofs | TypeCorrect, AccessIsAuthorized, AuthIpsCorrect, ReportsCorrect, ImplementsLifecycle | TypeOK, ServedAreAuthorized, AuthIpsAreDistinct, ReportsMatchSessions, LifecycleSpec | clients are finitely many |
| ClientSession_proofs, of Handshake | ImplementsNegotiation, ServiceIsAsAsked | NegotiationSpec; the second is a consequence no run states: with a password nobody is served who has not written it, and all go where their messages say | `HandshakeAssumption`, see section 3 |
| AuthList_proofs | AccessIsSafe, ImplementsWhitelist | NoStaleAccess, WhitelistSpec | blocks hold at least one item; "none" values |
| ServerLoop_proofs | TypeCorrect, StructuresCorrect, DescriptorsCorrect, CollectCorrect | TypeOK, StructuresAreListed, DescriptorsAreOwned, CollectIsComplete | "none" values |
| ServerLoop_proofs, of Sblist | ImplementsItemList | ItemListSpec | blocks hold at least one item |
| Dashboard_proofs | TypeCorrect, OrderAndDictionaryAgree, ReceiverIsHonest, FirstViewIsExact | TypeOK, OrderMatchesDictionary, ReceiverShowsNothingOpenForever, CaughtUpViewIsExact | the limit is natural; "no view model" is none |
| ProxyLifecycle_proofs | TypeCorrect, OneCallCorrect, ShownCorrect | TypeOK, OneCallInFlight, ShownStateIsTrue | "no view model" is none |
| TransferTotals_proofs | TypeCorrect, SessionCorrect, EveryByteCorrect | TypeOK, SessionMatchesNative, EveryByteIsAccountedFor | bounds are natural, at least one launch |

`Sblist` and `Handshake` are instances in the module of another component, so their assumptions are
hypotheses of their theorems; TLC evaluates them in the runs of the two modules.

Each module proves an inductive invariant `Inv` (`Agreed` for `Handshake`) from `Init`, one lemma per action or group of actions, and
the properties from `Inv`. Why `Inv` says more than the properties:

* **UdpAssociation.** That a search in the pass succeeds depends on the arrays agreeing, that the
  arrays agree after `remove_udp_pollfd` depends on descriptors being distinct, that a descriptor from
  the kernel is distinct depends on every open descriptor being in the list, and that the events
  agree depends on identifiers in the list being below the next one. Every action that touches
  neither the list nor the sockets nor the events goes through `QuietStepKeepsInv`; the two that
  change the arrays have one lemma each: `NewDestinationKeepsInv` for an append to both,
  `CloseUdpDestinationKeepsInv` for a removal from both, which rests on what `sblist_delete`
  (`DeletedProperties`) and `remove_udp_pollfd` (`RemovedSlot`) do to the elements behind.
* **TcpRelay.** A peer's chunks are numbered, so each place they pass holds a run of consecutive
  numbers (`Run`), and the streams are right when each run begins where the one before ends (`Placed`).
  `RunConcat` and `RunSubSeq` are all the sequence reasoning there is; from there on the proof is about
  lengths. `Counted` says by how much accounting is behind, `Drained` that a hangup without data still
  means that nothing is left to read, which is what lets the loop end.
* **ClientSession.** `ControlPoint` says what a thread has behind it at each place, `IdsAreDrawn` that as
  many identifiers were drawn as clients hold one (by cardinality: identifiers are bounded by the
  number of clients). `ImplementsLifecycle` maps each step to a step of the contract or to stuttering.
* **AuthList.** `Exclusion` (who is inside the list holds the lock as its call needs), `Representation`
  (what `items`, `capa`, `count` and the heap say of each other at every line of `sblist_add`, where they
  disagree for a while) and `Pointers` give `AccessIsSafe`. For the refinement, `Inv2` adds what a search
  has established so far: no address before the index is the one searched for, which stays true until
  the insertion because nobody else may write.
* **Sblist.** The representation is the invariant; the work is in the refinement, deletion above all.
* **ServerLoop.** That no structure is freed in use rests on every thread that has started and is not
  joined being on the list (`ThreadsAreListed`), that `collect` misses none on what it has walked past
  (`Walked`), although `Deleted` moves up what is behind.
* **ProxyLifecycle.** A call of `socks_main` that was made is running, reported in the mailbox, or
  listening; for its window the three exclude each other, and a window with neither flag set has a
  call in none of them (`Calls`). `Single` adds that the only window is the receiver of the ready event.
* **TransferTotals.** Between two windows everything relayed is on disk or lost (`Launched`), a killed
  process leaves nothing in memory (`GoneIsEmpty`), and what is on disk never exceeds what was
  relayed. Bytes of the two directions are a function, and `ByDirection` reduces its sums to each.

* **Dashboard.** `ViewsAreConsistent` is what trimming must keep in every window: the order has every
  known connection once; and a view model that is yet to be created lists nothing. `Replaces` is the one shape of
  step that changes lists, of one view model at a time. `TasksFollowTheCore` and `ReceiverFollowsTheTasks` speak
  of the tasks that wait for the main actor: an "open" that waits has its connection open or the end waiting
  behind it, and what the receiver's window shows open is open or its end waits. The first needs the mailbox to be a
  queue; the second survives a change of the receiver because a new one starts with an empty list. The
  exactness of the only window adds that before it exists nothing was delivered (`NothingBeforeTheFirstView`)
  and that an open connection it does not show has its "open" waiting: trimming only takes ended ones
  away, for which the work is in the lemmas on `Filtered` and on counting what is retained.
* **Handshake.** The lemmas go from the bytes up: what each message a client writes has at each
  place (`GreetingBytes`, `CredentialsBytes`, `RequestBytes`, `DatagramBytes`), and what each parser makes of a
  buffer that begins with n bytes of such a message, for every n and anything behind
  them (`GreetingRead`, `CredentialsRead`, `RequestRead`, `DatagramRead`, all over `ParsesAddress`). `Agreed` then
  says what is on the wire in front of the next message: nothing, or the rest of one that was cut
  (`AwaitsCredentials`, `AwaitsRequest`), which `Misread` shows to be refused. Messages are as long as the
  buffer admits, so no bound of the run remains: no induction over bytes is needed because
  the parsers have no loop but the quantifier of `CheckAuthMethod`.

## 6. Only model-checked

All liveness (TLAPS 1.4.5 does not do fairness and ENABLED): `AssociationEnds`, `SessionEnds`,
`NegotiationEnds`, `ClientIsAccepted`, `EndReachesTheView`, `ProxyComesUp`, `RelayedIsPublished`. Also
that `Filtered` is `SelectSeq`, which would be an induction over the list; what it keeps and in which
order is proved (by way of the shortest prefix on which a claim would fail).

## 7. Not modelled

* `getaddrinfo`, `getopt`: libraries. Their results are a table (`Names` of `Handshake`), a choice
  (`ClientSession`) and the set of initial states (`Options`). What two interleaved getopt loops do when
  two windows call `socks_main` at once is listed as a hazard.
* `resolve_sa`, `bindtoip`, and the functions `sblist.h` declares and `sblist.c` does not define: nobody
  calls them.
* Handler registration: happens before the first `socks_main`.
* SwiftUI views, formatting, background audio, build and installation files: no state the
  program's behaviour depends on.
* Data races in the sense of the C standard: `done` is a volatile int that is read and written in
  one piece on the platforms the app is built for.
* Clients that send a message before the answer to the one before: `Handshake` has the client of
  RFC 1928.

## 8. Plan

Done: the modules of section 2, with the proofs of section 5.

What is left, in order of weight:

1. Compositions in one state space: several sessions and an association that draw identifiers from
   one counter; `ServerLoop` with `ClientSession` in place of its opaque threads.
2. `Handshake` with a client that sends ahead of the answers, and datagrams longer than the buffer.
