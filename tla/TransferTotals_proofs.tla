------------------------ MODULE TransferTotals_proofs ------------------------
(***************************************************************************)
(* What the view models show and keep of the byte totals, for every number *)
(* of windows, launches and bytes.                                         *)
(*                                                                         *)
(* That a window accounts for every byte is only true of the first window  *)
(* of a process, so the induction has to know what there is between two    *)
(* windows: nothing in memory before the first one opens, and all that was *)
(* relayed either on disk or lost (Launched); on disk never more than was  *)
(* relayed, so that what a kill takes along is never negative.             *)
(***************************************************************************)
EXTENDS TransferTotals, TLAPS

\* TypeOK, member by member, with the types its names stand for.
Types ==
    /\ native \in Bytes /\ disk \in Bytes /\ relayed \in Bytes
    /\ lost \in [Direction -> Int]
    /\ single => lost \in Bytes
    /\ alive \subseteq View
    /\ lastNative \in [View -> Bytes] /\ pending \in [View -> Bytes]
    /\ session \in [View -> Bytes] /\ lifetime \in [View -> Bytes]
    /\ publishAt \in [View -> {"nil", "later", "due"}]
    /\ launches \in 1 .. MaxLaunches
    /\ windows \in 0 .. MaxWindows
    /\ single \in BOOLEAN

\* A view model that is gone has left nothing behind.
GoneIsEmpty ==
    \A v \in View \ alive :
        /\ lastNative[v] = Zero /\ pending[v] = Zero /\ session[v] = Zero
        /\ publishAt[v] = "nil"

Launched ==
    /\ windows = 0 => alive = {} /\ native = Zero /\ relayed = Plus(lost, disk)
    /\ single => /\ windows <= 1
                 /\ \A u, v \in alive : u = v
                 /\ \A d \in Direction : disk[d] <= relayed[d]

Inv ==
    /\ Types
    /\ GoneIsEmpty
    /\ SessionMatchesNative
    /\ Launched
    /\ EveryByteIsAccountedFor

-----------------------------------------------------------------------------
\* Amounts are added direction by direction.
LEMMA Amounts ==
    /\ Zero \in Bytes
    /\ \A x, y \in Bytes : Plus(x, y) \in Bytes /\ Minus(x, y) \in [Direction -> Int]
    /\ \A x \in Bytes : Plus(x, Zero) = x /\ Plus(Zero, x) = x
    /\ \A x, y \in Bytes : Plus(x, y) = Zero <=> x = Zero /\ y = Zero
    /\ \A x, y, z \in Bytes : Plus(Plus(x, y), z) = Plus(x, Plus(y, z))
<1>1. \A x, y \in Bytes : \A d \in Direction : x[d] \in Nat /\ y[d] \in Nat
  BY DEF Bytes
<1>2. Zero \in Bytes
  BY DEF Zero, Bytes
<1>3. ASSUME NEW x \in Bytes, NEW y \in Bytes
      PROVE  Plus(x, y) \in Bytes /\ Minus(x, y) \in [Direction -> Int]
  BY <1>3 DEF Plus, Minus, Bytes
<1>4. ASSUME NEW x \in Bytes
      PROVE  Plus(x, Zero) = x /\ Plus(Zero, x) = x
  BY <1>4 DEF Plus, Zero, Bytes
<1>5. ASSUME NEW x \in Bytes, NEW y \in Bytes
      PROVE  Plus(x, y) = Zero <=> x = Zero /\ y = Zero
  <2>1. \A z \in Bytes : z = Zero <=> \A d \in Direction : z[d] = 0
    BY DEF Bytes, Zero
  <2>2. \A d \in Direction : Plus(x, y)[d] = x[d] + y[d] /\ x[d] \in Nat /\ y[d] \in Nat
    BY <1>1, <1>5 DEF Plus
  <2>3. (\A d \in Direction : Plus(x, y)[d] = 0)
          <=> (\A d \in Direction : x[d] = 0) /\ (\A d \in Direction : y[d] = 0)
    BY <2>2
  <2> QED
    BY <1>3, <1>5, <2>1, <2>3
<1>6. ASSUME NEW x \in Bytes, NEW y \in Bytes, NEW z \in Bytes
      PROVE  Plus(Plus(x, y), z) = Plus(x, Plus(y, z))
  BY <1>6 DEF Plus, Bytes
<1> QED
  BY <1>2, <1>3, <1>4, <1>5, <1>6

\* The delta of a poll: the counters have only grown since the last one.
LEMMA DeltaIsGrowth ==
    ASSUME Inv, NEW v \in alive
    PROVE  Delta(v) \in Bytes /\ Delta(v) = Minus(native, lastNative[v])
           /\ Plus(lastNative[v], Delta(v)) = native
<1>1. /\ native \in Bytes /\ lastNative[v] \in Bytes
      /\ \A d \in Direction : lastNative[v][d] <= native[d]
  BY DEF Inv, Types, SessionMatchesNative
<1>2. \A d \in Direction : /\ native[d] \in Nat /\ lastNative[v][d] \in Nat
                           /\ native[d] >= lastNative[v][d]
                           /\ native[d] - lastNative[v][d] \in Nat
  BY <1>1 DEF Bytes
<1>3. Delta(v) = Minus(native, lastNative[v])
  BY <1>2 DEF Delta, Minus
<1>4. Delta(v) \in Bytes
  BY <1>2, <1>3 DEF Minus, Bytes
<1>5. Plus(lastNative[v], Delta(v)) = native
  BY <1>1, <1>2, <1>3 DEF Plus, Minus, Bytes
<1> QED
  BY <1>3, <1>4, <1>5

\* EveryByteIsAccountedFor, direction by direction.
Accounted(v) ==
    /\ disk = lifetime[v]
    /\ \A d \in Direction :
         relayed[d] = lost[d] + disk[d] + pending[v][d] + native[d] - lastNative[v][d]

LEMMA ByDirection ==
    ASSUME Types
    PROVE  EveryByteIsAccountedFor <=> (single => \A v \in alive : Accounted(v))
<1>1. ASSUME NEW v \in alive
      PROVE  relayed = Plus(Plus(lost, disk), Plus(pending[v], Minus(native, lastNative[v])))
               <=> \A d \in Direction :
                     relayed[d] = lost[d] + disk[d] + pending[v][d] + native[d] - lastNative[v][d]
  <2> DEFINE sum == Plus(Plus(lost, disk), Plus(pending[v], Minus(native, lastNative[v])))
  <2>1. /\ relayed \in [Direction -> Nat] /\ disk \in [Direction -> Nat]
        /\ native \in [Direction -> Nat] /\ lost \in [Direction -> Int]
        /\ pending[v] \in [Direction -> Nat] /\ lastNative[v] \in [Direction -> Nat]
    BY DEF Types, Bytes
  <2>2. sum = [d \in Direction |-> sum[d]]
    BY DEF Plus
  <2>3. \A d \in Direction :
          sum[d] = lost[d] + disk[d] + pending[v][d] + native[d] - lastNative[v][d]
    BY <2>1 DEF Plus, Minus
  <2>4. relayed = [d \in Direction |-> relayed[d]]
    BY <2>1
  <2> HIDE DEF sum
  <2>5. relayed = sum <=> \A d \in Direction : relayed[d] = sum[d]
    BY <2>2, <2>4
  <2> QED
    BY <2>3, <2>5 DEF sum
<1> QED
  BY <1>1 DEF EveryByteIsAccountedFor, Accounted

LEMMA ByDirectionNext ==
    Types' /\ (single => \A v \in alive : Accounted(v))' => EveryByteIsAccountedFor'
<1>1. Types /\ (single => \A v \in alive : Accounted(v)) => EveryByteIsAccountedFor
  BY ByDirection
<1> QED
  BY <1>1, PTL

-----------------------------------------------------------------------------
LEMMA InitInv == Init => Inv
<1> SUFFICES ASSUME Init PROVE Inv
  OBVIOUS
<1>1. Zero \in Bytes /\ Zero \in [Direction -> Int] /\ Zero = Plus(Zero, Zero)
  <2>1. Zero \in Bytes /\ Zero = Plus(Zero, Zero)
    BY Amounts
  <2>2. Zero \in [Direction -> Int]
    BY DEF Zero
  <2> QED
    BY <2>1, <2>2
<1>2. Types
  <2>1. launches \in 1 .. MaxLaunches /\ windows \in 0 .. MaxWindows
    BY TotalsAssumption DEF Init
  <2> QED
    BY <1>1, <2>1 DEF Init, Types
<1> QED
  BY <1>1, <1>2 DEF Init, Inv, GoneIsEmpty, SessionMatchesNative, Launched,
                    EveryByteIsAccountedFor, Zero

\* A byte is relayed, or a publication falls due.
LEMMA RecordInv ==
    ASSUME Inv, NEW d \in Direction, Record(d) PROVE Inv'
<1>1. /\ windows > 0 /\ native' = [native EXCEPT ![d] = @ + 1]
      /\ relayed' = [relayed EXCEPT ![d] = @ + 1]
      /\ UNCHANGED <<alive, lastNative, pending, session, lifetime, publishAt>>
      /\ UNCHANGED <<disk, launches, windows, lost, single>>
  BY DEF Record, viewVars
<1>2. Types'
  BY <1>1 DEF Inv, Types, Bytes
<1>3. /\ native \in [Direction -> Nat] /\ relayed \in [Direction -> Nat]
      /\ disk \in [Direction -> Nat] /\ lost \in [Direction -> Int]
      /\ \A e \in Direction : native'[e] = IF e = d THEN native[e] + 1 ELSE native[e]
      /\ \A e \in Direction : relayed'[e] = IF e = d THEN relayed[e] + 1 ELSE relayed[e]
  BY <1>1 DEF Inv, Types, Bytes
<1>4. \A v \in alive : \A e \in Direction : pending[v][e] \in Nat /\ lastNative[v][e] \in Nat
  BY DEF Inv, Types, Bytes
<1>5. GoneIsEmpty' /\ Launched'
  BY <1>1, <1>3 DEF Inv, GoneIsEmpty, Launched, Types
<1>6. SessionMatchesNative'
  BY <1>1, <1>3, <1>4 DEF Inv, SessionMatchesNative
<1>7. (single => \A v \in alive : Accounted(v))'
  <2>1. single => \A v \in alive : Accounted(v)
    BY ByDirection DEF Inv
  <2>2. \A e \in Direction : relayed[e] \in Nat /\ native[e] \in Nat /\ disk[e] \in Nat
                             /\ lost[e] \in Int
    BY <1>3
  <2>3. ASSUME single, NEW v \in alive PROVE Accounted(v)'
    <3>1. ASSUME NEW e \in Direction
          PROVE  relayed'[e] = lost[e] + disk[e] + pending[v][e] + native'[e] - lastNative[v][e]
      <4>1. relayed[e] = lost[e] + disk[e] + pending[v][e] + native[e] - lastNative[v][e]
        BY <2>1, <2>3 DEF Accounted
      <4>2. /\ relayed[e] \in Int /\ native[e] \in Int /\ disk[e] \in Int /\ lost[e] \in Int
            /\ pending[v][e] \in Int /\ lastNative[v][e] \in Int
        BY <1>4, <2>2
      <4> QED
        BY <1>3, <4>1, <4>2
    <3> QED
      BY <1>1, <2>1, <2>3, <3>1 DEF Accounted
  <2> QED
    BY <1>1, <2>3
<1>8. EveryByteIsAccountedFor'
  BY <1>2, <1>7, ByDirectionNext
<1> QED
  BY <1>2, <1>5, <1>6, <1>8 DEF Inv

LEMMA PublishFallsDueInv ==
    ASSUME Inv, NEW v \in View, PublishFallsDue(v) PROVE Inv'
<1>1. /\ v \in alive /\ publishAt[v] = "later"
      /\ publishAt' = [publishAt EXCEPT ![v] = "due"]
      /\ UNCHANGED <<native, alive, lastNative, pending, session, lifetime, disk>>
      /\ UNCHANGED <<launches, windows, relayed, lost, single>>
  BY DEF PublishFallsDue
<1>2. Types' /\ Launched' /\ EveryByteIsAccountedFor'
  BY <1>1 DEF Inv, Types, Launched, EveryByteIsAccountedFor
<1>3. GoneIsEmpty' /\ SessionMatchesNative'
  BY <1>1 DEF Inv, Types, GoneIsEmpty, SessionMatchesNative
<1> QED
  BY <1>2, <1>3 DEF Inv

-----------------------------------------------------------------------------
\* A poll reads the counters and publishes what is due.
LEMMA RefreshInv ==
    ASSUME Inv, NEW v \in View, Refresh(v) PROVE Inv'
<1> DEFINE bytes == Plus(pending[v], Delta(v))
           commits == bytes # Zero /\ Schedule(v) = "due"
<1>1. /\ v \in alive /\ lastNative' = [lastNative EXCEPT ![v] = native]
      /\ IF commits THEN Commit(v, bytes)
         ELSE /\ pending' = [pending EXCEPT ![v] = bytes]
              /\ publishAt' = [publishAt EXCEPT ![v] = Schedule(v)]
              /\ UNCHANGED <<session, lifetime, disk>>
      /\ UNCHANGED <<native, alive, launches, windows, relayed, lost, single>>
  BY DEF Refresh
<1>2. /\ native \in Bytes /\ disk \in Bytes /\ relayed \in Bytes /\ lost \in [Direction -> Int]
      /\ lastNative[v] \in Bytes /\ pending[v] \in Bytes
      /\ session[v] \in Bytes /\ lifetime[v] \in Bytes
      /\ alive \subseteq View
  BY <1>1 DEF Inv, Types
<1>3. /\ Delta(v) \in Bytes /\ Delta(v) = Minus(native, lastNative[v])
      /\ Plus(lastNative[v], Delta(v)) = native
  BY <1>1, DeltaIsGrowth
<1>4. bytes \in Bytes /\ Plus(session[v], bytes) \in Bytes /\ Plus(lifetime[v], bytes) \in Bytes
      /\ Zero \in Bytes
  <2>1. bytes \in Bytes
    BY <1>2, <1>3, Amounts
  <2> HIDE DEF bytes
  <2> QED
    BY <1>2, <2>1, Amounts
<1>5. Plus(session[v], bytes) = native
  <2>1. Plus(session[v], pending[v]) = lastNative[v]
    BY <1>1 DEF Inv, SessionMatchesNative
  <2>2. Plus(session[v], bytes) = Plus(Plus(session[v], pending[v]), Delta(v))
    <3>1. \A x, y, z \in Bytes : Plus(Plus(x, y), z) = Plus(x, Plus(y, z))
      BY Amounts
    <3>2. session[v] \in Bytes /\ pending[v] \in Bytes /\ Delta(v) \in Bytes
      BY <1>2, <1>3
    <3> QED
      BY <3>1, <3>2 DEF bytes
  <2> QED
    BY <1>3, <2>1, <2>2
<1>6. bytes = Zero <=> pending[v] = Zero /\ Delta(v) = Zero
  BY <1>2, <1>3, Amounts
<1>7. Schedule(v) \in {"nil", "later", "due"} /\ (bytes # Zero <=> Schedule(v) # "nil")
  <2>1. publishAt[v] \in {"nil", "later", "due"} /\ (pending[v] # Zero <=> publishAt[v] # "nil")
    BY <1>1, <1>2 DEF Inv, Types, SessionMatchesNative
  <2> QED
    BY <1>6, <2>1 DEF Schedule
<1>8. \A d \in Direction :
        /\ bytes[d] = pending[v][d] + native[d] - lastNative[v][d]
        /\ Plus(lifetime[v], bytes)[d] = lifetime[v][d] + bytes[d]
        /\ native[d] \in Nat /\ lastNative[v][d] \in Nat /\ pending[v][d] \in Nat
        /\ disk[d] \in Nat /\ relayed[d] \in Nat /\ lost[d] \in Int
        /\ (single => lost[d] \in Nat) /\ bytes[d] \in Nat
  <2>1. \A d \in Direction :
        /\ native[d] \in Nat /\ lastNative[v][d] \in Nat /\ pending[v][d] \in Nat
        /\ disk[d] \in Nat /\ relayed[d] \in Nat /\ lost[d] \in Int
        /\ (single => lost[d] \in Nat) /\ bytes[d] \in Nat
    <3> HIDE DEF bytes
    <3> QED
      BY <1>2, <1>4 DEF Inv, Types, Bytes
  <2>2. \A d \in Direction : bytes[d] = pending[v][d] + native[d] - lastNative[v][d]
    BY <1>3, <2>1 DEF Plus, Minus
  <2> QED
    BY <2>1, <2>2 DEF Plus
<1>9. single => Accounted(v) /\ \A u \in alive : u = v
  BY <1>1, ByDirection DEF Inv, Launched
<1> HIDE DEF bytes
<1>10. CASE commits
  <2>1. /\ session' = [session EXCEPT ![v] = Plus(session[v], bytes)]
        /\ lifetime' = [lifetime EXCEPT ![v] = Plus(lifetime[v], bytes)]
        /\ disk' = Plus(lifetime[v], bytes)
        /\ pending' = [pending EXCEPT ![v] = Zero]
        /\ publishAt' = [publishAt EXCEPT ![v] = "nil"]
    BY <1>1, <1>10 DEF Commit
  <2>2. Types'
    BY <1>1, <1>2, <1>4, <2>1 DEF Inv, Types
  <2>3. GoneIsEmpty'
    BY <1>1, <2>1 DEF Inv, Types, GoneIsEmpty
  <2>4. SessionMatchesNative'
    <3>1. Plus(Plus(session[v], bytes), Zero) = native
      BY <1>2, <1>5, Amounts
    <3>2. \A d \in Direction : native[d] <= native[d]
      BY <1>8
    <3> QED
      BY <1>1, <1>2, <2>1, <3>1, <3>2 DEF Inv, Types, SessionMatchesNative
  <2>5. single => \A d \in Direction : relayed[d] = lost[d] + disk'[d] + 0 + native[d] - native[d]
    BY <1>8, <1>9, <2>1 DEF Accounted
  <2>6. (single => \A u \in alive : Accounted(u))'
    <3>1. single => Accounted(v)'
      BY <1>1, <1>2, <2>1, <2>5 DEF Inv, Types, Accounted, Zero
    <3> QED
      BY <1>1, <1>9, <3>1
  <2>7. Launched'
    <3>1. single => \A d \in Direction : disk'[d] <= relayed[d]
      <4>1. \A d \in Direction : disk'[d] \in Nat
        BY <2>2 DEF Types, Bytes
      <4> QED
        BY <1>8, <2>5, <4>1
    <3> QED
      BY <1>1, <3>1 DEF Inv, Launched
  <2>8. EveryByteIsAccountedFor'
    BY <2>2, <2>6, ByDirectionNext
  <2> QED
    BY <2>2, <2>3, <2>4, <2>7, <2>8 DEF Inv
<1>11. CASE ~commits
  <2>1. /\ pending' = [pending EXCEPT ![v] = bytes]
        /\ publishAt' = [publishAt EXCEPT ![v] = Schedule(v)]
        /\ UNCHANGED <<session, lifetime, disk>>
    BY <1>1, <1>11
  <2>2. Types'
    BY <1>1, <1>2, <1>4, <1>7, <2>1 DEF Inv, Types
  <2>3. GoneIsEmpty' /\ Launched'
    BY <1>1, <2>1 DEF Inv, Types, GoneIsEmpty, Launched
  <2>4. SessionMatchesNative'
    <3>1. \A d \in Direction : native[d] <= native[d]
      BY <1>8
    <3> QED
      BY <1>1, <1>2, <1>5, <1>7, <2>1, <3>1 DEF Inv, Types, SessionMatchesNative
  <2>5. (single => \A u \in alive : Accounted(u))'
    <3>1. single => \A d \in Direction : relayed[d] = lost[d] + disk[d] + bytes[d] + native[d] - native[d]
      BY <1>8, <1>9 DEF Accounted
    <3>2. single => Accounted(v)'
      BY <1>1, <1>2, <1>9, <2>1, <3>1 DEF Inv, Types, Accounted
    <3> QED
      BY <1>1, <1>9, <3>2
  <2>6. EveryByteIsAccountedFor'
    BY <2>2, <2>5, ByDirectionNext
  <2> QED
    BY <2>2, <2>3, <2>4, <2>6 DEF Inv
<1> QED
  BY <1>10, <1>11

-----------------------------------------------------------------------------
\* Windows open and close, and the process is killed and launched again.
LEMMA WindowOpensInv ==
    ASSUME Inv, NEW v \in View, WindowOpens(v) PROVE Inv'
<1>1. /\ v \notin alive /\ windows' = windows + 1 /\ windows < MaxWindows
      /\ single' = (single /\ windows = 0)
      /\ alive' = alive \cup {v}
      /\ lifetime' = [lifetime EXCEPT ![v] = disk]
      /\ lastNative' = [lastNative EXCEPT ![v] = native]
      /\ pending' = [pending EXCEPT ![v] = native]
      /\ publishAt' = [publishAt EXCEPT ![v] = IF native = Zero THEN "nil" ELSE "later"]
      /\ UNCHANGED <<native, session, disk, launches, relayed, lost>>
  BY DEF WindowOpens
<1>2. Types'
  BY <1>1, TotalsAssumption DEF Inv, Types
<1>3. /\ native \in Bytes /\ session[v] = Zero /\ windows \in Nat
      /\ Plus(session[v], native) = native
      /\ \A d \in Direction : native[d] <= native[d]
  <2>1. native \in Bytes /\ session[v] = Zero /\ windows \in Nat
    BY <1>1 DEF Inv, Types, GoneIsEmpty
  <2> QED
    BY <2>1, Amounts DEF Bytes
<1>4. GoneIsEmpty' /\ SessionMatchesNative'
  BY <1>1, <1>3 DEF Inv, Types, GoneIsEmpty, SessionMatchesNative
<1>5. single' => /\ windows = 0 /\ alive = {} /\ native = Zero /\ relayed = Plus(lost, disk)
                 /\ single /\ alive' = {v}
  BY <1>1 DEF Inv, Launched
<1>6. Launched'
  BY <1>1, <1>3, <1>5 DEF Inv, Launched
<1>7. (single => \A u \in alive : Accounted(u))'
  <2>1. ASSUME single' PROVE Accounted(v)'
    <3>1. lifetime'[v] = disk /\ pending'[v] = native /\ lastNative'[v] = native
      BY <1>1 DEF Inv, Types
    <3>2. \A d \in Direction : /\ relayed[d] = lost[d] + disk[d] /\ native[d] = 0
                               /\ lost[d] \in Int /\ disk[d] \in Int
      BY <1>5, <2>1 DEF Inv, Types, Bytes, Plus, Zero
    <3>3. \A d \in Direction : relayed[d] = lost[d] + disk[d] + native[d] + native[d] - native[d]
      BY <3>2
    <3> QED
      BY <1>1, <3>1, <3>3 DEF Accounted
  <2> QED
    BY <1>5, <2>1
<1>8. EveryByteIsAccountedFor'
  BY <1>2, <1>7, ByDirectionNext
<1> QED
  BY <1>2, <1>4, <1>6, <1>8 DEF Inv

LEMMA DiscardKeepsTypes ==
    ASSUME Inv, NEW V \in SUBSET View, Discard(V)
    PROVE  /\ alive' \subseteq View
           /\ lastNative' \in [View -> Bytes] /\ pending' \in [View -> Bytes]
           /\ session' \in [View -> Bytes] /\ lifetime' \in [View -> Bytes]
           /\ publishAt' \in [View -> {"nil", "later", "due"}]
           /\ GoneIsEmpty'
<1>1. Zero \in Bytes
  BY Amounts
<1> QED
  BY <1>1 DEF Discard, Inv, Types, GoneIsEmpty

LEMMA WindowClosesInv ==
    ASSUME Inv, NEW v \in View, WindowCloses(v) PROVE Inv'
<1>1. /\ Discard({v}) /\ alive' = alive \ {v}
      /\ UNCHANGED <<native, disk, launches, windows, relayed, lost, single>>
  BY DEF WindowCloses, Discard
<1>2. \A u \in alive' : /\ u \in alive /\ u \in View
                        /\ lastNative'[u] = lastNative[u] /\ pending'[u] = pending[u]
                        /\ session'[u] = session[u] /\ lifetime'[u] = lifetime[u]
                        /\ publishAt'[u] = publishAt[u]
  BY <1>1 DEF Discard, Inv, Types
<1>3. Types' /\ GoneIsEmpty'
  BY <1>1, DiscardKeepsTypes DEF Inv, Types
<1>4. SessionMatchesNative' /\ Launched' /\ EveryByteIsAccountedFor'
  BY <1>1, <1>2 DEF Inv, SessionMatchesNative, Launched, EveryByteIsAccountedFor
<1> QED
  BY <1>3, <1>4 DEF Inv

LEMMA RelaunchInv == ASSUME Inv, Relaunch PROVE Inv'
<1>1. /\ launches < MaxLaunches /\ launches' = launches + 1 /\ windows' = 0
      /\ lost' = Minus(relayed, disk) /\ native' = Zero /\ Discard(View) /\ alive' = {}
      /\ UNCHANGED <<disk, relayed, single>>
  BY DEF Relaunch, Discard, Inv, Types
<1>2. relayed \in Bytes /\ disk \in Bytes /\ Zero \in Bytes
  BY Amounts DEF Inv, Types
<1>3. lost' \in [Direction -> Int] /\ (single => lost' \in Bytes)
  BY <1>1, <1>2 DEF Minus, Bytes, Inv, Launched
<1>4. relayed = Plus(lost', disk)
  BY <1>1, <1>2 DEF Plus, Minus, Bytes
<1>5. Types' /\ GoneIsEmpty'
  BY <1>1, <1>2, <1>3, DiscardKeepsTypes, TotalsAssumption DEF Inv, Types
<1>6. SessionMatchesNative' /\ EveryByteIsAccountedFor'
  BY <1>1 DEF SessionMatchesNative, EveryByteIsAccountedFor
<1>7. Launched'
  BY <1>1, <1>4 DEF Inv, Launched
<1> QED
  BY <1>5, <1>6, <1>7 DEF Inv

LEMMA NextInv == Inv /\ [Next]_vars => Inv'
<1> SUFFICES ASSUME Inv, [Next]_vars PROVE Inv'
  OBVIOUS
<1>1. CASE UNCHANGED vars
  BY <1>1 DEF Inv, Types, GoneIsEmpty, SessionMatchesNative, Launched, EveryByteIsAccountedFor,
              vars, viewVars
<1> QED
  BY <1>1, RecordInv, PublishFallsDueInv, RefreshInv, WindowOpensInv, WindowClosesInv, RelaunchInv
     DEF Next

LEMMA Invariance == Spec => []Inv
BY InitInv, NextInv, PTL DEF Spec

-----------------------------------------------------------------------------
\* Every counter and total stays a natural number; what a kill takes along is
\* never negative while every process had one window.
THEOREM TypeCorrect == Spec => []TypeOK
<1>1. Inv => TypeOK
  BY DEF Inv, Types, TypeOK
<1> QED
  BY <1>1, Invariance, PTL

\* What a view model shows and holds back is what it last read of the counters
\* of sockssrv.c, and what it holds back is scheduled to be published.
THEOREM SessionCorrect == Spec => []SessionMatchesNative
BY Invariance, PTL DEF Inv

\* In the first window of a process every byte ever relayed is on disk, held
\* back, still to be read, or went with an earlier process, across any number
\* of kills and launches.
THEOREM EveryByteCorrect == Spec => []EveryByteIsAccountedFor
BY Invariance, PTL DEF Inv

=============================================================================
