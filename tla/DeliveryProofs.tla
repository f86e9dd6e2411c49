---------------------------- MODULE DeliveryProofs ----------------------------
(***************************************************************************)
(* Proofs about the components a message travels through: the internal    *)
(* onion routes (RouteManager), the watched connection (Reconnection), the *)
(* requests that make two users friends (Friendship), the codes by which   *)
(* they add each other (AddFriend) and the synchronisation of their logs   *)
(* (SyncFlow).  Each theorem is about its component's own specification.   *)
(***************************************************************************)
EXTENDS RouteManager, Reconnection, Friendship, AddFriend, SyncFlow, FiniteSetTheorems,
        SequenceTheorems, TLAPS

-----------------------------------------------------------------------------
(***************************************************************************)
(* The internal onion routes (RouteManager).                               *)
(***************************************************************************)

\* A set of hops that is not empty has a first one.
LEMMA FirstHop ==
    ASSUME NEW T \in SUBSET Hops, T # {}
    PROVE  \E m \in T : \A h \in T : m <= h
<1> DEFINE I == {1..n : n \in T}
           R == StrictSubsetOrdering(Hops)
<1>0. T \subseteq Int /\ \A n \in T : n \in 1..MaxHops  BY RouteAssumption DEF Hops, RouteAssumption
<1>1. IsWellFoundedOn(R, FiniteSubsetsOf(Hops))  BY FS_StrictSubsetOrderingWellFounded
<1>2. ASSUME NEW n \in T PROVE 1..n \in FiniteSubsetsOf(Hops)
  <2>1. n \in Int /\ 1..n \subseteq Hops  BY <1>0, RouteAssumption DEF Hops, RouteAssumption
  <2>2. IsFiniteSet(1..n)  BY <2>1, FS_Interval
  <2> QED  BY <2>1, <2>2 DEF FiniteSubsetsOf
<1>3. I \subseteq FiniteSubsetsOf(Hops) /\ I # {}  BY <1>2
<1>4. PICK x \in I : \A y \in I : ~(<<y, x>> \in R)
  <2> HIDE DEF I, R
  <2> QED  BY <1>1, <1>3, WFMin
<1>5. PICK m \in T : x = 1..m  OBVIOUS
<1>6. ASSUME NEW h \in T PROVE m <= h
  <2> SUFFICES ASSUME h < m PROVE FALSE  BY <1>0
  <2>1. 1..h \in I /\ 1..h \subseteq 1..m /\ m \in 1..m /\ m \notin 1..h  BY <1>0
  <2>2. 1..h \subseteq Hops /\ 1..m \subseteq Hops  BY <1>2 DEF FiniteSubsetsOf
  <2>3. <<1..h, 1..m>> \in R  BY <2>1, <2>2 DEF StrictSubsetOrdering
  <2> QED  BY <1>4, <1>5, <2>1, <2>3
<1> QED  BY <1>6

\* Hops without a peer come last.
HopsInOrder == \A h \in Hops, k \in Hops : h <= k /\ hops[h] = "none" => hops[k] = "none"

\* A build that goes on awaits one hello, of the newest circuit; its hop has a peer, and the
\* hops before it have been vouched for on that circuit.
BuildInv ==
    \A hello \in awaited :
        /\ awaited = {hello} /\ hello.circuit = circuit /\ circuit = circuits
        /\ route # "ready" /\ pings = NoPings
        /\ hops[hello.hop] # "none"
        /\ \A h \in Hops : h < hello.hop =>
               hops[h] = "ok" /\ [circuit |-> circuit, hop |-> h] \in vouched

\* A hop that was pinged has been vouched for.
PingInv ==
    \A h \in Hops : pings[h] > 0 =>
        hops[h] # "none" /\ [circuit |-> circuit, hop |-> h] \in vouched

RouteInv ==
    /\ RouteTypeOK /\ circuit <= circuits
    /\ HopsInOrder /\ BuildInv /\ PingInv /\ ReadyMeansReady /\ NeverAbandoned /\ StoppedIsQuiet

RouteFlags == routing \in BOOLEAN /\ keepalive \in BOOLEAN /\ rebuild \in BOOLEAN

\* Every action leaves Booleans in the flags.
LEMMA RouteFlagTypes == ASSUME RouteFlags, [RouteNext]_routeVars PROVE RouteFlags'
<1> USE DEF RouteFlags
<1>1. ASSUME NEW n, NEW d, Sync(n, d) PROVE RouteFlags'
  BY <1>1, Zenon DEF Sync, Build, Fail
<1>2. ASSUME NEW status, Halt(status) PROVE RouteFlags'  BY <1>2, Zenon DEF Halt, Fail
<1>3. ASSUME NEW n, Discovery(n) PROVE RouteFlags'  BY <1>3, Zenon DEF Discovery, Build, Fail
<1>4. ASSUME NEW n, RebuildTimer(n) PROVE RouteFlags'
  BY <1>4, Zenon DEF RebuildTimer, Build, Fail
<1>5. CASE HelloTimesOut  BY <1>5, Zenon DEF HelloTimesOut, HelloTimeout, Fail
<1>6. CASE KeepaliveTick  BY <1>6, Zenon DEF KeepaliveTick, Fail
<1>7. ASSUME NEW hello, Pong(hello) PROVE RouteFlags'  BY <1>7, Zenon DEF Pong
<1>8. ASSUME NEW hello, NEW ok, HelloAck(hello, ok) PROVE RouteFlags'
  BY <1>8, Zenon DEF HelloAck, Fail
<1>9. CASE UNCHANGED routeVars  BY <1>9, Zenon DEF routeVars
<1> QED  BY <1>1, <1>2, <1>3, <1>4, <1>5, <1>6, <1>7, <1>8, <1>9, Zenon DEF RouteNext

HopStates == {"none", "pending", "ok", "dead"}

\* What the end of a build does to the state that is current by then.
LEMMA Failing ==
    ASSUME NEW hellos, NEW status, NEW states \in [Hops -> HopStates], NEW timer, NEW on,
           Fail(hellos, status, states, timer, on)
    PROVE  /\ route' = IF hellos = {} THEN status ELSE "degraded"
           /\ hops' \in [Hops -> HopStates]
           /\ hellos = {} => hops' = states
           /\ \A h \in Hops : (hops'[h] = "none") <=> (states[h] = "none")
           /\ (rebuild') <=> (timer \/ (hellos # {} /\ on))
<1>1. (rebuild') <=> (timer \/ (hellos # {} /\ on))  BY Zenon DEF Fail
<1>2. route' = IF hellos = {} THEN status ELSE "degraded"  BY DEF Fail
<1>3. hops' = MarkDead(states, hellos)  BY DEF Fail
<1>4. \A h \in Hops : hops'[h] \in {"dead", states[h]} /\ (hops'[h] = "dead" => states[h] # "none")
  BY <1>3 DEF MarkDead, HopStates
<1>5. hops' \in [Hops -> HopStates]  BY <1>3 DEF MarkDead, HopStates
<1>6. ASSUME hellos = {} PROVE hops' = states
  <2>1. \A h \in Hops : hops'[h] = states[h]  BY <1>3, <1>6 DEF MarkDead
  <2> QED  BY <1>5, <2>1
<1>7. \A h \in Hops : (hops'[h] = "none") <=> (states[h] = "none")  BY <1>4, <1>5 DEF HopStates
<1> QED  BY <1>1, <1>2, <1>5, <1>6, <1>7

\* A build has begun, or found no relay and is to be repeated.
Begun(d) ==
    /\ wanted' = d /\ ~keepalive' /\ pings' = NoPings
    /\ route' \in {"idle", "building", "rebuilding", "degraded"}
    /\ hops' \in [Hops -> HopStates] /\ HopsInOrder'
    /\ \/ circuit' = 0 /\ awaited' = {} /\ rebuild' /\ UNCHANGED <<circuits, greeted>>
       \/ /\ circuits < MaxCircuits /\ circuits' = circuits + 1 /\ circuit' = circuits'
          /\ awaited' = {[circuit |-> circuit', hop |-> 1]}
          /\ greeted' = greeted \cup awaited'
          /\ hops'[1] # "none"

LEMMA BuildBegins ==
    ASSUME NEW n \in 0..MaxHops, NEW d \in Hops, NEW status \in {"building", "rebuilding"},
           NEW timer, Build(n, d, status, timer)
    PROVE  Begun(d)
<1> DEFINE s == IF n < d THEN n ELSE d
<1>0. s \in 0..MaxHops /\ MaxHops \in Nat \ {0}  BY RouteAssumption DEF RouteAssumption, Hops
<1>1. CreateHops(s) \in [Hops -> HopStates] /\ CreateHops(0) \in [Hops -> HopStates]
  BY DEF CreateHops, HopStates
<1>2. ~keepalive'  BY Zenon DEF Build
<1>3. wanted' = d /\ pings' = NoPings  BY DEF Build
<1>4. CASE s = 0
  <2>1. /\ circuit' = 0 /\ awaited' = {} /\ UNCHANGED <<circuits, greeted>>
        /\ Fail(Overtaken, "idle", CreateHops(0), TRUE, TRUE)
    BY <1>4 DEF Build, Overtaken
  <2>2. rebuild'  BY <1>1, <2>1, Failing
  <2>3. /\ route' \in {"idle", "degraded"} /\ hops' \in [Hops -> HopStates]
        /\ \A h \in Hops : (hops'[h] = "none") <=> (CreateHops(0)[h] = "none")
    BY <1>1, <2>1, Failing
  <2>4. HopsInOrder'  BY <1>0, <2>3 DEF HopsInOrder, CreateHops, Hops
  <2> QED  BY <1>2, <1>3, <2>1, <2>2, <2>3, <2>4 DEF Begun
<1>5. CASE s # 0
  <2>1. /\ circuits < MaxCircuits /\ circuits' = circuits + 1 /\ circuit' = circuits'
        /\ awaited' = {[circuit |-> circuit', hop |-> 1]}
        /\ greeted' = greeted \cup awaited'
        /\ Fail(Overtaken, status, CreateHops(s), timer, TRUE)
    BY <1>5 DEF Build, Overtaken
  <2> HIDE DEF s
  <2>2. /\ route' \in {"building", "rebuilding", "degraded"} /\ hops' \in [Hops -> HopStates]
        /\ \A h \in Hops : (hops'[h] = "none") <=> (CreateHops(s)[h] = "none")
    BY <1>1, <2>1, Failing
  <2>3. HopsInOrder' /\ hops'[1] # "none"
    BY <1>0, <1>5, <2>2 DEF HopsInOrder, CreateHops, Hops
  <2> QED  BY <1>2, <1>3, <2>1, <2>2, <2>3 DEF Begun
<1> QED  BY <1>4, <1>5

\* A manager that runs and has begun a build, or is to repeat it, keeps the invariant.
LEMMA BegunKeeps ==
    ASSUME RouteInv, NEW d \in Hops, Begun(d), RouteFlags', routing',
           vouched' = vouched, syncs' \in 0..MaxSyncs
    PROVE  RouteInv'
<1> USE RouteAssumption DEF RouteAssumption
<1>1. CASE circuit' = 0 /\ awaited' = {} /\ rebuild' /\ UNCHANGED <<circuits, greeted>>
  BY <1>1 DEF RouteInv, RouteTypeOK, RouteFlags, Begun, HopStates, BuildInv, PingInv, NoPings,
     ReadyMeansReady, NeverAbandoned, StoppedIsQuiet
<1>2. CASE /\ circuits < MaxCircuits /\ circuits' = circuits + 1 /\ circuit' = circuits'
           /\ awaited' = {[circuit |-> circuit', hop |-> 1]}
           /\ greeted' = greeted \cup awaited'
           /\ hops'[1] # "none"
  <2>1. circuits' \in 1..MaxCircuits /\ 1 \in Hops
    BY <1>2 DEF RouteInv, RouteTypeOK, Hops
  <2>2. [circuit |-> circuit', hop |-> 1] \in Hello  BY <1>2, <2>1 DEF Hello
  <2>3. RouteTypeOK'
    BY <1>2, <2>1, <2>2 DEF RouteInv, RouteTypeOK, RouteFlags, Begun, HopStates, NoPings
  <2>4. BuildInv'
    BY <1>2, <2>1 DEF BuildInv, Begun, Hops, NoPings
  <2> QED
    BY <1>2, <2>1, <2>3, <2>4 DEF RouteInv, Begun, PingInv, NoPings, ReadyMeansReady,
       NeverAbandoned, StoppedIsQuiet
<1> QED  BY <1>1, <1>2 DEF Begun

\* An awaited hello has failed: the route is degraded and, if the manager runs, repeated.
LEMMA HelloFails ==
    ASSUME RouteInv, RouteFlags', NEW hello \in awaited,
           awaited' = {}, Fail({hello}, route, hops, rebuild, routing),
           UNCHANGED <<routing, wanted, circuit, circuits, greeted, vouched, pings, keepalive,
                       syncs>>
    PROVE  RouteInv'
<1>1. hops \in [Hops -> HopStates]  BY DEF RouteInv, RouteTypeOK, HopStates
<1>2. {hello} # {} /\ routing /\ pings = NoPings
  BY DEF RouteInv, StoppedIsQuiet, BuildInv
<1>3. (rebuild') <=> (rebuild \/ ({hello} # {} /\ routing))  BY <1>1, Failing
<1>4. rebuild'  BY <1>2, <1>3
<1>5. /\ route' = "degraded" /\ hops' \in [Hops -> HopStates]
      /\ \A h \in Hops : (hops'[h] = "none") <=> (hops[h] = "none")
  BY <1>1, <1>2, Failing
<1>6. RouteTypeOK'  BY <1>5 DEF RouteInv, RouteTypeOK, RouteFlags, HopStates
<1>7. HopsInOrder'  BY <1>5 DEF RouteInv, HopsInOrder
<1>8. PingInv'  BY <1>2 DEF RouteInv, PingInv, NoPings
<1> QED
  BY <1>2, <1>4, <1>5, <1>6, <1>7, <1>8 DEF RouteInv, BuildInv, ReadyMeansReady, NeverAbandoned,
     StoppedIsQuiet

\* Every action keeps the invariant.
LEMMA RouteStep == ASSUME RouteInv, [RouteNext]_routeVars PROVE RouteInv'
<1> USE RouteAssumption DEF RouteAssumption
<1>0. RouteFlags'  BY RouteFlagTypes DEF RouteInv, RouteTypeOK, RouteFlags
<1>a. hops \in [Hops -> HopStates] /\ 1 \in Hops  BY DEF RouteInv, RouteTypeOK, HopStates, Hops
<1>1. ASSUME NEW n \in 0..MaxHops, NEW d \in Hops, Sync(n, d) PROVE RouteInv'
  <2>1. syncs' \in 0..MaxSyncs /\ vouched' = vouched
    BY <1>1 DEF RouteInv, RouteTypeOK, Sync
  <2>2. routing'  BY <1>1, Zenon DEF Sync
  <2>3. CASE d = wanted /\ route = "ready"
    <3>1. keepalive'  BY <1>1, <2>3, Zenon DEF Sync
    <3>2. UNCHANGED <<wanted, route, hops, circuit, circuits, awaited, greeted, pings, rebuild>>
      BY <1>1, <2>3 DEF Sync
    <3>3. RouteTypeOK'  BY <1>0, <2>1, <3>2 DEF RouteInv, RouteTypeOK, RouteFlags
    <3> QED
      BY <2>1, <2>2, <2>3, <3>1, <3>2, <3>3 DEF RouteInv, HopsInOrder, BuildInv, PingInv,
         ReadyMeansReady, NeverAbandoned, StoppedIsQuiet
  <2>4. CASE ~(d = wanted /\ route = "ready")
    <3>1. Begun(d)  BY <1>1, <2>4, BuildBegins DEF Sync
    <3> QED  BY <1>0, <2>1, <2>2, <3>1, BegunKeeps
  <2> QED  BY <2>3, <2>4
<1>2. ASSUME NEW status \in {"idle", "expired"}, Halt(status) PROVE RouteInv'
  <2>1. ~routing' /\ ~keepalive'  BY <1>2, Zenon DEF Halt
  <2>2. /\ syncs' \in 0..MaxSyncs /\ circuit' = 0 /\ pings' = NoPings /\ awaited' = {}
        /\ UNCHANGED <<wanted, circuits, greeted, vouched>>
    BY <1>2 DEF RouteInv, RouteTypeOK, Halt, Overtaken
  <2>9. Fail(Overtaken, status, CreateHops(0), FALSE, FALSE)  BY <1>2, Zenon DEF Halt
  <2>3. CreateHops(0) \in [Hops -> HopStates]  BY DEF CreateHops, HopStates
  <2>4. (rebuild') <=> (FALSE \/ (Overtaken # {} /\ FALSE))  BY <2>3, <2>9, Failing, Zenon
  <2>5. ~rebuild'  BY <2>4, Zenon
  <2>6. /\ route' \in {"idle", "expired", "degraded"} /\ hops' \in [Hops -> HopStates]
        /\ \A h \in Hops : (hops'[h] = "none") <=> (CreateHops(0)[h] = "none")
    BY <2>3, <2>9, Failing
  <2>7. RouteTypeOK'
    BY <1>0, <2>2, <2>6 DEF RouteInv, RouteTypeOK, RouteFlags, HopStates, NoPings
  <2>8. HopsInOrder'  BY <2>6 DEF HopsInOrder, CreateHops, Hops
  <2> QED
    BY <2>1, <2>2, <2>5, <2>6, <2>7, <2>8 DEF RouteInv, RouteTypeOK, BuildInv, PingInv, NoPings,
       ReadyMeansReady, NeverAbandoned, StoppedIsQuiet
<1>3. ASSUME NEW n \in 0..MaxHops, Discovery(n) \/ RebuildTimer(n) PROVE RouteInv'
  <2>1. /\ routing /\ Build(n, wanted, "rebuilding", FALSE)
        /\ UNCHANGED <<routing, vouched, syncs>>
    BY <1>3 DEF Discovery, RebuildTimer
  <2>2. wanted \in Hops /\ syncs' \in 0..MaxSyncs /\ routing'
    BY <2>1 DEF RouteInv, RouteTypeOK
  <2>3. Begun(wanted)  BY <2>1, <2>2, BuildBegins
  <2> QED  BY <1>0, <2>1, <2>2, <2>3, BegunKeeps
<1>4. ASSUME NEW hello \in Hello, HelloTimeout(hello) PROVE RouteInv'
  <2>1. hello \in awaited /\ awaited' = {}
    BY <1>4 DEF HelloTimeout, RouteInv, BuildInv
  <2> QED  BY <1>0, <1>4, <2>1, HelloFails DEF HelloTimeout
<1>5. ASSUME NEW hello \in Hello, NEW ok \in BOOLEAN, HelloAck(hello, ok) PROVE RouteInv'
  <2> DEFINE h == hello.hop
             mine == {x \in awaited : x.hop = h}
             acked == [hops EXCEPT ![h] = "ok"]
             last == h = MaxHops \/ hops[h + 1] = "none"
             next == [circuit |-> circuit, hop |-> h + 1]
  <2>1. /\ hello \in awaited /\ awaited = {hello} /\ hello.circuit = circuit
        /\ UNCHANGED <<routing, wanted, circuit, circuits, pings, syncs>>
    BY <1>5 DEF HelloAck, Fits, RouteInv, BuildInv
  <2>2. mine = {hello} /\ awaited \ mine = {}  BY <2>1
  <2>3. /\ h \in Hops /\ circuit \in 1..MaxCircuits /\ hello = [circuit |-> circuit, hop |-> h]
        /\ hello \in greeted
    BY <1>5, <2>1 DEF Hello, HelloAck
  <2>4. /\ circuit = circuits /\ route # "ready" /\ pings = NoPings /\ hops[h] # "none" /\ routing
        /\ \A k \in Hops : k < h =>
               hops[k] = "ok" /\ [circuit |-> circuit, hop |-> k] \in vouched
    BY <2>1 DEF RouteInv, BuildInv, StoppedIsQuiet
  <2>5. CASE ~ok
    <3>1. /\ awaited' = {} /\ Fail({hello}, route, hops, rebuild, routing)
          /\ UNCHANGED <<greeted, vouched, keepalive>>
      BY <1>5, <2>2, <2>5 DEF HelloAck
    <3> QED  BY <1>0, <2>1, <3>1, HelloFails
  <2>6. CASE ok /\ last
    <3>1. keepalive'  BY <1>5, <2>6, Zenon DEF HelloAck
    <3>2. /\ awaited' = {} /\ vouched' = vouched \cup {hello} /\ route' = "ready"
          /\ hops' = [x \in Hops |-> IF acked[x] = "dead" THEN "pending" ELSE acked[x]]
          /\ UNCHANGED <<greeted, rebuild>>
      BY <1>5, <2>2, <2>6 DEF HelloAck
    <3>3. acked \in [Hops -> HopStates] /\ acked[h] = "ok"
          /\ \A k \in Hops : k # h => acked[k] = hops[k]
      BY <1>a, <2>3 DEF HopStates
    <3> HIDE DEF acked
    <3>4. \A k \in Hops : k < h => hops'[k] = "ok"  BY <2>3, <2>4, <3>2, <3>3 DEF Hops
    <3>5. hops'[h] = "ok"  BY <2>3, <3>2, <3>3
    <3>6. \A k \in Hops : h < k => hops'[k] = "none"
      <4> SUFFICES ASSUME NEW k \in Hops, h < k PROVE hops'[k] = "none"  OBVIOUS
      <4>1. h + 1 \in Hops /\ h + 1 <= k /\ h # MaxHops  BY <2>3 DEF Hops
      <4>2. hops[h + 1] = "none"  BY <2>6, <4>1
      <4>3. hops[k] = "none"  BY <4>1, <4>2 DEF RouteInv, HopsInOrder
      <4> QED  BY <2>3, <3>2, <3>3, <4>3 DEF Hops
    <3>7. hops' \in [Hops -> HopStates]  BY <3>2, <3>3 DEF HopStates
    <3>8. RouteTypeOK'
      BY <1>0, <2>1, <2>3, <3>2, <3>7 DEF RouteInv, RouteTypeOK, RouteFlags, HopStates
    <3>9. HopsInOrder'  BY <2>3, <3>4, <3>5, <3>6 DEF HopsInOrder, Hops
    <3>10. ReadyMeansReady'
      BY <1>a, <2>1, <2>3, <2>4, <3>2, <3>4, <3>5, <3>6 DEF ReadyMeansReady, Hops
    <3> QED
      BY <2>1, <2>4, <3>1, <3>2, <3>8, <3>9, <3>10 DEF RouteInv, BuildInv, PingInv, NoPings,
         NeverAbandoned, StoppedIsQuiet
  <2>7. CASE ok /\ ~last
    <3>1. /\ awaited' = {next} /\ greeted' = greeted \cup {next} /\ vouched' = vouched \cup {hello}
          /\ hops' = acked /\ UNCHANGED <<route, keepalive, rebuild>>
      BY <1>5, <2>2, <2>7 DEF HelloAck
    <3>2. h + 1 \in Hops /\ hops[h + 1] # "none"  BY <2>3, <2>7 DEF Hops
    <3>3. next \in Hello  BY <2>3, <3>2 DEF Hello
    <3>4. hops' \in [Hops -> HopStates] /\ hops'[h] = "ok"
          /\ \A k \in Hops : k # h => hops'[k] = hops[k]
      BY <1>a, <2>3, <3>1 DEF HopStates
    <3>5. RouteTypeOK'
      BY <1>0, <2>1, <2>3, <3>1, <3>3, <3>4 DEF RouteInv, RouteTypeOK, RouteFlags, HopStates
    <3>6. HopsInOrder'  BY <2>3, <2>4, <3>4 DEF RouteInv, HopsInOrder, Hops
    <3>7. BuildInv'
      BY <2>1, <2>3, <2>4, <3>1, <3>2, <3>4 DEF BuildInv, Hops
    <3> QED
      BY <2>1, <2>4, <3>1, <3>5, <3>6, <3>7 DEF RouteInv, PingInv, NoPings, ReadyMeansReady,
         NeverAbandoned, StoppedIsQuiet
  <2> QED  BY <2>5, <2>6, <2>7
<1>6. ASSUME NEW hello \in Hello, Pong(hello) PROVE RouteInv'
  <2> DEFINE h == hello.hop
  <2>1. /\ h \in Hops /\ pings[h] > 0
        /\ pings' = [pings EXCEPT ![h] = 0] /\ hops' = [hops EXCEPT ![h] = "ok"]
        /\ UNCHANGED <<routing, wanted, route, circuit, circuits, awaited, greeted, vouched,
                       keepalive, rebuild, syncs>>
    BY <1>6 DEF Pong, Hello
  <2>2. /\ hops[h] # "none" /\ [circuit |-> circuit, hop |-> h] \in vouched
    BY <2>1 DEF RouteInv, PingInv
  <2>3. awaited = {}
    <3>1. pings # NoPings  BY <2>1 DEF NoPings
    <3> QED  BY <3>1 DEF RouteInv, BuildInv
  <2>4. hops' \in [Hops -> HopStates] /\ hops'[h] = "ok"
        /\ \A k \in Hops : k # h => hops'[k] = hops[k]
    BY <1>a, <2>1 DEF HopStates
  <2>5. /\ pings' \in [Hops -> 0..MissLimit + 1]
        /\ \A k \in Hops : pings'[k] > 0 => pings[k] > 0
    BY <2>1 DEF RouteInv, RouteTypeOK
  <2>6. RouteTypeOK'  BY <1>0, <2>1, <2>4, <2>5 DEF RouteInv, RouteTypeOK, RouteFlags, HopStates
  <2>7. HopsInOrder'  BY <2>1, <2>2, <2>4 DEF RouteInv, HopsInOrder
  <2>8. PingInv'  BY <2>1, <2>4, <2>5 DEF RouteInv, PingInv
  <2>9. ReadyMeansReady'  BY <1>a, <2>1, <2>2, <2>4 DEF RouteInv, ReadyMeansReady
  <2> QED
    BY <2>1, <2>3, <2>6, <2>7, <2>8, <2>9 DEF RouteInv, BuildInv, NeverAbandoned, StoppedIsQuiet
<1>7. CASE KeepaliveTick
  <2> DEFINE gone == {h \in TooManyMisses : \A x \in TooManyMisses : h <= x}
             pinged == {h \in Hops : hops[h] = "ok" /\ \A x \in gone : h < x}
             marks == {[circuit |-> circuit, hop |-> h] : h \in gone}
  <2>1. /\ keepalive /\ routing /\ route = "ready" /\ circuit # 0
        /\ pings' = [h \in Hops |-> CASE h \in gone -> 0
                                       [] h \in pinged -> pings[h] + 1
                                       [] OTHER -> pings[h]]
        /\ UNCHANGED <<routing, wanted, circuit, circuits, awaited, greeted, vouched, syncs>>
    BY <1>7 DEF KeepaliveTick
  <2>f. Fail(marks, route, hops, rebuild, TRUE)  BY <1>7, Zenon DEF KeepaliveTick
  <2>2. (keepalive') <=> (gone = {})  BY <1>7, Zenon DEF KeepaliveTick
  <2>3. TooManyMisses \subseteq Hops /\ awaited = {}
    BY <2>1 DEF TooManyMisses, RouteInv, BuildInv
  <2>4. \A h \in pinged : pings[h] <= MissLimit /\ h \notin gone
    <3> SUFFICES ASSUME NEW h \in pinged PROVE pings[h] <= MissLimit /\ h \notin gone  OBVIOUS
    <3>0. h \in Hops /\ hops[h] = "ok" /\ pings[h] \in 0..MissLimit + 1
      BY DEF RouteInv, RouteTypeOK
    <3>1. CASE TooManyMisses = {}  BY <3>0, <3>1 DEF TooManyMisses
    <3>2. CASE TooManyMisses # {}
      <4>1. PICK m \in TooManyMisses : \A x \in TooManyMisses : m <= x
        BY <2>3, <3>2, FirstHop
      <4>2. m \in gone /\ h < m /\ m \in Hops  BY <2>3, <4>1
      <4>3. h \notin TooManyMisses  BY <3>0, <4>1, <4>2 DEF Hops
      <4> QED  BY <3>0, <4>3 DEF TooManyMisses
    <3> QED  BY <3>1, <3>2
  <2>5. marks = {} <=> gone = {}  OBVIOUS
  <2> HIDE DEF marks, gone
  <2>6. (rebuild') <=> (rebuild \/ marks # {})
    <3>1. (rebuild') <=> (rebuild \/ (marks # {} /\ TRUE))  BY <2>f, Zenon DEF Fail
    <3> QED  BY <3>1, Zenon
  <2>7. /\ route' = IF gone = {} THEN route ELSE "degraded"
        /\ hops' \in [Hops -> HopStates] /\ (gone = {} => hops' = hops)
        /\ \A h \in Hops : (hops'[h] = "none") <=> (hops[h] = "none")
    BY <1>a, <2>5, <2>f, Failing
  <2>8. /\ pings' \in [Hops -> 0..MissLimit + 1]
        /\ \A h \in Hops : pings'[h] > 0 => pings[h] > 0 \/ hops[h] = "ok"
    <3> SUFFICES ASSUME NEW h \in Hops
                 PROVE  /\ pings'[h] \in 0..MissLimit + 1
                        /\ pings'[h] > 0 => pings[h] > 0 \/ hops[h] = "ok"
      BY <2>1
    <3>1. pings[h] \in 0..MissLimit + 1  BY DEF RouteInv, RouteTypeOK
    <3> QED  BY <2>1, <2>4, <3>1
  <2>9. RouteTypeOK'
    BY <1>0, <2>1, <2>7, <2>8 DEF RouteInv, RouteTypeOK, RouteFlags, HopStates
  <2>10. HopsInOrder'  BY <2>7 DEF RouteInv, HopsInOrder
  <2>11. PingInv'  BY <2>1, <2>7, <2>8 DEF RouteInv, PingInv, ReadyMeansReady
  <2>12. ReadyMeansReady'  BY <2>1, <2>7 DEF RouteInv, ReadyMeansReady
  <2>13. NeverAbandoned'
    <3>1. CASE gone = {}  BY <2>1, <2>2, <2>7, <3>1 DEF NeverAbandoned
    <3>2. CASE gone # {}  BY <2>5, <2>6, <3>2 DEF NeverAbandoned
    <3> QED  BY <3>1, <3>2
  <2> QED
    BY <2>1, <2>3, <2>9, <2>10, <2>11, <2>12, <2>13 DEF RouteInv, BuildInv, StoppedIsQuiet
<1>8. CASE UNCHANGED routeVars
  BY <1>8 DEF routeVars, RouteInv, RouteTypeOK, HopsInOrder, BuildInv, PingInv, ReadyMeansReady,
     NeverAbandoned, StoppedIsQuiet
<1> QED
  BY <1>1, <1>2, <1>3, <1>4, <1>5, <1>6, <1>7, <1>8 DEF RouteNext, HelloTimesOut

\* Whatever starts, stops, timers and late answers come in the middle of a build, one build
\* goes on at a time, a ready route has been acknowledged hop by hop on its own circuit, a
\* manager that runs has a next step, and one that is stopped has none.
THEOREM RoutesAreVouchedFor == RouteSpec => []RouteSound
<1>1. RouteInit => RouteInv
  <2> SUFFICES ASSUME RouteInit PROVE RouteInv  OBVIOUS
  <2>1. RouteFlags /\ ~routing /\ ~keepalive /\ ~rebuild  BY Zenon DEF RouteInit, RouteFlags
  <2>2. RouteTypeOK
    BY <2>1, RouteAssumption DEF RouteAssumption, RouteInit, RouteTypeOK, RouteFlags, CreateHops,
       NoPings, Hops
  <2> QED
    BY <2>1, <2>2 DEF RouteInit, RouteInv, HopsInOrder, BuildInv, PingInv, ReadyMeansReady,
       NeverAbandoned, StoppedIsQuiet, CreateHops, NoPings, Hops
<1>2. RouteInv /\ [RouteNext]_routeVars => RouteInv'
  BY RouteStep
<1>3. RouteInv => RouteSound
  <2> SUFFICES ASSUME RouteInv PROVE OneBuild  BY DEF RouteInv, RouteSound
  <2>1. CASE awaited = {}  BY <2>1, FS_EmptySet DEF OneBuild
  <2>2. ASSUME NEW hello \in awaited PROVE OneBuild
    <3>1. awaited = {hello} /\ hello.circuit = circuit /\ circuit = circuits
      BY DEF RouteInv, BuildInv
    <3>2. Cardinality({hello}) = 1  BY FS_Singleton
    <3>3. Cardinality(awaited) <= 1  BY <3>1, <3>2
    <3> QED  BY <3>1, <3>3 DEF OneBuild
  <2> QED  BY <2>1, <2>2
<1> QED  BY <1>1, <1>2, <1>3, PTL DEF RouteSpec
-----------------------------------------------------------------------------
(***************************************************************************)
(* The connection of a conversation (Reconnection).                        *)
(***************************************************************************)

\* What is open is held, what is held has a heartbeat, a stopped manager holds nothing, and
\* one that wants a connection has it or does something about it.
ConnInv ==
    /\ open \subseteq {conn} \ {0}
    /\ heartbeat <=> conn # 0
    /\ ping => heartbeat
    /\ conClosed => conn = 0 /\ ~reconnect /\ conState = "closed"
    /\ opening = "decide" => deciding
    /\ conState \in {"connected", "connecting", "reconnecting"} =>
           conn # 0 \/ deciding \/ reconnect \/ opening = "connect" \/ neglected

ReconnectInv == ReconnectTypeOK /\ ConnInv

ConnFlags ==
    /\ conClosed \in BOOLEAN /\ deciding \in BOOLEAN /\ reconnect \in BOOLEAN
    /\ heartbeat \in BOOLEAN /\ ping \in BOOLEAN /\ neglected \in BOOLEAN

\* Every action leaves Booleans in the flags.
LEMMA ConnFlagTypes == ASSUME ConnFlags, [ReconnectNext]_conVars PROVE ConnFlags'
<1> USE DEF ConnFlags
<1>1. CASE StartConnection  BY <1>1, Zenon DEF StartConnection, OpenConnection
<1>2. CASE StopConnection  BY <1>2, Zenon DEF StopConnection, Detach
<1>3. CASE ReconnectTimer  BY <1>3, Zenon DEF ReconnectTimer, OpenConnection
<1>4. CASE Connected  BY <1>4, Zenon DEF Connected
<1>5. CASE OpenFails  BY <1>5, Zenon DEF OpenFails, Detach, ScheduleReconnect
<1>6. CASE Flushed  BY <1>6, Zenon DEF Flushed
<1>7. CASE Decides  BY <1>7, Zenon DEF Decides, Decided, Outcome
<1>8. CASE DecisionFails  BY <1>8, Zenon DEF DecisionFails
<1>9. CASE SendUnconnected  BY <1>9, Zenon DEF SendUnconnected
<1>10. CASE ConnectionLost  BY <1>10, Zenon DEF ConnectionLost, Lose, Detach, ScheduleReconnect
<1>11. CASE SendPing \/ PongArrives  BY <1>11, Zenon DEF SendPing, PongArrives
<1>12. CASE UNCHANGED conVars  BY <1>12, Zenon DEF conVars
<1> QED
  BY <1>1, <1>2, <1>3, <1>4, <1>5, <1>6, <1>7, <1>8, <1>9, <1>10, <1>11, <1>12
  DEF ReconnectNext, OpenEnds

\* Every action keeps the types, and what is held, watched and wanted.
LEMMA ConnStep == ASSUME ReconnectInv, [ReconnectNext]_conVars PROVE ReconnectInv'
<1> USE ReconnectAssumption DEF ReconnectAssumption, ReconnectInv, ReconnectTypeOK, ConnInv,
        Connections
<1>0. ConnFlags'  BY ConnFlagTypes DEF ConnFlags
<1> USE <1>0 DEF ConnFlags
<1>1. CASE StartConnection
  <2>1. neglected' <=> neglected \/ (~(conn # 0 /\ conState = "connected")
                                      /\ opening \in {"flush", "decide"})
    BY <1>1, Zenon DEF StartConnection, OpenConnection
  <2> QED  BY <1>1, <2>1 DEF StartConnection, OpenConnection
<1>2. CASE StopConnection  BY <1>2 DEF StopConnection, Detach
<1>3. CASE ReconnectTimer
  <2>1. neglected' <=> neglected \/ opening \in {"flush", "decide"}
    BY <1>3, Zenon DEF ReconnectTimer, OpenConnection
  <2> QED  BY <1>3, <2>1 DEF ReconnectTimer, OpenConnection
<1>4. CASE Connected
  <2>1. CASE conClosed
    <3>1. /\ conns' = conns + 1 /\ conns < MaxConns /\ opening' = "no" /\ starts' = starts
          /\ UNCHANGED <<conn, open, conState, heartbeat, ping, reconnect, conClosed>>
      BY <1>4, <2>1 DEF Connected, Unwanted
    <3> QED  BY <2>1, <3>1
  <2>2. CASE ~conClosed
    <3>1. heartbeat' /\ ~ping'  BY <1>4, <2>2, Zenon DEF Connected, Unwanted
    <3>2. /\ conns' = conns + 1 /\ conns < MaxConns /\ ~conClosed'
          /\ conn' = conns' /\ open' = (open \ {conn}) \cup {conns'}
          /\ conState' = "connected" /\ opening' = "flush" /\ starts' = starts
      BY <1>4, <2>2 DEF Connected, Unwanted
    <3> QED  BY <3>1, <3>2
  <2> QED  BY <2>1, <2>2
<1>5. CASE OpenFails
  <2>1. deciding' <=> deciding \/ Schedules  BY <1>5, Zenon DEF OpenFails, ScheduleReconnect
  <2> QED  BY <1>5, <2>1 DEF OpenFails, Detach, Schedules
<1>6. CASE Flushed  BY <1>6 DEF Flushed
<1>7. CASE Decides  BY <1>7 DEF Decides, Decided, Outcome, Schedules
<1>8. CASE DecisionFails  BY <1>8 DEF DecisionFails
<1>9. CASE SendUnconnected  BY <1>9 DEF SendUnconnected, Schedules
<1>10. CASE ConnectionLost
  <2>1. deciding' <=> deciding \/ Schedules
    BY <1>10, Zenon DEF ConnectionLost, Lose, ScheduleReconnect
  <2> QED  BY <1>10, <2>1 DEF ConnectionLost, Lose, Detach, Schedules
<1>11. CASE SendPing \/ PongArrives  BY <1>11 DEF SendPing, PongArrives
<1>12. CASE UNCHANGED conVars  BY <1>12 DEF conVars
<1> QED
  BY <1>1, <1>2, <1>3, <1>4, <1>5, <1>6, <1>7, <1>8, <1>9, <1>10, <1>11, <1>12
  DEF ReconnectNext, OpenEnds

\* However opens, stops and losses overlap, no connection is left open that the manager does
\* not hold, a stopped one holds none and plans none, and one that says it is connected or
\* on the way there watches a connection or is about to get one.
THEOREM ConnectionIsWatched == ReconnectSpec => []ReconnectSound
<1>1. ReconnectInit => ReconnectInv
  <2> SUFFICES ASSUME ReconnectInit PROVE ReconnectInv  OBVIOUS
  <2>1. ConnFlags  BY Zenon DEF ReconnectInit, ConnFlags
  <2> QED
    BY <2>1, ReconnectAssumption DEF ReconnectAssumption, ReconnectInit, ReconnectInv, ConnFlags,
       ReconnectTypeOK, ConnInv, Connections
<1>2. ReconnectInv /\ [ReconnectNext]_conVars => ReconnectInv'
  BY ConnStep
<1>3. ReconnectInv => ReconnectSound
  BY DEF ReconnectInv, ReconnectTypeOK, ConnInv, ReconnectSound, NoConnectionLeft,
     WatchedOrRecovering
<1> QED  BY <1>1, <1>2, <1>3, PTL DEF ReconnectSpec
-----------------------------------------------------------------------------
(***************************************************************************)
(* Friend requests (Friendship).                                           *)
(***************************************************************************)

\* What a profile and a frame say about who has asked or accepted, w being those who have.
ProfileOK(u, profile, w) ==
    /\ profile.st = "normal" \/ profile.answer = "accept" => w = Users
    /\ profile.st = "request_out" => u \in w
    /\ profile.st = "request_in" \/ profile.asks => Other(u) \in w

FrameOK(frame, w) ==
    /\ frame.kind = "req" => frame.from \in w
    /\ frame.kind = "accept" => w = Users

ProfilesOK(of, w) == \A u \in Users : ProfileOK(u, of[u], w)
AnswersOK(a, w) == \A u \in Users : a[u] = "accept" => w = Users
FramesOK(frames, w) == \A frame \in frames : FrameOK(frame, w)

\* Whatever of this is written anywhere is true, until a user has undone a block.
ConsentInv ==
    ~restored =>
        /\ ProfilesOK(disk, wants) /\ ProfilesOK(view, wants)
        /\ AnswersOK(answering, wants)
        /\ FramesOK(friendFrames, wants) /\ FramesOK(handling, wants)

FriendInv == FriendTypeOK /\ ConsentInv

LEMMA OtherUser == ASSUME NEW u \in Users PROVE Other(u) \in Users /\ Other(Other(u)) = u
  BY DEF Users, Other

LEMMA ProfileIs ==
    ASSUME NEW s \in Statuses, NEW n \in 0..MaxFrames, NEW a \in BOOLEAN, NEW r \in Answers
    PROVE  [st |-> s, seen |-> n, asks |-> a, answer |-> r] \in Profile
  BY DEF Profile

LEMMA ProfileStays ==
    ASSUME NEW f \in [Users -> Profile], NEW u \in Users, NEW p \in Profile
    PROVE  [f EXCEPT ![u] = p] \in [Users -> Profile]
  OBVIOUS

LEMMA ProfileAnswers ==
    ASSUME NEW q \in Profile, NEW b \in BOOLEAN, NEW a \in Answers
    PROVE  [q EXCEPT !.asks = b, !.answer = a] \in Profile
  BY Zenon DEF Profile

\* What a sent frame does to the frames.
LEMMA SendTypes ==
    ASSUME FriendTypeOK, NEW u \in Users, NEW kind \in {"req", "accept", "decline"},
           Send(u, kind) \/ NotSent
    PROVE  friendFrames' \subseteq Frame /\ clock' \in [Users -> 0..MaxFrames]
<1>1. CASE Send(u, kind)
  <2>1. clock[u] \in 0..MaxFrames /\ clock[u] + 1 \in 1..MaxFrames
    BY <1>1, FriendAssumption DEF FriendAssumption, FriendTypeOK, Send
  <2>2. clock' = [clock EXCEPT ![u] = clock[u] + 1]  BY <1>1 DEF Send
  <2>3. clock' \in [Users -> 0..MaxFrames] /\ clock'[u] = clock[u] + 1
    BY <2>1, <2>2, FriendAssumption DEF FriendAssumption, FriendTypeOK
  <2>4. [from |-> u, kind |-> kind, ts |-> clock'[u]] \in Frame  BY <2>1, <2>3 DEF Frame
  <2> QED  BY <1>1, <2>3, <2>4 DEF Send, FriendTypeOK
<1>2. CASE NotSent  BY <1>2 DEF NotSent, FriendTypeOK
<1> QED  BY <1>1, <1>2

LEMMA OneFlag ==
    ASSUME NEW f \in [Users -> BOOLEAN], NEW u \in Users, NEW b \in BOOLEAN
    PROVE  [f EXCEPT ![u] = b] \in [Users -> BOOLEAN]
  OBVIOUS

LEMMA TickingTypes ==
    ASSUME NEW f \in [Users -> BOOLEAN], NEW u \in Users
    PROVE  /\ [f EXCEPT ![u] = TRUE] \in [Users -> BOOLEAN]
           /\ [f EXCEPT ![u] = FALSE] \in [Users -> BOOLEAN]
<1>1. TRUE \in BOOLEAN /\ FALSE \in BOOLEAN  BY Zenon
<1> QED  BY <1>1, OneFlag, Zenon

\* A friend's profile after a frame, after an addition and after a choice is a profile.
LEMMA AppliedTypes ==
    ASSUME NEW p \in Profile, NEW frame \in Frame
    PROVE  Applied(p, frame) \in Profile
<1> DEFINE status == CASE frame.kind = "req" -> RequestedStatus(p.st)
                       [] frame.kind = "accept" -> "normal"
                       [] frame.kind = "decline" -> "blocked"
           new == [st |-> status, seen |-> Later(p.seen, frame.ts),
                   asks |-> status = "request_in", answer |-> "none"]
<1>1. status \in Statuses  BY DEF Profile, Frame, Statuses, RequestedStatus
<1>2. Later(p.seen, frame.ts) \in 0..MaxFrames
  BY FriendAssumption DEF FriendAssumption, Profile, Frame, Later
<1>3. (status = "request_in") \in BOOLEAN  BY Zenon
<1>4. "none" \in Answers  BY DEF Answers
<1> HIDE DEF status
<1>5. new \in Profile  BY <1>1, <1>2, <1>3, <1>4, ProfileIs, Zenon
<1>6. Applied(p, frame) = IF p.st = "none" /\ frame.kind # "req" THEN p ELSE new
  BY Zenon DEF Applied, status
<1> QED  BY <1>5, <1>6

LEMMA AddTypes ==
    ASSUME FriendTypeOK, NEW u \in Users, AddFriend(u)
    PROVE  disk' \in [Users -> Profile]
<1> DEFINE p == disk[u]
           v == view[u]
           b == v.st # "request_in" /\ p.asks
           r == IF v.st = "request_in" THEN "none" ELSE p.answer
           new == [st |-> Added(v), seen |-> 0, asks |-> b, answer |-> r]
<1>1. p \in Profile /\ v \in Profile  BY DEF FriendTypeOK
<1>2. Added(v) \in Statuses  BY <1>1 DEF Profile, Statuses, Added
<1>3. 0 \in 0..MaxFrames  BY FriendAssumption DEF FriendAssumption
<1>4. b \in BOOLEAN  BY Zenon
<1>5. r \in Answers  BY <1>1 DEF Profile, Answers
<1>6. disk' = [disk EXCEPT ![u] = new]  BY DEF AddFriend
<1> HIDE DEF b, r
<1>7. new \in Profile  BY <1>2, <1>3, <1>4, <1>5, ProfileIs, Zenon
<1> HIDE DEF new
<1>8. [disk EXCEPT ![u] = new] \in [Users -> Profile]  BY <1>7, ProfileStays DEF FriendTypeOK
<1> QED  BY <1>6, <1>8

LEMMA SaveTypes ==
    ASSUME FriendTypeOK, NEW u \in Users, NEW p \in Profile, SaveProfile(u, p)
    PROVE  disk' \in [Users -> Profile] /\ view' \in [Users -> Profile]
  BY ProfileStays DEF FriendTypeOK, SaveProfile

\* Every action keeps the types.
LEMMA FriendTypes == ASSUME FriendTypeOK, [FriendNext]_friendVars PROVE FriendTypeOK'
<1> USE DEF FriendTypeOK
<1>0. "none" \in Answers /\ FALSE \in BOOLEAN  BY Zenon DEF Answers
<1>1. ASSUME NEW u \in Users, AddFriend(u) PROVE FriendTypeOK'
  <2>1. excused' \in BOOLEAN  BY <1>1, Zenon DEF AddFriend
  <2>2. disk' \in [Users -> Profile]  BY <1>1, AddTypes
  <2>3. Send(u, "req") \/ NotSent  BY <1>1 DEF AddFriend
  <2>4. friendFrames' \subseteq Frame /\ clock' \in [Users -> 0..MaxFrames]  BY <2>3, SendTypes
  <2>5. choices' \in 0..MaxChoices
    BY <1>1, FriendAssumption DEF FriendAssumption, AddFriend, Choose
  <2>6. wants' \subseteq Users
        /\ UNCHANGED <<view, handling, ticking, answering, restored>>  BY <1>1 DEF AddFriend
  <2> QED  BY <2>1, <2>2, <2>4, <2>5, <2>6
<1>2. ASSUME NEW u \in Users, SendRequest(u) PROVE FriendTypeOK'
  <2>1. ticking' \in [Users -> BOOLEAN]  BY <1>2, TickingTypes DEF SendRequest
  <2>2. friendFrames' \subseteq Frame /\ clock' \in [Users -> 0..MaxFrames]
    BY <1>2, SendTypes DEF SendRequest
  <2> QED  BY <1>2, <2>1, <2>2 DEF SendRequest
<1>3. ASSUME NEW u \in Users, RequestSent(u) PROVE FriendTypeOK'
  <2>1. ticking' \in [Users -> BOOLEAN]  BY <1>3, TickingTypes DEF RequestSent
  <2>2. excused' \in BOOLEAN  BY <1>3, Zenon DEF RequestSent
  <2>3. [disk[u] EXCEPT !.st = view[u].st, !.seen = view[u].seen] \in Profile  BY DEF Profile
  <2>4. disk' \in [Users -> Profile]  BY <1>3, <2>3, ProfileStays DEF RequestSent
  <2> QED  BY <1>3, <2>1, <2>2, <2>4 DEF RequestSent
<1>4. ASSUME NEW u \in Users, NEW a \in {"accept", "decline"}, Answer(u, a) PROVE FriendTypeOK'
  <2>1. excused' \in BOOLEAN  BY <1>4, Zenon DEF Answer
  <2>2. choices' \in 0..MaxChoices
    BY <1>4, FriendAssumption DEF FriendAssumption, Answer, Choose
  <2>3. Send(u, a) \/ NotSent  BY <1>4 DEF Answer
  <2>4. friendFrames' \subseteq Frame /\ clock' \in [Users -> 0..MaxFrames]  BY <2>3, SendTypes
  <2>5. [disk[u] EXCEPT !.asks = view[u].asks, !.answer = a] \in Profile
    <3>1. disk[u] \in Profile /\ view[u].asks \in BOOLEAN /\ a \in Answers
      BY DEF Profile, Answers
    <3> QED  BY <3>1, ProfileAnswers
  <2>6. disk' \in [Users -> Profile] /\ view' \in [Users -> Profile]
    BY <1>4, <2>5, SaveTypes DEF Answer
  <2>7. answering' \in [Users -> Answers]  BY <1>4 DEF Answer, Answers
  <2>8. wants' \subseteq Users /\ UNCHANGED <<handling, ticking, restored>>  BY <1>4 DEF Answer
  <2> QED  BY <2>1, <2>2, <2>4, <2>6, <2>7, <2>8
<1>5. ASSUME NEW u \in Users, RetryAnswer(u) PROVE FriendTypeOK'
  <2>1. view[u].answer \in {"req", "accept", "decline"} /\ view[u].answer \in Answers
    BY <1>5 DEF RetryAnswer, Profile, Answers
  <2>2. friendFrames' \subseteq Frame /\ clock' \in [Users -> 0..MaxFrames]
    BY <1>5, <2>1, SendTypes DEF RetryAnswer
  <2> QED  BY <1>5, <2>1, <2>2 DEF RetryAnswer
<1>6. ASSUME NEW u \in Users, ApplyAnswer(u) PROVE FriendTypeOK'
  <2> DEFINE s == IF answering[u] = "accept" THEN "normal" ELSE "blocked"
             p == [st |-> s, seen |-> view[u].seen, asks |-> FALSE, answer |-> "none"]
  <2>1. s \in Statuses /\ view[u].seen \in 0..MaxFrames  BY DEF Statuses, Profile
  <2>2. SaveProfile(u, p)  BY <1>6, Zenon DEF ApplyAnswer
  <2> HIDE DEF s
  <2>3. p \in Profile  BY <1>0, <2>1, ProfileIs, Zenon
  <2> HIDE DEF p
  <2>4. disk' \in [Users -> Profile] /\ view' \in [Users -> Profile]  BY <2>2, <2>3, SaveTypes
  <2>5. excused' \in BOOLEAN  BY <1>6, Zenon DEF ApplyAnswer
  <2> QED  BY <1>6, <2>4, <2>5 DEF ApplyAnswer, Answers
<1>7. ASSUME NEW u \in Users, NEW s \in {"hidden", "blocked", "normal"}, ChangeStatus(u, s)
      PROVE  FriendTypeOK'
  <2> DEFINE p == [st |-> s, seen |-> view[u].seen, asks |-> FALSE, answer |-> "none"]
  <2>1. s \in Statuses /\ view[u].seen \in 0..MaxFrames  BY DEF Statuses, Profile
  <2>2. SaveProfile(u, p)  BY <1>7, Zenon DEF ChangeStatus
  <2>3. p \in Profile  BY <1>0, <2>1, ProfileIs, Zenon
  <2> HIDE DEF p
  <2>4. disk' \in [Users -> Profile] /\ view' \in [Users -> Profile]  BY <2>2, <2>3, SaveTypes
  <2>5. excused' \in BOOLEAN /\ restored' \in BOOLEAN  BY <1>7, Zenon DEF ChangeStatus
  <2>6. choices' \in 0..MaxChoices
    BY <1>7, FriendAssumption DEF FriendAssumption, ChangeStatus, Choose
  <2> QED  BY <1>7, <2>4, <2>5, <2>6 DEF ChangeStatus
<1>8. ASSUME NEW u \in Users, HydrateStore(u) PROVE FriendTypeOK'
  <2>1. view' \in [Users -> Profile]  BY <1>8, ProfileStays DEF HydrateStore
  <2> QED  BY <1>8, <2>1 DEF HydrateStore
<1>9. ASSUME NEW frame \in Frame, Arrives(frame) PROVE FriendTypeOK'
  BY <1>9 DEF Arrives
<1>10. ASSUME NEW frame \in Frame, Apply(frame) PROVE FriendTypeOK'
  <2>1. Other(frame.from) \in Users  BY OtherUser DEF Frame
  <2>2. disk' = [disk EXCEPT ![Other(frame.from)] = Applied(disk[Other(frame.from)], frame)]
    BY <1>10 DEF Apply
  <2>3. disk' \in [Users -> Profile]  BY <2>1, <2>2, AppliedTypes, ProfileStays
  <2>4. excused' \in BOOLEAN  BY <1>10, Zenon DEF Apply
  <2> QED  BY <1>10, <2>3, <2>4 DEF Apply
<1>11. ASSUME NEW frame \in Frame, LoseFrame(frame) PROVE FriendTypeOK'
  <2>1. excused' \in BOOLEAN  BY <1>11, Zenon DEF LoseFrame
  <2> QED  BY <1>11, <2>1 DEF LoseFrame
<1>12. CASE UNCHANGED friendVars  BY <1>12 DEF friendVars
<1> QED
  BY <1>1, <1>2, <1>3, <1>4, <1>5, <1>6, <1>7, <1>8, <1>9, <1>10, <1>11, <1>12
  DEF FriendNext, Working, Retrying, Receiving

\* Who has asked or accepted stays so, and so does what is said about it.
LEMMA MoreWants ==
    ASSUME NEW w, NEW w2, w \subseteq w2, w2 \subseteq Users
    PROVE  /\ \A u, p : ProfileOK(u, p, w) => ProfileOK(u, p, w2)
           /\ \A f : FrameOK(f, w) => FrameOK(f, w2)
           /\ \A d : ProfilesOK(d, w) => ProfilesOK(d, w2)
           /\ \A a : AnswersOK(a, w) => AnswersOK(a, w2)
           /\ \A fs : FramesOK(fs, w) => FramesOK(fs, w2)
<1>1. \A u, p : ProfileOK(u, p, w) => ProfileOK(u, p, w2)  BY DEF ProfileOK
<1>2. \A f : FrameOK(f, w) => FrameOK(f, w2)  BY DEF FrameOK
<1>3. \A a : AnswersOK(a, w) => AnswersOK(a, w2)  BY DEF AnswersOK
<1> QED  BY <1>1, <1>2, <1>3 DEF ProfilesOK, FramesOK

\* One profile is replaced.
LEMMA ReplaceProfile ==
    ASSUME NEW f \in [Users -> Profile], NEW u \in Users, NEW p, NEW w,
           ProfilesOK(f, w), ProfileOK(u, p, w)
    PROVE  ProfilesOK([f EXCEPT ![u] = p], w)
  BY DEF ProfilesOK

\* A frame is sent, or not.
LEMMA SendConsent ==
    ASSUME FriendTypeOK, NEW u \in Users, NEW kind, NEW w, Send(u, kind) \/ NotSent,
           FramesOK(friendFrames, w),
           kind = "req" => u \in w, kind = "accept" => w = Users
    PROVE  FramesOK(friendFrames', w)
<1>1. CASE Send(u, kind)
  <2> DEFINE new == [from |-> u, kind |-> kind, ts |-> clock'[u]]
  <2>1. FrameOK(new, w)  BY DEF FrameOK
  <2>2. friendFrames' = friendFrames \cup {new}  BY <1>1 DEF Send
  <2> QED  BY <2>1, <2>2 DEF FramesOK
<1>2. CASE NotSent  BY <1>2 DEF NotSent
<1> QED  BY <1>1, <1>2

\* A frame that says the truth leaves a profile that does.
LEMMA AppliedConsent ==
    ASSUME NEW p \in Profile, NEW frame \in Frame, NEW w \in SUBSET Users,
           ProfileOK(Other(frame.from), p, w), FrameOK(frame, w)
    PROVE  ProfileOK(Other(frame.from), Applied(p, frame), w)
<1> DEFINE u == Other(frame.from)
<1>1. u \in Users /\ frame.from \in Users /\ Other(u) = frame.from /\ Users = {u, frame.from}
  BY DEF Frame, Users, Other
<1>2. frame.kind \in {"req", "accept", "decline"} /\ p.st \in Statuses  BY DEF Frame, Profile
<1>3. CASE p.st = "none" /\ frame.kind # "req"  BY <1>3 DEF Applied
<1>4. CASE ~(p.st = "none" /\ frame.kind # "req")
  <2>1. CASE frame.kind = "req"
    <3> DEFINE s == RequestedStatus(p.st)
               new == [st |-> s, seen |-> Later(p.seen, frame.ts),
                       asks |-> s = "request_in", answer |-> "none"]
    <3>1. Applied(p, frame) = new  BY <2>1, Zenon DEF Applied
    <3>2. frame.from \in w  BY <2>1 DEF FrameOK
    <3>3. /\ s = "normal" => p.st \in {"normal", "request_out"}
          /\ s # "request_out"
      BY <1>2 DEF RequestedStatus, Statuses
    <3>4. s = "normal" => w = Users  BY <1>1, <3>2, <3>3 DEF ProfileOK
    <3> HIDE DEF s
    <3>5. (new.asks) <=> (s = "request_in")  BY Zenon
    <3>6. new.st = s /\ new.answer = "none"  OBVIOUS
    <3> HIDE DEF new
    <3>7. ProfileOK(u, new, w)  BY <1>1, <3>2, <3>3, <3>4, <3>5, <3>6 DEF ProfileOK
    <3> QED  BY <3>1, <3>7, Zenon
  <2>2. CASE frame.kind = "accept"
    <3>1. /\ Applied(p, frame).st = "normal" /\ Applied(p, frame).answer = "none"
      BY <1>4, <2>2, Zenon DEF Applied
    <3>2. w = Users  BY <2>2 DEF FrameOK
    <3> QED  BY <1>1, <3>1, <3>2 DEF ProfileOK
  <2>3. CASE frame.kind = "decline"
    <3> DEFINE new == [st |-> "blocked", seen |-> Later(p.seen, frame.ts),
                       asks |-> "blocked" = "request_in", answer |-> "none"]
    <3>1. Applied(p, frame) = new  BY <1>4, <2>3, Zenon DEF Applied
    <3>2. (new.asks) <=> ("blocked" = "request_in")  BY Zenon
    <3>3. new.st = "blocked" /\ new.answer = "none"  OBVIOUS
    <3> HIDE DEF new
    <3>4. ProfileOK(u, new, w)  BY <3>2, <3>3 DEF ProfileOK
    <3> QED  BY <3>1, <3>4, Zenon
  <2> QED  BY <1>2, <2>1, <2>2, <2>3
<1> QED  BY <1>3, <1>4

\* Every action says the truth about who has asked or accepted.
LEMMA ConsentStep ==
    ASSUME FriendTypeOK, FriendTypeOK', ConsentInv, [FriendNext]_friendVars
    PROVE  ConsentInv'
<1> SUFFICES ASSUME ~restored'
             PROVE  /\ ProfilesOK(disk', wants') /\ ProfilesOK(view', wants')
                    /\ AnswersOK(answering', wants')
                    /\ FramesOK(friendFrames', wants') /\ FramesOK(handling', wants')
  BY DEF ConsentInv
<1> DEFINE Goal == /\ ProfilesOK(disk', wants') /\ ProfilesOK(view', wants')
                   /\ AnswersOK(answering', wants')
                   /\ FramesOK(friendFrames', wants') /\ FramesOK(handling', wants')
<1>0. ASSUME ~restored
      PROVE  /\ ProfilesOK(disk, wants) /\ ProfilesOK(view, wants)
             /\ AnswersOK(answering, wants)
             /\ FramesOK(friendFrames, wants) /\ FramesOK(handling, wants)
  BY <1>0 DEF ConsentInv
<1>a. /\ disk \in [Users -> Profile] /\ view \in [Users -> Profile]
      /\ wants \subseteq Users /\ wants' \subseteq Users
  BY DEF FriendTypeOK
<1>1. ASSUME NEW u \in Users, AddFriend(u) PROVE Goal
  <2>1. ~restored /\ wants' = wants \cup {u}  BY <1>1 DEF AddFriend
  <2>2. /\ ProfilesOK(disk, wants') /\ ProfilesOK(view, wants')
        /\ AnswersOK(answering, wants')
        /\ FramesOK(friendFrames, wants') /\ FramesOK(handling, wants')
    BY <1>0, <1>a, <2>1, MoreWants
  <2> DEFINE p == disk[u]
             v == view[u]
             b == v.st # "request_in" /\ p.asks
             r == IF v.st = "request_in" THEN "none" ELSE p.answer
             new == [st |-> Added(v), seen |-> 0, asks |-> b, answer |-> r]
  <2>3. disk' = [disk EXCEPT ![u] = new]  BY <1>1 DEF AddFriend
  <2>4. ProfileOK(u, p, wants') /\ ProfileOK(u, v, wants')  BY <2>2 DEF ProfilesOK
  <2>5. ProfileOK(u, new, wants')
    <3>1. (new.asks) <=> b  BY Zenon
    <3>2. u \in wants' /\ Users = {u, Other(u)}  BY <2>1 DEF Users, Other
    <3>3. v.st = "request_in" => wants' = Users
      BY <1>a, <2>4, <3>2 DEF ProfileOK
    <3>4. new.st = Added(v) /\ new.answer = r  OBVIOUS
    <3>5. /\ Added(v) = "normal" => v.st \in {"normal", "request_in"}
          /\ Added(v) = "request_in" => FALSE
      BY DEF Added
    <3>6. new.st = "normal" \/ new.answer = "accept" => wants' = Users
      BY <2>4, <3>3, <3>4, <3>5 DEF ProfileOK
    <3>7. b => p.asks  BY Zenon
    <3>8. new.st # "request_in"  BY <3>4, <3>5
    <3>9. new.asks => Other(u) \in wants'  BY <2>4, <3>1, <3>7, Zenon DEF ProfileOK
    <3> HIDE DEF new
    <3> QED  BY <3>2, <3>6, <3>8, <3>9, Zenon DEF ProfileOK
  <2> HIDE DEF new
  <2>6. ProfilesOK(disk', wants')  BY <1>a, <2>2, <2>3, <2>5, ReplaceProfile
  <2>7. FramesOK(friendFrames', wants')
    <3>1. Send(u, "req") \/ NotSent  BY <1>1 DEF AddFriend
    <3>2. u \in wants'  BY <2>1
    <3> QED  BY <2>2, <3>1, <3>2, SendConsent
  <2>8. UNCHANGED <<view, handling, answering>>  BY <1>1 DEF AddFriend
  <2> QED  BY <2>2, <2>6, <2>7, <2>8
<1>2. ASSUME NEW u \in Users, SendRequest(u) PROVE Goal
  <2>1. ~restored /\ UNCHANGED <<disk, view, handling, answering, wants>>  BY <1>2 DEF SendRequest
  <2>2. u \in wants  BY <1>0, <1>2, <2>1 DEF SendRequest, ProfilesOK, ProfileOK
  <2>3. FramesOK(friendFrames', wants)  BY <1>0, <1>2, <2>1, <2>2, SendConsent DEF SendRequest
  <2> QED  BY <1>0, <2>1, <2>3
<1>3. ASSUME NEW u \in Users, RequestSent(u) PROVE Goal
  <2>1. ~restored /\ UNCHANGED <<view, friendFrames, handling, answering, wants>>
    BY <1>3 DEF RequestSent
  <2> DEFINE new == [disk[u] EXCEPT !.st = view[u].st, !.seen = view[u].seen]
  <2>2. disk' = [disk EXCEPT ![u] = new]  BY <1>3 DEF RequestSent
  <2>3. disk[u] \in Profile  BY <1>a
  <2>4. new.st = view[u].st /\ new.answer = disk[u].answer /\ new.asks = disk[u].asks
    BY <2>3 DEF Profile
  <2>5. ProfileOK(u, disk[u], wants) /\ ProfileOK(u, view[u], wants)
    BY <1>0, <2>1 DEF ProfilesOK
  <2> HIDE DEF new
  <2>6. ProfileOK(u, new, wants)  BY <2>4, <2>5 DEF ProfileOK
  <2>7. ProfilesOK(disk', wants)  BY <1>0, <1>a, <2>1, <2>2, <2>6, ReplaceProfile
  <2> QED  BY <1>0, <2>1, <2>7
<1>4. ASSUME NEW u \in Users, NEW a \in {"accept", "decline"}, Answer(u, a) PROVE Goal
  <2>1. /\ ~restored /\ UNCHANGED <<handling>>
        /\ wants' = IF a = "accept" THEN wants \cup {u} ELSE wants
        /\ view[u].asks
    BY <1>4 DEF Answer
  <2>2. /\ ProfilesOK(disk, wants') /\ ProfilesOK(view, wants')
        /\ AnswersOK(answering, wants')
        /\ FramesOK(friendFrames, wants') /\ FramesOK(handling, wants')
    BY <1>0, <1>a, <2>1, MoreWants
  <2>3. ProfileOK(u, disk[u], wants') /\ ProfileOK(u, view[u], wants')  BY <2>2 DEF ProfilesOK
  <2>4. Other(u) \in wants'  BY <2>1, <2>3 DEF ProfileOK
  <2>5. a = "accept" => wants' = Users
    <3>1. Users = {u, Other(u)}  BY DEF Users, Other
    <3> QED  BY <1>a, <2>1, <2>4, <3>1
  <2>6. CASE Send(u, a) /\ answering' = [answering EXCEPT ![u] = a] /\ UNCHANGED <<disk, view>>
    <3>1. FramesOK(friendFrames', wants')
      <4>1. a # "req"  OBVIOUS
      <4> QED  BY <2>2, <2>5, <2>6, <4>1, SendConsent
    <3>2. AnswersOK(answering', wants')  BY <2>2, <2>5, <2>6 DEF AnswersOK, FriendTypeOK
    <3> QED  BY <2>1, <2>2, <2>6, <3>1, <3>2
  <2>7. CASE /\ NotSent /\ SaveProfile(u, [disk[u] EXCEPT !.asks = view[u].asks, !.answer = a])
             /\ UNCHANGED answering
    <3> DEFINE new == [disk[u] EXCEPT !.asks = view[u].asks, !.answer = a]
    <3>1. new.st = disk[u].st /\ new.asks = view[u].asks /\ new.answer = a
      BY <1>a DEF Profile
    <3>2. disk' = [disk EXCEPT ![u] = new] /\ view' = [view EXCEPT ![u] = new]
      BY <2>7 DEF SaveProfile
    <3> HIDE DEF new
    <3>3. ProfileOK(u, new, wants')  BY <2>3, <2>5, <3>1 DEF ProfileOK
    <3>4. ProfilesOK(disk', wants') /\ ProfilesOK(view', wants')
      BY <1>a, <2>2, <3>2, <3>3, ReplaceProfile
    <3> QED  BY <2>1, <2>2, <2>7, <3>4 DEF NotSent
  <2> QED  BY <1>4, <2>6, <2>7 DEF Answer
<1>5. ASSUME NEW u \in Users, RetryAnswer(u) PROVE Goal
  <2>1. ~restored /\ UNCHANGED <<disk, view, handling, wants>>  BY <1>5 DEF RetryAnswer
  <2> DEFINE a == view[u].answer
  <2>2. a \in {"accept", "decline"}  BY <1>5, <1>a DEF RetryAnswer, Profile, Answers
  <2>3. a = "accept" => wants = Users  BY <1>0, <2>1 DEF ProfilesOK, ProfileOK
  <2>4. Send(u, a) /\ answering' = [answering EXCEPT ![u] = a]  BY <1>5 DEF RetryAnswer
  <2> HIDE DEF a
  <2>5. FramesOK(friendFrames', wants)  BY <1>0, <2>1, <2>2, <2>3, <2>4, SendConsent
  <2>6. AnswersOK(answering', wants)  BY <1>0, <2>1, <2>3, <2>4 DEF AnswersOK, FriendTypeOK
  <2> QED  BY <1>0, <2>1, <2>5, <2>6
<1>6. ASSUME NEW u \in Users, ApplyAnswer(u) PROVE Goal
  <2>1. ~restored /\ UNCHANGED <<friendFrames, handling, wants>>  BY <1>6 DEF ApplyAnswer
  <2> DEFINE s == IF answering[u] = "accept" THEN "normal" ELSE "blocked"
             new == [st |-> s, seen |-> view[u].seen, asks |-> FALSE, answer |-> "none"]
  <2>2. SaveProfile(u, new)  BY <1>6, Zenon DEF ApplyAnswer
  <2>3. s = "normal" => wants = Users  BY <1>0, <2>1 DEF AnswersOK
  <2>4. s \in {"normal", "blocked"}  OBVIOUS
  <2>5. new.st = s /\ new.answer = "none"  OBVIOUS
  <2>6. ~new.asks  BY Zenon
  <2> HIDE DEF s, new
  <2>7. ProfileOK(u, new, wants)  BY <2>3, <2>4, <2>5, <2>6 DEF ProfileOK
  <2>8. ProfilesOK(disk', wants) /\ ProfilesOK(view', wants)
    BY <1>0, <1>a, <2>1, <2>2, <2>7, ReplaceProfile DEF SaveProfile
  <2>9. AnswersOK(answering', wants)
    BY <1>0, <1>6, <2>1 DEF ApplyAnswer, AnswersOK, FriendTypeOK
  <2> QED  BY <1>0, <2>1, <2>8, <2>9
<1>7. ASSUME NEW u \in Users, NEW s \in {"hidden", "blocked", "normal"}, ChangeStatus(u, s)
      PROVE  Goal
  <2>1. UNCHANGED <<friendFrames, handling, wants, answering>>  BY <1>7 DEF ChangeStatus
  <2>2. ~restored /\ s # "normal"  BY <1>7 DEF ChangeStatus
  <2> DEFINE new == [st |-> s, seen |-> view[u].seen, asks |-> FALSE, answer |-> "none"]
  <2>3. SaveProfile(u, new)  BY <1>7, Zenon DEF ChangeStatus
  <2>5. new.st = s /\ new.answer = "none"  OBVIOUS
  <2>6. ~new.asks  BY Zenon
  <2> HIDE DEF new
  <2>7. ProfileOK(u, new, wants)  BY <2>2, <2>5, <2>6 DEF ProfileOK
  <2>8. ProfilesOK(disk', wants) /\ ProfilesOK(view', wants)
    BY <1>0, <1>a, <2>2, <2>3, <2>7, ReplaceProfile DEF SaveProfile
  <2> QED  BY <1>0, <2>1, <2>2, <2>8
<1>8. ASSUME NEW u \in Users, HydrateStore(u) PROVE Goal
  <2>1. ~restored /\ UNCHANGED <<disk, friendFrames, handling, answering, wants>>
        /\ view' = [view EXCEPT ![u] = disk[u]]
    BY <1>8 DEF HydrateStore
  <2>2. ProfileOK(u, disk[u], wants)  BY <1>0, <2>1 DEF ProfilesOK
  <2>3. ProfilesOK(view', wants)  BY <1>0, <1>a, <2>1, <2>2, ReplaceProfile
  <2> QED  BY <1>0, <2>1, <2>3
<1>9. ASSUME NEW frame \in Frame, Arrives(frame) PROVE Goal
  <2>1. ~restored /\ UNCHANGED <<disk, view, friendFrames, answering, wants>>
        /\ handling' = handling \cup {frame} /\ frame \in friendFrames
    BY <1>9 DEF Arrives
  <2>2. FramesOK(handling', wants)  BY <1>0, <2>1 DEF FramesOK
  <2> QED  BY <1>0, <2>1, <2>2
<1>10. ASSUME NEW frame \in Frame, Apply(frame) PROVE Goal
  <2> DEFINE u == Other(frame.from)
             new == Applied(disk[u], frame)
  <2>1. /\ ~restored /\ UNCHANGED <<view, friendFrames, answering, wants>>
        /\ frame \in handling /\ handling' = handling \ {frame}
        /\ disk' = [disk EXCEPT ![u] = new]
    BY <1>10 DEF Apply
  <2>2. u \in Users  BY OtherUser DEF Frame
  <2>3. FrameOK(frame, wants) /\ ProfileOK(u, disk[u], wants) /\ disk[u] \in Profile
    BY <1>0, <1>a, <2>1, <2>2 DEF FramesOK, ProfilesOK
  <2>4. ProfileOK(u, new, wants)  BY <1>a, <2>3, AppliedConsent
  <2> HIDE DEF u, new
  <2>5. ProfilesOK(disk', wants)  BY <1>0, <1>a, <2>1, <2>2, <2>4, ReplaceProfile
  <2>6. FramesOK(handling', wants)  BY <1>0, <2>1 DEF FramesOK
  <2> QED  BY <1>0, <2>1, <2>5, <2>6
<1>11. ASSUME NEW frame \in Frame, LoseFrame(frame) PROVE Goal
  <2>1. ~restored /\ UNCHANGED <<disk, view, handling, answering, wants>>
        /\ friendFrames' = friendFrames \ {frame}
    BY <1>11 DEF LoseFrame
  <2>2. FramesOK(friendFrames', wants)  BY <1>0, <2>1 DEF FramesOK
  <2> QED  BY <1>0, <2>1, <2>2
<1>12. CASE UNCHANGED friendVars  BY <1>0, <1>12 DEF friendVars
<1> QED
  BY <1>1, <1>2, <1>3, <1>4, <1>5, <1>6, <1>7, <1>8, <1>9, <1>10, <1>11, <1>12
  DEF FriendNext, Working, Retrying, Receiving

\* Whatever requests and answers cross, are repeated, get lost or come late, and whatever of
\* them is written from a stale copy, nobody becomes a friend of somebody who has not asked
\* or accepted.
THEOREM FriendsByConsentOnly == FriendSpec => []FriendsSound
<1>1. FriendInit => FriendInv
  <2> SUFFICES ASSUME FriendInit PROVE FriendInv  OBVIOUS
  <2> DEFINE p == [st |-> "none", seen |-> 0, asks |-> FALSE, answer |-> "none"]
  <2>1. FALSE \in BOOLEAN /\ "none" \in Answers /\ "none" \in Statuses
    BY Zenon DEF Answers, Statuses
  <2>2. 0 \in 0..MaxFrames /\ 0 \in 0..MaxChoices  BY FriendAssumption DEF FriendAssumption
  <2>3. p \in Profile  BY <2>1, <2>2, ProfileIs, Zenon
  <2>4. disk = [u \in Users |-> p] /\ view = disk  BY Zenon DEF FriendInit
  <2>5. p.st = "none" /\ p.answer = "none"  OBVIOUS
  <2>6. ~p.asks  BY Zenon
  <2> HIDE DEF p
  <2>7. ticking \in [Users -> BOOLEAN] /\ restored \in BOOLEAN /\ excused \in BOOLEAN
    <3>1. ticking = [u \in Users |-> FALSE]  BY DEF FriendInit
    <3>2. restored \in BOOLEAN /\ excused \in BOOLEAN  BY Zenon DEF FriendInit
    <3>3. [u \in Users |-> FALSE] \in [Users -> BOOLEAN]  BY <2>1, Zenon
    <3> QED  BY <3>1, <3>2, <3>3
  <2>8. disk \in [Users -> Profile] /\ view \in [Users -> Profile]  BY <2>3, <2>4
  <2>9. FriendTypeOK  BY <2>1, <2>2, <2>7, <2>8 DEF FriendTypeOK, FriendInit
  <2>10. \A u \in Users : ProfileOK(u, disk[u], wants) /\ ProfileOK(u, view[u], wants)
    BY <2>4, <2>5, <2>6 DEF ProfileOK
  <2>11. ConsentInv
    BY <2>10 DEF FriendInit, ConsentInv, ProfilesOK, AnswersOK, FramesOK
  <2> QED  BY <2>9, <2>11 DEF FriendInv
<1>2. FriendInv /\ [FriendNext]_friendVars => FriendInv'
  BY FriendTypes, ConsentStep DEF FriendInv
<1>3. FriendInv => FriendsSound
  BY DEF FriendInv, ConsentInv, ProfilesOK, ProfileOK, FriendsSound, FriendsByConsent
<1> QED  BY <1>1, <1>2, <1>3, PTL DEF FriendSpec

-----------------------------------------------------------------------------
(***************************************************************************)
(* Adding friends (AddFriend).                                             *)
(***************************************************************************)

ProfileStates == {"request_out", "request_in", "normal", "blocked"}
Profiles == [id : 1..MaxProfiles, who : {c.who : c \in Codes}, dh : {c.dh : c \in Codes},
             st : ProfileStates]
AtWork == [at : {"queued", "adding", "saved", "done"}, code : Codes, seen : SUBSET Profiles]

AddFriendTypes ==
    /\ people \subseteq Profiles /\ friends \subseteq Profiles
    /\ calls \in [Calls -> AtWork \cup {Idle}] /\ queue \in [Invites -> Seq(Calls)]
    /\ used \subseteq Invites /\ joined \in [Invites -> Nat]
    /\ fails \in [LimitKeys -> Nat] /\ allowedAt \in [LimitKeys -> Nat]
    /\ time \in 0..MaxTime /\ attempts \in Nat /\ profiles \in 0..MaxProfiles
    /\ DOMAIN pinned = 1..MaxProfiles /\ overlapped \in BOOLEAN /\ interrupted \in BOOLEAN

\* Who waits for an invite and who holds it stand in its queue, each once, the holder first.
QueueInv ==
    /\ \A i \in Invites : \A n \in 1..Len(queue[i]) :
        /\ calls[queue[i][n]] # Idle
        /\ calls[queue[i][n]].code.once /\ calls[queue[i][n]].code.text = i
        /\ n > 1 => calls[queue[i][n]].at = "queued"
        /\ \A m \in 1..Len(queue[i]) : queue[i][m] = queue[i][n] => m = n
    /\ \A k \in Calls : calls[k] # Idle =>
        /\ calls[k].code.once => \E n \in 1..Len(queue[calls[k].code.text]) :
                                     queue[calls[k].code.text][n] = k
        /\ calls[k].at \in {"queued", "done"} => calls[k].code.once

\* An invite that has made a friend is marked as used, or the call that made him holds it.
Joining(k) == calls[k].at \in {"saved", "done"}
OnceInv ==
    /\ ~interrupted => \A i \in Invites :
        /\ joined[i] <= 1
        /\ joined[i] = 1 => i \in used \/ (queue[i] # <<>> /\ Joining(Head(queue[i])))
    /\ \A k \in Calls : calls[k].at = "adding" /\ calls[k].code.once
                            => calls[k].code.text \notin used

\* Whatever list a profile is in, it has the key it was made with.
Made(p) == p.id <= profiles /\ p.dh = pinned[p.id]
KeysInv ==
    /\ \A p \in people : Made(p)
    /\ \A p \in friends : Made(p)
    /\ \A k \in Calls : calls[k] # Idle => \A p \in calls[k].seen : Made(p)

\* A call that has run alone works with the profiles on disk, and its friend is not delayed.
AloneInv ==
    ~overlapped =>
        /\ \A k, l \in Underway : k = l
        /\ \A k \in Underway : /\ calls[k].at \in {"queued", "adding"} => calls[k].seen = people
                               /\ allowedAt[FinalKey(calls[k].code)] <= time
        /\ \A p, q \in people : p.who = q.who => p = q

ReadKeys == {TextKey(c) : c \in {d \in Codes : d.kind # "legacy"}}
                \cup {FriendKey(c) : c \in {d \in Codes : d.kind # "legacy"}}
SpacedInv ==
    ~overlapped => \A key \in ReadKeys : allowedAt[key] >= Cardinality(Waited(fails[key]))

AddInv == AddFriendTypes /\ QueueInv /\ OnceInv /\ KeysInv /\ AloneInv /\ SpacedInv

-----------------------------------------------------------------------------

LEMMA AddBounds ==
    /\ LongestWait \in Nat /\ MaxTries \in Nat /\ MaxTime \in Nat /\ MaxProfiles \in Nat
    /\ \A c, d \in Codes : c.text = d.text => c = d
  BY AddFriendAssumption

\* One row of k.
LEMMA RowOf ==
    ASSUME NEW a, NEW k \in Nat
    PROVE  IsFiniteSet({a} \X (1..k)) /\ Cardinality({a} \X (1..k)) = k
<1> DEFINE first == {a}
           second == 1..k
<1>1. IsFiniteSet(first) /\ Cardinality(first) = 1  BY FS_Singleton
<1>2. IsFiniteSet(second) /\ Cardinality(second) = k
  <2>1. 1 \in Int /\ k \in Int  OBVIOUS
  <2>2. IsFiniteSet(1..k) /\ Cardinality(1..k) = IF 1 > k THEN 0 ELSE k - 1 + 1
    BY <2>1, FS_Interval
  <2> QED  BY <2>2
<1> HIDE DEF first, second
<1>3. IsFiniteSet(first \X second)  BY <1>1, <1>2, FS_Product
<1>4. Cardinality(first \X second) = Cardinality(first) * Cardinality(second)
  BY <1>1, <1>2, FS_Product
<1>5. Cardinality(first \X second) = 1 * k  BY <1>1, <1>2, <1>4
<1>6. Cardinality(first \X second) = k  BY <1>5
<1> QED  BY <1>3, <1>6 DEF first, second

\* The units of n delays, counted.
LEMMA WaitedRow ==
    ASSUME NEW n \in Nat
    PROVE  /\ IsFiniteSet(Waited(n)) /\ Cardinality(Waited(n)) \in Nat
           /\ WaitAfter(n) \in Nat
           /\ Cardinality(Waited(n + 1)) = Cardinality(Waited(n)) + WaitAfter(n + 1)
           /\ n = 0 => Cardinality(Waited(n)) = 0
<1> DEFINE row == {n + 1} \X (1..WaitAfter(n + 1))
<1>1. \A m \in Nat : WaitAfter(m) \in 0..LongestWait  BY AddBounds DEF WaitAfter
<1>2. IsFiniteSet(Waited(n)) /\ Cardinality(Waited(n)) \in Nat
  <2>1. IsFiniteSet(1..n) /\ IsFiniteSet(1..LongestWait)  BY AddBounds, FS_Interval
  <2>2. IsFiniteSet((1..n) \X (1..LongestWait))  BY <2>1, FS_Product
  <2>3. Waited(n) \subseteq (1..n) \X (1..LongestWait)  BY DEF Waited
  <2>4. IsFiniteSet(Waited(n))  BY <2>2, <2>3, FS_Subset
  <2> QED  BY <2>4, FS_CardinalityType
<1>3. WaitAfter(n) \in Nat /\ WaitAfter(n + 1) \in 0..LongestWait
  BY <1>1, AddBounds
<1>4. IsFiniteSet(row) /\ Cardinality(row) = WaitAfter(n + 1)
  <2>1. WaitAfter(n + 1) \in Nat  BY <1>3, AddBounds
  <2> QED  BY <2>1, RowOf
<1>5. Waited(n + 1) = Waited(n) \cup row /\ Waited(n) \cap row = {}
  <2>1. \A i, t : <<i, t>> \in Waited(n + 1) <=> <<i, t>> \in Waited(n) \cup row
    BY <1>3, AddBounds DEF Waited
  <2>2. ASSUME NEW w \in Waited(n + 1) PROVE w \in Waited(n) \cup row
    <3>1. w = <<w[1], w[2]>>  BY <2>2 DEF Waited
    <3> HIDE DEF row
    <3> QED  BY <2>1, <2>2, <3>1
  <2>3. ASSUME NEW w \in Waited(n) \cup row PROVE w \in Waited(n + 1)
    <3>1. w = <<w[1], w[2]>>  BY <2>3 DEF Waited
    <3> QED  BY <2>1, <2>3, <3>1
  <2>4. \A w \in Waited(n) : w[1] # n + 1  BY DEF Waited
  <2> QED  BY <2>2, <2>3, <2>4
<1>6. Cardinality(Waited(n + 1)) = Cardinality(Waited(n)) + WaitAfter(n + 1)
  <2> HIDE DEF row
  <2>1. Cardinality(Waited(n) \cup row)
            = Cardinality(Waited(n)) + Cardinality(row) - Cardinality(Waited(n) \cap row)
    BY <1>2, <1>4, FS_Union
  <2>2. Cardinality(Waited(n) \cap row) = 0  BY <1>5, FS_EmptySet
  <2>3. WaitAfter(n + 1) \in Nat  BY <1>3, AddBounds
  <2>4. Cardinality(Waited(n + 1)) = Cardinality(Waited(n)) + Cardinality(row) - 0
    BY <1>5, <2>1, <2>2
  <2> QED  BY <1>2, <1>4, <2>3, <2>4
<1>7. n = 0 => Cardinality(Waited(n)) = 0
  <2>1. n = 0 => Waited(n) = {}  BY DEF Waited
  <2> QED  BY <2>1, FS_EmptySet
<1> QED  BY <1>2, <1>3, <1>6, <1>7

\* Of profiles there is a first.
LEMMA FirstProfile ==
    ASSUME NEW T \in SUBSET Profiles, T # {}
    PROVE  \E p \in T : \A q \in T : p.id <= q.id
<1> DEFINE J == 1..MaxProfiles
           I == {1..p.id : p \in T}
           R == StrictSubsetOrdering(J)
<1>1. IsFiniteSet(J) /\ \A p \in T : p.id \in J
  BY AddBounds, FS_Interval DEF Profiles
<1>2. IsWellFoundedOn(R, FiniteSubsetsOf(J))  BY FS_StrictSubsetOrderingWellFounded
<1>3. I \subseteq FiniteSubsetsOf(J) /\ I # {}
  <2>1. ASSUME NEW p \in T PROVE 1..p.id \in FiniteSubsetsOf(J)
    <3>1. 1..p.id \subseteq J /\ p.id \in Int  BY <1>1, AddBounds
    <3>2. IsFiniteSet(1..p.id)  BY <3>1, FS_Interval
    <3> QED  BY <3>1, <3>2 DEF FiniteSubsetsOf
  <2> QED  BY <2>1
<1>4. PICK x \in I : \A y \in I : ~(<<y, x>> \in R)
  <2> HIDE DEF I, R
  <2> QED  BY <1>2, <1>3, WFMin
<1>5. PICK p \in T : x = 1..p.id  OBVIOUS
<1>6. ASSUME NEW q \in T PROVE p.id <= q.id
  <2> SUFFICES ASSUME q.id < p.id PROVE FALSE  BY <1>1, AddBounds
  <2>1. 1..q.id \in I /\ 1..q.id \subseteq 1..p.id /\ p.id \in 1..p.id /\ p.id \notin 1..q.id
    BY <1>1, AddBounds
  <2>2. 1..q.id \subseteq J /\ 1..p.id \subseteq J  BY <1>1, AddBounds
  <2>3. <<1..q.id, 1..p.id>> \in R  BY <2>1, <2>2 DEF StrictSubsetOrdering
  <2> QED  BY <1>4, <1>5, <2>1, <2>3
<1> QED  BY <1>6

LEMMA ExistingIs ==
    ASSUME AddFriendTypes, NEW k \in Calls, calls[k] # Idle, Familiar(k) # {}
    PROVE  Existing(k) \in Familiar(k)
<1>1. calls[k] \in AtWork  BY DEF AddFriendTypes
<1>2. Familiar(k) \in SUBSET Profiles  BY <1>1 DEF Familiar, AtWork
<1>3. \E p \in Familiar(k) : \A q \in Familiar(k) : p.id <= q.id  BY <1>2, FirstProfile
<1> QED  BY <1>3 DEF Existing

LEMMA CallIs ==
    ASSUME AddFriendTypes, NEW k \in Calls
    PROVE  /\ calls[k].at # "idle" <=> calls[k] # Idle
           /\ calls[k] # Idle => /\ calls[k] \in AtWork /\ calls[k].code \in Codes
                                 /\ calls[k].seen \subseteq Profiles
                                 /\ calls[k].at \in {"queued", "adding", "saved", "done"}
           /\ calls[k].at \in {"idle", "queued", "adding", "saved", "done"}
<1>1. calls[k] \in AtWork \cup {Idle}  BY DEF AddFriendTypes
<1>2. Idle.at = "idle"  BY DEF Idle
<1>3. calls[k] \in AtWork =>
          /\ calls[k].code \in Codes /\ calls[k].seen \subseteq Profiles
          /\ calls[k].at \in {"queued", "adding", "saved", "done"}
  BY DEF AtWork
<1> QED  BY <1>1, <1>2, <1>3

LEMMA KeysOf ==
    ASSUME NEW c \in Codes
    PROVE  /\ TextKey(c) \in LimitKeys /\ FriendKey(c) \in LimitKeys /\ FinalKey(c) \in LimitKeys
           /\ c.once => c.text \in Invites
           /\ c.kind = "legacy" => TextKey(c) \notin ReadKeys
<1>1. ASSUME c.kind = "legacy", NEW d \in Codes, d.kind # "legacy"
      PROVE  TextKey(c) # TextKey(d) /\ TextKey(c) # FriendKey(d)
  <2>1. c.text # d.text  BY <1>1, AddBounds
  <2> QED  BY <2>1 DEF TextKey, FriendKey
<1>2. c.kind = "legacy" => TextKey(c) \notin ReadKeys  BY <1>1 DEF ReadKeys
<1> QED  BY <1>2 DEF LimitKeys, FinalKey, Invites

LEMMA AddStarts == ASSUME AddInit PROVE AddInv
<1>1. AddFriendTypes
  <2>1. queue \in [Invites -> Seq(Calls)]  BY EmptySeq DEF AddInit
  <2>2. calls \in [Calls -> AtWork \cup {Idle}]  BY DEF AddInit
  <2>3. /\ joined \in [Invites -> Nat] /\ fails \in [LimitKeys -> Nat]
        /\ allowedAt \in [LimitKeys -> Nat] /\ DOMAIN pinned = 1..MaxProfiles
    BY DEF AddInit
  <2>4. time \in 0..MaxTime /\ profiles \in 0..MaxProfiles  BY AddBounds DEF AddInit
  <2> QED  BY <2>1, <2>2, <2>3, <2>4 DEF AddInit, AddFriendTypes
<1>2. QueueInv
  <2>1. Len(<<>>) = 0 /\ 1..0 = {}  BY EmptySeq
  <2>2. \A i \in Invites : 1..Len(queue[i]) = {}  BY <2>1 DEF AddInit
  <2> QED  BY <2>2 DEF AddInit, QueueInv
<1>3. OnceInv  BY DEF AddInit, OnceInv, Idle
<1>4. KeysInv  BY DEF AddInit, KeysInv
<1>5. AloneInv  BY DEF AddInit, AloneInv, Underway
<1>6. SpacedInv
  <2>1. Cardinality(Waited(0)) = 0  BY WaitedRow
  <2>2. ReadKeys \subseteq LimitKeys  BY DEF ReadKeys, LimitKeys
  <2> QED  BY <2>1, <2>2 DEF AddInit, SpacedInv
<1> QED  BY <1>1, <1>2, <1>3, <1>4, <1>5, <1>6 DEF AddInv

LEMMA AddIsSound == ASSUME AddInv PROVE AddFriendSound
<1>1. AddTypeOK  BY CallIs DEF AddInv, AddFriendTypes, AddTypeOK, Profiles, ProfileStates
<1>2. InviteOnce
  <2>1. ASSUME NEW i \in Invites, queue[i] # <<>> PROVE calls[Head(queue[i])] # Idle
    <3>1. queue[i] \in Seq(Calls)  BY DEF AddInv, AddFriendTypes
    <3>2. 1 \in 1..Len(queue[i]) /\ Head(queue[i]) = queue[i][1]  BY <2>1, <3>1
    <3> QED  BY <3>2 DEF AddInv, QueueInv
  <2>2. ASSUME NEW k \in Calls, calls[k].at = "queued"
        PROVE  \E n \in DOMAIN queue[calls[k].code.text] : queue[calls[k].code.text][n] = k
    <3>1. calls[k] # Idle /\ calls[k].code \in Codes  BY <2>2, CallIs DEF AddInv
    <3>2. calls[k].code.once  BY <2>2, <3>1 DEF AddInv, QueueInv
    <3>3. calls[k].code.text \in Invites  BY <3>1, <3>2, KeysOf
    <3>4. queue[calls[k].code.text] \in Seq(Calls)  BY <3>3 DEF AddInv, AddFriendTypes
    <3> QED  BY <3>1, <3>2, <3>4 DEF AddInv, QueueInv
  <2>3. ~interrupted => \A i \in Invites : joined[i] <= 1  BY DEF AddInv, OnceInv
  <2> QED  BY <2>1, <2>2, <2>3 DEF InviteOnce
<1>3. OneProfile  BY DEF AddInv, AloneInv, KeysInv, Made, OneProfile
<1>4. Spaced  BY DEF AddInv, SpacedInv, ReadKeys, Spaced
<1> QED  BY <1>1, <1>2, <1>3, <1>4 DEF AddFriendSound

\* Who has got beyond the queue of an invite heads it.
LEMMA HolderIsHead ==
    ASSUME AddFriendTypes, QueueInv, NEW k \in Calls, calls[k] # Idle, calls[k].code.once
    PROVE  /\ calls[k].code.text \in Invites /\ queue[calls[k].code.text] \in Seq(Calls)
           /\ calls[k].at # "queued" => /\ queue[calls[k].code.text] # <<>>
                                        /\ Head(queue[calls[k].code.text]) = k
<1>1. calls[k].code.text \in Invites  BY CallIs, KeysOf
<1>2. queue[calls[k].code.text] \in Seq(Calls)  BY <1>1 DEF AddFriendTypes
<1>3. PICK n \in 1..Len(queue[calls[k].code.text]) : queue[calls[k].code.text][n] = k
  BY DEF QueueInv
<1>4. calls[k].at # "queued" => ~(n > 1)  BY <1>1, <1>3 DEF QueueInv
<1>5. calls[k].at # "queued" => n = 1  BY <1>2, <1>3, <1>4
<1> QED  BY <1>1, <1>2, <1>3, <1>5

\* A call that has reached its turn goes on without leaving the queue.
LEMMA CallGoesOn ==
    ASSUME AddFriendTypes, QueueInv, NEW k \in Calls, calls[k] # Idle,
           NEW step \in {"adding", "saved", "done"}, step = "done" => calls[k].code.once,
           calls[k].code.once => Head(queue[calls[k].code.text]) = k,
           calls' = [calls EXCEPT ![k].at = step], UNCHANGED queue
    PROVE  /\ QueueInv' /\ calls' \in [Calls -> AtWork \cup {Idle}]
           /\ \A l \in Calls : l # k => calls'[l] = calls[l]
           /\ calls'[k] # Idle /\ calls'[k].at = step
           /\ calls'[k].code = calls[k].code /\ calls'[k].seen = calls[k].seen
<1>1. calls[k] \in AtWork /\ calls'[k] = [calls[k] EXCEPT !.at = step]  BY CallIs DEF AddFriendTypes
<1>2. /\ calls'[k] \in AtWork /\ calls'[k].at = step
      /\ calls'[k].code = calls[k].code /\ calls'[k].seen = calls[k].seen
  BY <1>1 DEF AtWork
<1>3. calls'[k] # Idle  BY <1>2 DEF Idle
<1>4. calls' \in [Calls -> AtWork \cup {Idle}] /\ \A l \in Calls : l # k => calls'[l] = calls[l]
  BY <1>2 DEF AddFriendTypes
<1>5. ASSUME NEW i \in Invites, NEW n \in 1..Len(queue[i])
      PROVE  /\ calls'[queue[i][n]] # Idle
             /\ calls'[queue[i][n]].code.once /\ calls'[queue[i][n]].code.text = i
             /\ n > 1 => calls'[queue[i][n]].at = "queued"
             /\ \A m \in 1..Len(queue[i]) : queue[i][m] = queue[i][n] => m = n
  <2>1. queue[i] \in Seq(Calls) /\ queue[i][n] \in Calls  BY <1>5 DEF AddFriendTypes
  <2>2. /\ calls[queue[i][n]] # Idle
        /\ calls[queue[i][n]].code.once /\ calls[queue[i][n]].code.text = i
        /\ n > 1 => calls[queue[i][n]].at = "queued"
        /\ \A m \in 1..Len(queue[i]) : queue[i][m] = queue[i][n] => m = n
    BY <1>5 DEF QueueInv
  <2>3. CASE queue[i][n] = k
    <3>1. Head(queue[i]) = k /\ 1 \in 1..Len(queue[i]) /\ Head(queue[i]) = queue[i][1]
      BY <1>5, <2>1, <2>2, <2>3
    <3>2. n = 1  BY <2>2, <2>3, <3>1
    <3> QED  BY <1>2, <1>3, <2>2, <2>3, <3>2
  <2>4. CASE queue[i][n] # k  BY <1>4, <2>1, <2>2, <2>4
  <2> QED  BY <2>3, <2>4
<1>6. ASSUME NEW l \in Calls, calls'[l] # Idle
      PROVE  /\ calls'[l].code.once => \E n \in 1..Len(queue[calls'[l].code.text]) :
                                           queue[calls'[l].code.text][n] = l
             /\ calls'[l].at \in {"queued", "done"} => calls'[l].code.once
  <2>1. calls[l] # Idle /\ calls'[l].code = calls[l].code  BY <1>2, <1>4, <1>6
  <2>2. calls'[l].at \in {"queued", "done"} => calls'[l].code.once
    <3>1. CASE l = k  BY <1>2, <3>1
    <3>2. CASE l # k  BY <1>4, <2>1, <3>2 DEF QueueInv
    <3> QED  BY <3>1, <3>2
  <2> QED  BY <2>1, <2>2 DEF QueueInv
<1> QED  BY <1>2, <1>3, <1>4, <1>5, <1>6 DEF QueueInv

\* A call that ends leaves the queue at its head.
LEMMA CallEnds ==
    ASSUME AddFriendTypes, QueueInv, NEW k \in Calls, calls[k] # Idle, EndCall(k),
           calls[k].code.once => /\ queue[calls[k].code.text] # <<>>
                                 /\ Head(queue[calls[k].code.text]) = k
    PROVE  /\ QueueInv' /\ calls' \in [Calls -> AtWork \cup {Idle}]
           /\ queue' \in [Invites -> Seq(Calls)]
           /\ \A l \in Calls : l # k => calls'[l] = calls[l]
           /\ calls'[k] = Idle
           /\ \A i \in Invites : ~(calls[k].code.once /\ calls[k].code.text = i)
                                     => queue'[i] = queue[i]
<1> DEFINE text == calls[k].code.text
<1>1. calls' = [calls EXCEPT ![k] = Idle]
      /\ queue' = IF calls[k].code.once THEN [queue EXCEPT ![text] = Tail(@)] ELSE queue
  BY DEF EndCall
<1>2. /\ calls' \in [Calls -> AtWork \cup {Idle}]
      /\ \A l \in Calls : l # k => calls'[l] = calls[l]
      /\ calls'[k] = Idle
  BY <1>1 DEF AddFriendTypes
<1>3. \A i \in Invites : ~(calls[k].code.once /\ text = i) => queue'[i] = queue[i]
  BY <1>1 DEF AddFriendTypes
<1>4. calls[k].code.once =>
          /\ text \in Invites /\ queue[text] \in Seq(Calls) /\ queue[text] # <<>>
          /\ queue[text][1] = k /\ queue'[text] = Tail(queue[text])
  BY <1>1, HolderIsHead DEF AddFriendTypes
<1>5. queue' \in [Invites -> Seq(Calls)]
  <2>1. calls[k].code.once => Tail(queue[text]) \in Seq(Calls)  BY <1>4
  <2> QED  BY <1>1, <2>1 DEF AddFriendTypes
<1>6. ASSUME NEW i \in Invites, NEW n \in 1..Len(queue'[i])
      PROVE  /\ calls'[queue'[i][n]] # Idle
             /\ calls'[queue'[i][n]].code.once /\ calls'[queue'[i][n]].code.text = i
             /\ n > 1 => calls'[queue'[i][n]].at = "queued"
             /\ \A m \in 1..Len(queue'[i]) : queue'[i][m] = queue'[i][n] => m = n
  <2>1. queue[i] \in Seq(Calls)  BY <1>6 DEF AddFriendTypes
  <2>2. CASE calls[k].code.once /\ text = i
    <3>1. queue[i] # <<>> /\ queue'[i] = Tail(queue[i]) /\ queue[i][1] = k  BY <1>4, <2>2
    <3>2. /\ Len(queue'[i]) = Len(queue[i]) - 1
          /\ \A m \in 1..Len(queue'[i]) : /\ queue'[i][m] = queue[i][m + 1]
                                          /\ m + 1 \in 1..Len(queue[i])
      BY <2>1, <3>1
    <3>3. 1 \in 1..Len(queue[i])  BY <2>1, <3>1
    <3>4. n + 1 \in 1..Len(queue[i]) /\ n + 1 > 1 /\ n + 1 # 1 /\ queue'[i][n] = queue[i][n + 1]
      BY <1>6, <3>2
    <3>5. /\ calls[queue[i][n + 1]] # Idle /\ calls[queue[i][n + 1]].code.once
          /\ calls[queue[i][n + 1]].code.text = i /\ calls[queue[i][n + 1]].at = "queued"
          /\ \A m \in 1..Len(queue[i]) : queue[i][m] = queue[i][n + 1] => m = n + 1
      BY <1>6, <3>4 DEF QueueInv
    <3>6. queue[i][n + 1] # k /\ queue[i][n + 1] \in Calls  BY <2>1, <3>1, <3>3, <3>4, <3>5
    <3>7. \A m \in 1..Len(queue'[i]) : queue'[i][m] = queue'[i][n] => m = n
      <4> TAKE m \in 1..Len(queue'[i])
      <4>1. queue'[i][m] = queue[i][m + 1] /\ m + 1 \in 1..Len(queue[i])  BY <3>2
      <4>2. queue'[i][m] = queue'[i][n] => m + 1 = n + 1  BY <3>4, <3>5, <4>1
      <4> QED  BY <4>2
    <3> QED  BY <1>2, <3>4, <3>5, <3>6, <3>7
  <2>3. CASE ~(calls[k].code.once /\ text = i)
    <3>1. queue'[i] = queue[i]  BY <1>3, <2>3
    <3>2. queue[i][n] \in Calls /\ n \in 1..Len(queue[i])  BY <1>6, <2>1, <3>1
    <3>3. /\ calls[queue[i][n]] # Idle /\ calls[queue[i][n]].code.once
          /\ calls[queue[i][n]].code.text = i
          /\ n > 1 => calls[queue[i][n]].at = "queued"
          /\ \A m \in 1..Len(queue[i]) : queue[i][m] = queue[i][n] => m = n
      BY <1>6, <3>2 DEF QueueInv
    <3>4. queue[i][n] # k  BY <2>3, <3>3
    <3> QED  BY <1>2, <3>1, <3>2, <3>3, <3>4
  <2> QED  BY <2>2, <2>3
<1>7. ASSUME NEW l \in Calls, calls'[l] # Idle
      PROVE  /\ calls'[l].code.once => \E n \in 1..Len(queue'[calls'[l].code.text]) :
                                           queue'[calls'[l].code.text][n] = l
             /\ calls'[l].at \in {"queued", "done"} => calls'[l].code.once
  <2>1. l # k /\ calls'[l] = calls[l]  BY <1>2, <1>7
  <2>2. ASSUME calls[l].code.once
        PROVE  \E n \in 1..Len(queue'[calls[l].code.text]) : queue'[calls[l].code.text][n] = l
    <3> DEFINE i == calls[l].code.text
    <3>1. i \in Invites /\ queue[i] \in Seq(Calls)  BY <1>7, <2>1, <2>2, HolderIsHead
    <3>2. PICK n \in 1..Len(queue[i]) : queue[i][n] = l  BY <1>7, <2>1, <2>2 DEF QueueInv
    <3>3. CASE calls[k].code.once /\ text = i
      <4>1. queue[i] # <<>> /\ queue'[i] = Tail(queue[i]) /\ queue[i][1] = k  BY <1>4, <3>3
      <4>2. n # 1  BY <2>1, <3>2, <4>1
      <4>3. n - 1 \in 1..Len(Tail(queue[i])) /\ Tail(queue[i])[n - 1] = queue[i][n]
        BY <3>1, <3>2, <4>1, <4>2
      <4> QED  BY <3>2, <4>1, <4>3
    <3>4. CASE ~(calls[k].code.once /\ text = i)  BY <1>3, <3>1, <3>2, <3>4
    <3> QED  BY <3>3, <3>4
  <2>3. calls[l].at \in {"queued", "done"} => calls[l].code.once  BY <1>7, <2>1 DEF QueueInv
  <2> QED  BY <2>1, <2>2, <2>3
<1> QED  BY <1>2, <1>3, <1>5, <1>6, <1>7 DEF QueueInv

\* When a call ends, its invite has been marked, or it has made no friend.
LEMMA OnceAfterEnd ==
    ASSUME AddFriendTypes, QueueInv, OnceInv, NEW k \in Calls, calls[k] # Idle, EndCall(k),
           calls[k].code.once => /\ queue[calls[k].code.text] # <<>>
                                 /\ Head(queue[calls[k].code.text]) = k,
           UNCHANGED <<joined, interrupted>>, used \subseteq used',
           used' \subseteq used \cup {calls[k].code.text},
           used' # used => calls[k].code.once /\ calls[k].at # "queued",
           calls[k].code.once /\ Joining(k) => calls[k].code.text \in used'
    PROVE  OnceInv'
<1>1. /\ \A l \in Calls : l # k => calls'[l] = calls[l]
      /\ calls'[k] = Idle
      /\ \A i \in Invites : ~(calls[k].code.once /\ calls[k].code.text = i)
                                => queue'[i] = queue[i]
  BY CallEnds
<1>2. ASSUME ~interrupted, NEW i \in Invites
      PROVE  /\ joined[i] <= 1
             /\ joined[i] = 1 => i \in used' \/ (queue'[i] # <<>> /\ Joining(Head(queue[i]))')
  <2>1. /\ joined[i] <= 1
        /\ joined[i] = 1 => i \in used \/ (queue[i] # <<>> /\ Joining(Head(queue[i])))
    BY <1>2 DEF OnceInv
  <2>2. CASE calls[k].code.once /\ calls[k].code.text = i
    <3>1. Head(queue[i]) = k  BY <2>2
    <3> QED  BY <2>1, <2>2, <3>1
  <2>3. CASE ~(calls[k].code.once /\ calls[k].code.text = i)
    <3>1. queue'[i] = queue[i]  BY <1>1, <2>3
    <3>2. ASSUME queue[i] # <<>> PROVE calls'[Head(queue[i])] = calls[Head(queue[i])]
      <4>1. queue[i] \in Seq(Calls) /\ 1 \in 1..Len(queue[i])
        BY <3>2 DEF AddFriendTypes
      <4>2. Head(queue[i]) = queue[i][1] /\ queue[i][1] \in Calls  BY <3>2, <4>1
      <4>3. calls[queue[i][1]].code.once /\ calls[queue[i][1]].code.text = i
        BY <4>1 DEF QueueInv
      <4> QED  BY <1>1, <2>3, <4>2, <4>3
    <3> QED  BY <2>1, <3>1, <3>2 DEF Joining
  <2> QED  BY <2>2, <2>3
<1>3. ASSUME NEW l \in Calls, calls'[l].at = "adding", calls'[l].code.once
      PROVE  calls'[l].code.text \notin used'
  <2>1. l # k  BY <1>1, <1>3 DEF Idle
  <2>2. calls'[l] = calls[l] /\ calls[l] # Idle  BY <1>1, <1>3, <2>1 DEF Idle
  <2>3. calls[l].code.text \notin used  BY <1>3, <2>2 DEF OnceInv
  <2>4. CASE used' = used  BY <2>2, <2>3, <2>4
  <2>5. CASE used' # used
    <3>1. Head(queue[calls[l].code.text]) = l  BY <1>3, <2>2, HolderIsHead
    <3>2. calls[l].code.text # calls[k].code.text  BY <2>1, <2>5, <3>1
    <3> QED  BY <2>2, <2>3, <3>2
  <2> QED  BY <2>4, <2>5
<1> QED  BY <1>2, <1>3 DEF OnceInv, Joining

\* What a failed attempt adds to the limit is the next delay.
LEMMA AttemptFails ==
    ASSUME AddFriendTypes, SpacedInv, NEW key \in LimitKeys, RecordFail(key),
           overlapped => overlapped',
           ~overlapped' => key \notin ReadKeys \/ allowedAt[key] <= time
    PROVE  /\ SpacedInv' /\ fails' \in [LimitKeys -> Nat] /\ allowedAt' \in [LimitKeys -> Nat]
<1>1. fails[key] \in Nat /\ allowedAt[key] \in Nat /\ time \in Nat  BY DEF AddFriendTypes
<1>2. fails' = [fails EXCEPT ![key] = @ + 1] /\ fails'[key] = fails[key] + 1
      /\ allowedAt' = [allowedAt EXCEPT ![key] = time + WaitAfter(fails[key] + 1)]
  BY DEF RecordFail, AddFriendTypes
<1>3. WaitAfter(fails[key] + 1) \in Nat /\ fails[key] + 1 \in Nat  BY <1>1, WaitedRow
<1>4. fails' \in [LimitKeys -> Nat] /\ allowedAt' \in [LimitKeys -> Nat]
  BY <1>1, <1>2, <1>3 DEF AddFriendTypes
<1>5. ASSUME ~overlapped', NEW other \in ReadKeys
      PROVE  allowedAt'[other] >= Cardinality(Waited(fails'[other]))
  <2>1. allowedAt[other] >= Cardinality(Waited(fails[other]))  BY <1>5 DEF SpacedInv
  <2>2. CASE other = key
    <3>1. Cardinality(Waited(fails[key] + 1))
              = Cardinality(Waited(fails[key])) + WaitAfter(fails[key] + 1)
          /\ Cardinality(Waited(fails[key])) \in Nat
      BY <1>1, WaitedRow
    <3>2. allowedAt'[key] = time + WaitAfter(fails[key] + 1)  BY <1>2 DEF AddFriendTypes
    <3>3. time >= Cardinality(Waited(fails[key]))  BY <1>1, <1>5, <2>1, <2>2, <3>1
    <3> QED  BY <1>1, <1>2, <1>3, <2>2, <3>1, <3>2, <3>3
  <2>3. CASE other # key
    <3>1. other \in LimitKeys  BY DEF ReadKeys, LimitKeys
    <3>2. fails'[other] = fails[other] /\ allowedAt'[other] = allowedAt[other]
      BY <1>2, <2>3, <3>1 DEF AddFriendTypes
    <3> QED  BY <2>1, <3>2
  <2> QED  BY <2>2, <2>3
<1> QED  BY <1>4, <1>5 DEF SpacedInv

LEMMA Succeeding ==
    ASSUME AddFriendTypes, SpacedInv, NEW key \in LimitKeys, RecordSuccess(key),
           UNCHANGED overlapped
    PROVE  /\ SpacedInv' /\ fails' \in [LimitKeys -> Nat] /\ allowedAt' \in [LimitKeys -> Nat]
<1>1. fails' = [fails EXCEPT ![key] = 0] /\ allowedAt' = [allowedAt EXCEPT ![key] = 0]
  BY DEF RecordSuccess
<1>2. ASSUME ~overlapped, NEW other \in ReadKeys
      PROVE  allowedAt'[other] >= Cardinality(Waited(fails'[other]))
  <2>1. other \in LimitKeys  BY DEF ReadKeys, LimitKeys
  <2>2. CASE other = key
    <3>1. fails'[other] = 0 /\ allowedAt'[other] = 0  BY <1>1, <2>1, <2>2 DEF AddFriendTypes
    <3>2. Cardinality(Waited(0)) = 0  BY WaitedRow
    <3> QED  BY <3>1, <3>2
  <2>3. CASE other # key
    <3>1. fails'[other] = fails[other] /\ allowedAt'[other] = allowedAt[other]
      BY <1>1, <2>1, <2>3 DEF AddFriendTypes
    <3> QED  BY <1>2, <3>1 DEF SpacedInv
  <2> QED  BY <2>2, <2>3
<1> QED  BY <1>1, <1>2 DEF SpacedInv, AddFriendTypes

LEMMA AloneAfterEnd ==
    ASSUME AddFriendTypes, AloneInv, NEW k \in Calls, calls[k] # Idle,
           \A l \in Calls : l # k => calls'[l] = calls[l], calls'[k] = Idle,
           UNCHANGED overlapped,
           ~overlapped => \A p, q \in people' : p.who = q.who => p = q
    PROVE  AloneInv'
<1>1. ASSUME ~overlapped PROVE Underway' = {}
  <2>1. \A l \in Underway : l = k  BY <1>1 DEF AloneInv, Underway
  <2> QED  BY <2>1 DEF Underway
<1> QED  BY <1>1 DEF AloneInv

LEMMA KeysStay ==
    ASSUME KeysInv, UNCHANGED <<profiles, pinned>>,
           \A p \in people' : Made(p), friends' \subseteq friends \cup people',
           \A k \in Calls : calls'[k] # Idle =>
               \/ calls[k] # Idle /\ calls'[k].seen = calls[k].seen
               \/ calls'[k].seen = friends
    PROVE  KeysInv'
<1>1. \A p : Made(p)' <=> Made(p)  BY DEF Made
<1>2. \A p \in friends' : Made(p)  BY DEF KeysInv
<1>3. ASSUME NEW k \in Calls, calls'[k] # Idle, NEW p \in calls'[k].seen PROVE Made(p)
  BY <1>3 DEF KeysInv
<1> QED  BY <1>1, <1>2, <1>3 DEF KeysInv

\* The button is pressed: the attempt fails, is refused, or the call goes on.
LEMMA Entering ==
    ASSUME AddInv, NEW k \in Calls, NEW c \in Codes, Enter(k, c)
    PROVE  AddInv'
<1> AddFriendTypes /\ QueueInv /\ OnceInv /\ KeysInv /\ AloneInv /\ SpacedInv  BY DEF AddInv
<1>1. /\ calls[k] = Idle /\ attempts' = attempts + 1
      /\ overlapped' = (overlapped \/ Underway # {} \/ friends # people)
      /\ UNCHANGED <<people, friends, used, time, profiles, joined, pinned, interrupted>>
  BY DEF Enter
<1>2. attempts' \in Nat /\ overlapped' \in BOOLEAN /\ (overlapped => overlapped')
  BY <1>1 DEF AddFriendTypes
<1>3. \/ Refuse /\ Passes
      \/ \E key \in LimitKeys :
             /\ RecordFail(key) /\ Refuse
             /\ key \notin ReadKeys \/ allowedAt[key] <= time
      \/ Allowed(FinalKey(c)) /\ GoOn(k, c)
  <2>1. time \in Int /\ \A key \in LimitKeys : allowedAt[key] \in Int  BY DEF AddFriendTypes
  <2>2. \A key \in LimitKeys : Allowed(key) => allowedAt[key] <= time  BY <2>1 DEF Allowed
  <2> QED  BY <2>2, KeysOf DEF Enter
<1>4. CASE Refuse
  <2>1. UNCHANGED <<calls, queue>>  BY <1>4 DEF Refuse
  <2>2. SpacedInv' /\ fails' \in [LimitKeys -> Nat] /\ allowedAt' \in [LimitKeys -> Nat]
    <3>1. CASE Passes
      BY <1>2, <3>1 DEF Passes, limitVars, SpacedInv, AddFriendTypes
    <3>2. CASE \E key \in LimitKeys :
                   RecordFail(key) /\ (key \notin ReadKeys \/ allowedAt[key] <= time)
      BY <1>2, <3>2, AttemptFails
    <3>3. CASE GoOn(k, c)  BY <1>2, <3>3 DEF GoOn, Passes, limitVars, SpacedInv, AddFriendTypes
    <3> QED  BY <1>3, <3>1, <3>2, <3>3
  <2>3. AddFriendTypes'  BY <1>1, <1>2, <2>1, <2>2 DEF AddFriendTypes
  <2>4. QueueInv' /\ OnceInv'  BY <1>1, <2>1 DEF QueueInv, OnceInv, Joining
  <2>5. KeysInv'  BY <1>1, <2>1 DEF KeysInv, Made
  <2>6. AloneInv'
    <3>1. ~overlapped' => ~overlapped /\ Underway' = {}  BY <1>1, <2>1 DEF Underway
    <3> QED  BY <1>1, <3>1 DEF AloneInv
  <2> QED  BY <2>2, <2>3, <2>4, <2>5, <2>6 DEF AddInv
<1>5. CASE Allowed(FinalKey(c)) /\ GoOn(k, c)
  <2> DEFINE new == [at |-> IF c.once THEN "queued" ELSE "adding", code |-> c, seen |-> friends]
  <2>1. /\ calls' = [calls EXCEPT ![k] = new]
        /\ queue' = IF c.once THEN [queue EXCEPT ![c.text] = Append(@, k)] ELSE queue
        /\ UNCHANGED <<fails, allowedAt>>
    BY <1>5 DEF GoOn, Passes, limitVars
  <2>2. /\ new \in AtWork /\ new.code = c /\ new.seen = friends
        /\ new.at = IF c.once THEN "queued" ELSE "adding"
    BY DEF AtWork, AddFriendTypes
  <2>3. new # Idle  BY <2>2 DEF Idle
  <2> HIDE DEF new
  <2>4. /\ calls' \in [Calls -> AtWork \cup {Idle}] /\ calls'[k] = new
        /\ \A l \in Calls : l # k => calls'[l] = calls[l]
    BY <2>1, <2>2 DEF AddFriendTypes
  <2>5. c.once =>
            /\ c.text \in Invites /\ queue[c.text] \in Seq(Calls)
            /\ queue'[c.text] \in Seq(Calls) /\ Len(queue'[c.text]) = Len(queue[c.text]) + 1
            /\ queue'[c.text][Len(queue[c.text]) + 1] = k
            /\ \A n \in 1..Len(queue[c.text]) : queue'[c.text][n] = queue[c.text][n]
    <3>1. c.once => c.text \in Invites  BY KeysOf
    <3>2. c.once => queue[c.text] \in Seq(Calls) /\ queue'[c.text] = Append(queue[c.text], k)
      BY <2>1, <3>1 DEF AddFriendTypes
    <3>3. ASSUME NEW q \in Seq(Calls)
          PROVE  /\ Append(q, k) \in Seq(Calls) /\ Len(Append(q, k)) = Len(q) + 1
                 /\ Append(q, k)[Len(q) + 1] = k
                 /\ \A n \in 1..Len(q) : Append(q, k)[n] = q[n]
      OBVIOUS
    <3>4. ASSUME c.once
          PROVE  /\ queue'[c.text] \in Seq(Calls) /\ Len(queue'[c.text]) = Len(queue[c.text]) + 1
                 /\ queue'[c.text][Len(queue[c.text]) + 1] = k
                 /\ \A n \in 1..Len(queue[c.text]) : queue'[c.text][n] = queue[c.text][n]
      <4> DEFINE q == queue[c.text]
      <4>1. q \in Seq(Calls) /\ queue'[c.text] = Append(q, k)  BY <3>2, <3>4
      <4> HIDE DEF q
      <4>2. /\ Append(q, k) \in Seq(Calls) /\ Len(Append(q, k)) = Len(q) + 1
            /\ Append(q, k)[Len(q) + 1] = k
            /\ \A n \in 1..Len(q) : Append(q, k)[n] = q[n]
        BY <3>3, <4>1
      <4>3. /\ queue'[c.text] \in Seq(Calls) /\ Len(queue'[c.text]) = Len(q) + 1
            /\ queue'[c.text][Len(q) + 1] = k
            /\ \A n \in 1..Len(q) : queue'[c.text][n] = q[n]
        BY <4>1, <4>2
      <4> QED  BY <4>3 DEF q
    <3> QED  BY <3>1, <3>2, <3>4
  <2>6. \A i \in Invites : ~(c.once /\ c.text = i) => queue'[i] = queue[i]
    BY <2>1 DEF AddFriendTypes
  <2>7. queue' \in [Invites -> Seq(Calls)]
    <3>1. c.once => Append(queue[c.text], k) \in Seq(Calls)  BY <2>5
    <3> QED  BY <2>1, <3>1 DEF AddFriendTypes
  <2>8. AddFriendTypes'  BY <1>1, <1>2, <2>1, <2>4, <2>7 DEF AddFriendTypes
  <2>9. ASSUME NEW i \in Invites, NEW n \in 1..Len(queue[i])
        PROVE  /\ queue'[i][n] = queue[i][n] /\ calls'[queue[i][n]] = calls[queue[i][n]]
               /\ queue[i][n] # k /\ queue[i][n] \in Calls
               /\ n \in 1..Len(queue'[i])
    <3>1. queue[i] \in Seq(Calls) /\ queue[i][n] \in Calls  BY <2>9 DEF AddFriendTypes
    <3>2. queue[i][n] # k  BY <1>1, <2>9 DEF QueueInv
    <3>3. queue'[i][n] = queue[i][n] /\ n \in 1..Len(queue'[i])
      <4>1. CASE c.once /\ c.text = i  BY <2>5, <2>9, <3>1, <4>1
      <4>2. CASE ~(c.once /\ c.text = i)  BY <2>6, <2>9, <4>2
      <4> QED  BY <4>1, <4>2
    <3> QED  BY <2>4, <3>1, <3>2, <3>3
  <2>10. ASSUME NEW i \in Invites, NEW n \in 1..Len(queue'[i])
         PROVE  \/ n \in 1..Len(queue[i])
                \/ c.once /\ c.text = i /\ n = Len(queue[i]) + 1 /\ queue'[i][n] = k
    <3>1. queue[i] \in Seq(Calls)  BY DEF AddFriendTypes
    <3>2. CASE c.once /\ c.text = i  BY <2>5, <2>10, <3>1, <3>2
    <3>3. CASE ~(c.once /\ c.text = i)  BY <2>6, <2>10, <3>3
    <3> QED  BY <3>2, <3>3
  <2>11. ASSUME NEW i \in Invites, NEW n \in 1..Len(queue'[i])
         PROVE  /\ calls'[queue'[i][n]] # Idle
                /\ calls'[queue'[i][n]].code.once /\ calls'[queue'[i][n]].code.text = i
                /\ n > 1 => calls'[queue'[i][n]].at = "queued"
                /\ \A m \in 1..Len(queue'[i]) : queue'[i][m] = queue'[i][n] => m = n
    <3>1. CASE n \in 1..Len(queue[i])
      <4>1. /\ queue'[i][n] = queue[i][n] /\ calls'[queue[i][n]] = calls[queue[i][n]]
            /\ queue[i][n] # k
        BY <2>9, <3>1
      <4>2. /\ calls[queue[i][n]] # Idle /\ calls[queue[i][n]].code.once
            /\ calls[queue[i][n]].code.text = i
            /\ n > 1 => calls[queue[i][n]].at = "queued"
            /\ \A m \in 1..Len(queue[i]) : queue[i][m] = queue[i][n] => m = n
        BY <3>1 DEF QueueInv
      <4>3. ASSUME NEW m \in 1..Len(queue'[i]), queue'[i][m] = queue'[i][n] PROVE m = n
        <5>1. m \in 1..Len(queue[i])  BY <2>10, <4>1, <4>3
        <5>2. queue'[i][m] = queue[i][m]  BY <2>9, <5>1
        <5> QED  BY <4>1, <4>2, <4>3, <5>1, <5>2
      <4> QED  BY <4>1, <4>2, <4>3
    <3>2. CASE n \notin 1..Len(queue[i])
      <4>1. c.once /\ c.text = i /\ n = Len(queue[i]) + 1 /\ queue'[i][n] = k
        BY <2>10, <2>11, <3>2
      <4>2. ASSUME NEW m \in 1..Len(queue'[i]), queue'[i][m] = queue'[i][n] PROVE m = n
        <5>1. m \notin 1..Len(queue[i])  BY <2>9, <4>1, <4>2
        <5>2. m = Len(queue[i]) + 1  BY <2>10, <4>2, <5>1
        <5> QED  BY <4>1, <5>2
      <4> QED  BY <2>2, <2>3, <2>4, <4>1, <4>2
    <3> QED  BY <3>1, <3>2
  <2>12. ASSUME NEW l \in Calls, calls'[l] # Idle
         PROVE  /\ calls'[l].code.once => \E n \in 1..Len(queue'[calls'[l].code.text]) :
                                              queue'[calls'[l].code.text][n] = l
                /\ calls'[l].at \in {"queued", "done"} => calls'[l].code.once
    <3>1. CASE l = k
      <4>1. calls'[l].code = c /\ (calls'[l].at \in {"queued", "done"} => c.once)
        BY <2>2, <2>4, <3>1
      <4>2. c.once => Len(queue[c.text]) + 1 \in 1..Len(queue'[c.text])  BY <2>5
      <4> QED  BY <2>5, <3>1, <4>1, <4>2
    <3>2. CASE l # k
      <4>1. calls'[l] = calls[l] /\ calls[l] # Idle  BY <2>4, <2>12, <3>2
      <4>2. ASSUME calls[l].code.once
            PROVE  \E n \in 1..Len(queue'[calls[l].code.text]) : queue'[calls[l].code.text][n] = l
        <5>1. calls[l].code.text \in Invites  BY <4>1, <4>2, HolderIsHead
        <5>2. PICK n \in 1..Len(queue[calls[l].code.text]) : queue[calls[l].code.text][n] = l
          BY <4>1, <4>2 DEF QueueInv
        <5> QED  BY <2>9, <5>1, <5>2
      <4>3. calls[l].at \in {"queued", "done"} => calls[l].code.once  BY <4>1 DEF QueueInv
      <4> QED  BY <4>1, <4>2, <4>3
    <3> QED  BY <3>1, <3>2
  <2>13. QueueInv'  BY <2>11, <2>12 DEF QueueInv
  <2>14. OnceInv'
    <3>1. ASSUME NEW i \in Invites, queue[i] # <<>>
          PROVE  /\ queue'[i] # <<>> /\ Head(queue'[i]) = Head(queue[i])
                 /\ calls'[Head(queue[i])] = calls[Head(queue[i])]
      <4>1. queue[i] \in Seq(Calls) /\ queue'[i] \in Seq(Calls)  BY <2>7 DEF AddFriendTypes
      <4>2. 1 \in 1..Len(queue[i])  BY <3>1, <4>1
      <4>3. 1 \in 1..Len(queue'[i]) /\ queue'[i][1] = queue[i][1]
            /\ calls'[queue[i][1]] = calls[queue[i][1]]
        BY <2>9, <4>2
      <4> QED  BY <3>1, <4>1, <4>3
    <3>2. ASSUME NEW l \in Calls, calls'[l].at = "adding", calls'[l].code.once
          PROVE  calls'[l].code.text \notin used
      <4>1. l # k  BY <2>2, <2>4, <3>2
      <4> QED  BY <2>4, <3>2, <4>1 DEF OnceInv
    <3>3. ASSUME ~interrupted, NEW i \in Invites
          PROVE  /\ joined[i] <= 1
                 /\ joined[i] = 1 => i \in used \/ (queue'[i] # <<>> /\ Joining(Head(queue[i]))')
      <4>1. /\ joined[i] <= 1
            /\ joined[i] = 1 => i \in used \/ (queue[i] # <<>> /\ Joining(Head(queue[i])))
        BY <3>3 DEF OnceInv
      <4> QED  BY <3>1, <4>1 DEF Joining
    <3> QED  BY <1>1, <3>2, <3>3 DEF OnceInv, Joining
  <2>15. KeysInv'
    <3>1. \A l \in Calls : calls'[l] # Idle => \/ calls[l] # Idle /\ calls'[l].seen = calls[l].seen
                                              \/ calls'[l].seen = friends
      BY <2>2, <2>4
    <3> QED  BY <1>1, <3>1, KeysStay DEF KeysInv
  <2>16. AloneInv'
    <3>1. SUFFICES ASSUME ~overlapped'
          PROVE  /\ \A l, m \in Underway' : l = m
                 /\ \A l \in Underway' : /\ calls'[l].seen = people'
                                         /\ allowedAt'[FinalKey(calls'[l].code)] <= time'
                 /\ \A p, q \in people' : p.who = q.who => p = q
      BY DEF AloneInv
    <3>2. ~overlapped /\ Underway = {} /\ friends = people  BY <1>1, <3>1
    <3>3. \A l \in Underway' : l = k  BY <2>4, <3>2 DEF Underway
    <3>4. allowedAt[FinalKey(c)] <= time
      <4>1. time \in Int /\ allowedAt[FinalKey(c)] \in Int  BY KeysOf DEF AddFriendTypes
      <4> QED  BY <1>5, <4>1 DEF Allowed
    <3>5. calls'[k].seen = people /\ calls'[k].code = c  BY <2>2, <2>4, <3>2
    <3> QED  BY <1>1, <2>1, <3>2, <3>3, <3>4, <3>5 DEF AloneInv
  <2>17. SpacedInv'  BY <1>2, <2>1 DEF SpacedInv
  <2> QED  BY <2>8, <2>13, <2>14, <2>15, <2>16, <2>17 DEF AddInv
<1> QED  BY <1>3, <1>4, <1>5

\* A call that ends without a friend: what is left to show of each such step.
LEMMA Ending ==
    ASSUME AddInv, NEW k \in Calls, calls[k] # Idle, EndCall(k),
           calls[k].code.once => /\ queue[calls[k].code.text] # <<>>
                                 /\ Head(queue[calls[k].code.text]) = k,
           used \subseteq used', used' \subseteq used \cup {calls[k].code.text},
           used' # used => calls[k].code.once /\ calls[k].at # "queued",
           calls[k].code.once /\ Joining(k) => calls[k].code.text \in used',
           people' \subseteq Profiles, \A p \in people' : Made(p),
           friends' \subseteq friends \cup people',
           ~overlapped => \A p, q \in people' : p.who = q.who => p = q,
           \/ UNCHANGED limitVars
           \/ RecordFail(FinalKey(calls[k].code))
           \/ RecordSuccess(FinalKey(calls[k].code)),
           UNCHANGED <<time, attempts, profiles, joined, pinned, overlapped, interrupted>>
    PROVE  AddInv'
<1> AddFriendTypes /\ QueueInv /\ OnceInv /\ KeysInv /\ AloneInv /\ SpacedInv  BY DEF AddInv
<1>1. /\ QueueInv' /\ calls' \in [Calls -> AtWork \cup {Idle}]
      /\ queue' \in [Invites -> Seq(Calls)]
      /\ \A l \in Calls : l # k => calls'[l] = calls[l]
      /\ calls'[k] = Idle
  BY CallEnds
<1>2. OnceInv'  BY OnceAfterEnd
<1>3. KeysInv'  BY <1>1, KeysStay
<1>4. AloneInv'  BY <1>1, AloneAfterEnd
<1>5. calls[k].code \in Codes /\ FinalKey(calls[k].code) \in LimitKeys  BY CallIs, KeysOf
<1>6. SpacedInv' /\ fails' \in [LimitKeys -> Nat] /\ allowedAt' \in [LimitKeys -> Nat]
  <2>1. CASE UNCHANGED limitVars  BY <2>1 DEF limitVars, SpacedInv, AddFriendTypes
  <2>2. CASE RecordFail(FinalKey(calls[k].code))
    <3>1. ~overlapped => allowedAt[FinalKey(calls[k].code)] <= time
      BY DEF AloneInv, Underway
    <3> QED  BY <1>5, <2>2, <3>1, AttemptFails
  <2>3. CASE RecordSuccess(FinalKey(calls[k].code))  BY <1>5, <2>3, Succeeding
  <2> QED  BY <2>1, <2>2, <2>3
<1>7. used' \subseteq Invites
  <2>1. used' # used => calls[k].code.text \in Invites  BY <1>5, KeysOf
  <2> QED  BY <2>1 DEF AddFriendTypes
<1>8. AddFriendTypes'  BY <1>1, <1>6, <1>7 DEF AddFriendTypes
<1> QED  BY <1>1, <1>2, <1>3, <1>4, <1>6, <1>8 DEF AddInv

LEMMA Guarding == ASSUME AddInv, NEW k \in Calls, Guarded(k) PROVE AddInv'
<1> AddFriendTypes /\ QueueInv /\ OnceInv /\ KeysInv /\ AloneInv /\ SpacedInv  BY DEF AddInv
<1>1. /\ calls[k].at = "queued" /\ Head(queue[calls[k].code.text]) = k
      /\ UNCHANGED <<people, friends, used, time, attempts, profiles, joined, pinned, overlapped,
                     interrupted>>
  BY DEF Guarded, HasTurn
<1>2. calls[k] # Idle /\ calls[k].code.once /\ calls[k].code.text \in Invites
      /\ queue[calls[k].code.text] \in Seq(Calls)
  BY <1>1, CallIs, HolderIsHead DEF QueueInv
<1>3. queue[calls[k].code.text] # <<>>
  <2>1. PICK n \in 1..Len(queue[calls[k].code.text]) : TRUE  BY <1>2 DEF QueueInv
  <2> QED  BY <1>2, <2>1
<1>4. CASE calls[k].code.text \in used
  <2>1. RecordFail(FinalKey(calls[k].code)) /\ EndCall(k)  BY <1>4 DEF Guarded
  <2>2. ~Joining(k)  BY <1>1 DEF Joining
  <2>3. ~overlapped => \A p, q \in people : p.who = q.who => p = q  BY DEF AloneInv
  <2> QED  BY <1>1, <1>2, <1>3, <2>1, <2>2, <2>3, Ending DEF AddFriendTypes, KeysInv
<1>5. CASE calls[k].code.text \notin used
  <2>1. calls' = [calls EXCEPT ![k].at = "adding"] /\ UNCHANGED <<queue, fails, allowedAt>>
    BY <1>5 DEF Guarded, limitVars
  <2>2. /\ QueueInv' /\ calls' \in [Calls -> AtWork \cup {Idle}]
        /\ \A l \in Calls : l # k => calls'[l] = calls[l]
        /\ calls'[k] # Idle /\ calls'[k].at = "adding"
        /\ calls'[k].code = calls[k].code /\ calls'[k].seen = calls[k].seen
    BY <1>1, <1>2, <2>1, CallGoesOn
  <2>3. OnceInv'
    <3>1. ASSUME ~interrupted, NEW i \in Invites
          PROVE  joined[i] <= 1
                 /\ (joined[i] = 1 => i \in used \/ (queue[i] # <<>> /\ Joining(Head(queue[i]))'))
      <4>1. /\ joined[i] <= 1
            /\ joined[i] = 1 => i \in used \/ (queue[i] # <<>> /\ Joining(Head(queue[i])))
        BY <3>1 DEF OnceInv
      <4>2. queue[i] # <<>> => Head(queue[i]) \in Calls  BY DEF AddFriendTypes
      <4>3. ~Joining(k)  BY <1>1 DEF Joining
      <4> QED  BY <2>1, <2>2, <4>1, <4>2, <4>3 DEF Joining
    <3>2. ASSUME NEW l \in Calls, calls'[l].at = "adding", calls'[l].code.once
          PROVE  calls'[l].code.text \notin used
      BY <1>5, <2>2, <3>2 DEF OnceInv
    <3> QED  BY <1>1, <2>1, <3>1, <3>2 DEF OnceInv, Joining
  <2>4. KeysInv'
    <3>1. \A l \in Calls : calls'[l] # Idle => calls[l] # Idle /\ calls'[l].seen = calls[l].seen
      BY <1>2, <2>2
    <3> QED  BY <1>1, <3>1, KeysStay DEF KeysInv
  <2>5. AloneInv'
    <3>1. Underway' = Underway  BY <1>2, <2>2 DEF Underway
    <3>2. \A l \in Underway : /\ calls'[l].code = calls[l].code /\ calls'[l].seen = calls[l].seen
                              /\ calls'[l].at \in {"queued", "adding"}
                                     => calls[l].at \in {"queued", "adding"}
      BY <1>1, <2>2 DEF Underway
    <3> QED  BY <1>1, <2>1, <3>1, <3>2 DEF AloneInv
  <2>6. AddFriendTypes' /\ SpacedInv'  BY <1>1, <2>1, <2>2 DEF AddFriendTypes, SpacedInv
  <2> QED  BY <2>2, <2>3, <2>4, <2>5, <2>6 DEF AddInv
<1> QED  BY <1>4, <1>5

LEMMA KnownAlready == ASSUME AddInv, NEW k \in Calls, Duplicate(k) PROVE AddInv'
<1> AddFriendTypes /\ QueueInv /\ OnceInv /\ KeysInv /\ AloneInv /\ SpacedInv  BY DEF AddInv
<1>1. /\ calls[k].at = "adding" /\ EndCall(k)
      /\ UNCHANGED <<people, friends, used, limitVars, time, attempts, profiles, joined, pinned,
                     overlapped, interrupted>>
  BY DEF Duplicate
<1>2. calls[k] # Idle /\ ~Joining(k)  BY <1>1, CallIs DEF Joining
<1>3. calls[k].code.once => /\ queue[calls[k].code.text] # <<>>
                            /\ Head(queue[calls[k].code.text]) = k
  BY <1>1, <1>2, HolderIsHead
<1>4. ~overlapped => \A p, q \in people : p.who = q.who => p = q  BY DEF AloneInv
<1> QED  BY <1>1, <1>2, <1>3, <1>4, Ending DEF AddFriendTypes, KeysInv

LEMMA Blocking == ASSUME AddInv, NEW k \in Calls, KeysChanged(k) PROVE AddInv'
<1> DEFINE p == [Existing(k) EXCEPT !.st = "blocked"]
<1> AddFriendTypes /\ QueueInv /\ OnceInv /\ KeysInv /\ AloneInv /\ SpacedInv  BY DEF AddInv
<1>1. /\ calls[k].at = "adding" /\ Familiar(k) # {}
      /\ people' = Put(p) /\ friends' = people'
      /\ RecordFail(FinalKey(calls[k].code)) /\ EndCall(k)
      /\ UNCHANGED <<used, time, attempts, profiles, joined, pinned, overlapped, interrupted>>
  BY DEF KeysChanged, MayAdd, KeysMatch
<1>2. calls[k] # Idle /\ ~Joining(k)  BY <1>1, CallIs DEF Joining
<1>3. calls[k].code.once => /\ queue[calls[k].code.text] # <<>>
                            /\ Head(queue[calls[k].code.text]) = k
  BY <1>1, <1>2, HolderIsHead
<1>4. Existing(k) \in calls[k].seen /\ Existing(k) \in Profiles
  <2>1. Existing(k) \in Familiar(k)  BY <1>1, <1>2, ExistingIs
  <2> QED  BY <1>2, <2>1, CallIs DEF Familiar
<1>5. /\ p \in Profiles /\ p.id = Existing(k).id /\ p.dh = Existing(k).dh
      /\ p.who = Existing(k).who
  BY <1>4 DEF Profiles, ProfileStates
<1> HIDE DEF p
<1>6. Made(p)  BY <1>2, <1>4, <1>5 DEF KeysInv, Made
<1>7. people' \subseteq Profiles /\ \A q \in people' : Made(q)
  BY <1>1, <1>5, <1>6 DEF Put, KeysInv, AddFriendTypes
<1>8. ASSUME ~overlapped, NEW q \in people', NEW r \in people', q.who = r.who PROVE q = r
  <2>1. calls[k].seen = people  BY <1>1, <1>2, <1>8 DEF AloneInv, Underway
  <2>2. \A o \in people : o.who = p.who => o.id = p.id
    BY <1>4, <1>5, <1>8, <2>1 DEF AloneInv
  <2>3. \A o \in people' : o = p \/ (o \in people /\ o.id # p.id)  BY <1>1 DEF Put
  <2> QED  BY <1>8, <2>2, <2>3 DEF AloneInv
<1> QED  BY <1>1, <1>2, <1>3, <1>7, <1>8, Ending

\* The profile is saved, or the call throws.
LEMMA Saving == ASSUME AddInv, NEW k \in Calls, SaveFriend(k) PROVE AddInv'
<1> DEFINE c == calls[k].code
           new == Familiar(k) = {}
<1>0. PICK p : p = Saved(k)  OBVIOUS
<1> AddFriendTypes /\ QueueInv /\ OnceInv /\ KeysInv /\ AloneInv /\ SpacedInv  BY DEF AddInv
<1>1. /\ calls[k].at = "adding" /\ KeysMatch(k)
      /\ UNCHANGED <<friends, used, time, attempts, overlapped, interrupted>>
  BY DEF SaveFriend, MayAdd
<1>2. calls[k] # Idle /\ ~Joining(k) /\ c \in Codes /\ calls[k].seen \subseteq Profiles
  BY <1>1, CallIs DEF Joining
<1>3. c.once => /\ c.text \in Invites /\ queue[c.text] # <<>> /\ Head(queue[c.text]) = k
  BY <1>1, <1>2, HolderIsHead
<1>4. CASE RecordFail(FinalKey(c)) /\ EndCall(k) /\ UNCHANGED <<people, profiles, pinned, joined>>
  <2>1. ~overlapped => \A q, r \in people : q.who = r.who => q = r  BY DEF AloneInv
  <2> QED  BY <1>1, <1>2, <1>3, <1>4, <2>1, Ending DEF AddFriendTypes, KeysInv
<1>5. CASE /\ new => profiles < MaxProfiles
           /\ people' = Put(p)
           /\ profiles' = IF new THEN p.id ELSE profiles
           /\ pinned' = IF new THEN [pinned EXCEPT ![p.id] = c.dh] ELSE pinned
           /\ joined' = IF c.once THEN [joined EXCEPT ![c.text] = @ + 1] ELSE joined
           /\ calls' = [calls EXCEPT ![k].at = "saved"]
           /\ UNCHANGED <<queue, limitVars>>
  <2>1. /\ QueueInv' /\ calls' \in [Calls -> AtWork \cup {Idle}]
        /\ \A l \in Calls : l # k => calls'[l] = calls[l]
        /\ calls'[k] # Idle /\ calls'[k].at = "saved"
        /\ calls'[k].code = calls[k].code /\ calls'[k].seen = calls[k].seen
    BY <1>2, <1>3, <1>5, CallGoesOn
  <2>2. UNCHANGED <<fails, allowedAt>>  BY <1>5 DEF limitVars
  <2>3. ASSUME new
        PROVE  /\ p \in Profiles /\ p.id = profiles + 1 /\ p.dh = c.dh /\ p.who = c.who
               /\ profiles' = profiles + 1 /\ profiles' \in 0..MaxProfiles
               /\ pinned' = [pinned EXCEPT ![p.id] = c.dh] /\ p.id \in DOMAIN pinned
    <3>1. p = [id |-> profiles + 1, who |-> c.who, dh |-> c.dh, st |-> "request_out"]
      BY <1>0, <2>3 DEF Saved
    <3>2. profiles + 1 \in 1..MaxProfiles  BY <1>5, <2>3, AddBounds DEF AddFriendTypes
    <3>3. p \in Profiles  BY <1>2, <3>1, <3>2 DEF Profiles, ProfileStates
    <3>4. p.id = profiles + 1 /\ p.dh = c.dh /\ p.who = c.who  BY <3>1
    <3>5. profiles' = profiles + 1 /\ profiles + 1 \in 0..MaxProfiles
      BY <1>5, <2>3, <3>2, <3>4, AddBounds
    <3> QED  BY <1>5, <2>3, <3>2, <3>3, <3>4, <3>5 DEF AddFriendTypes
  <2>4. ASSUME ~new
        PROVE  /\ p \in Profiles /\ Existing(k) \in calls[k].seen
               /\ p.id = Existing(k).id /\ p.dh = Existing(k).dh /\ p.who = Existing(k).who
               /\ Existing(k).who = c.who
               /\ UNCHANGED <<profiles, pinned>>
    <3>1. Existing(k) \in Familiar(k)  BY <1>2, <2>4, ExistingIs
    <3>2. /\ Existing(k) \in calls[k].seen /\ Existing(k) \in Profiles
          /\ Existing(k).who = c.who
      BY <1>2, <3>1 DEF Familiar
    <3>3. p = [Existing(k) EXCEPT !.st = IF @ = "request_in" THEN "normal" ELSE @]
      BY <1>0, <2>4 DEF Saved
    <3>4. /\ p \in Profiles /\ p.id = Existing(k).id /\ p.dh = Existing(k).dh
          /\ p.who = Existing(k).who
      BY <3>2, <3>3 DEF Profiles, ProfileStates
    <3> QED  BY <1>5, <2>4, <3>2, <3>4
  <2> HIDE DEF new
  <2>5. \A o \in people' : o = p \/ (o \in people /\ o.id # p.id)  BY <1>5 DEF Put
  <2>6. ASSUME NEW o \in Profiles, Made(o) PROVE Made(o)'
    <3>1. o.id \in 1..MaxProfiles /\ o.id <= profiles /\ profiles \in Int
      BY <2>6, AddBounds DEF Profiles, Made, AddFriendTypes
    <3>2. CASE new
      <4>1. o.id # profiles + 1 /\ o.id <= profiles + 1  BY <3>1, AddBounds
      <4>2. pinned'[o.id] = pinned[o.id]  BY <2>3, <3>1, <3>2, <4>1 DEF AddFriendTypes
      <4> QED  BY <2>3, <2>6, <3>2, <4>1, <4>2 DEF Made
    <3>3. CASE ~new  BY <2>4, <2>6, <3>3 DEF Made
    <3> QED  BY <3>2, <3>3
  <2>7. Made(p)'
    <3>1. CASE new
      <4>1. pinned'[p.id] = c.dh  BY <2>3, <3>1
      <4>2. p.id <= profiles'  BY <2>3, <3>1 DEF AddFriendTypes
      <4> QED  BY <2>3, <3>1, <4>1, <4>2 DEF Made
    <3>2. CASE ~new
      <4>1. Made(Existing(k)) /\ Existing(k) \in Profiles  BY <1>2, <2>4, <3>2 DEF KeysInv
      <4> QED  BY <2>4, <3>2, <4>1 DEF Made
    <3> QED  BY <3>1, <3>2
  <2>8. KeysInv'
    <3>1. \A o \in people' : Made(o)'  BY <2>5, <2>6, <2>7 DEF KeysInv, AddFriendTypes
    <3>2. \A o \in friends' : Made(o)'  BY <1>1, <2>6 DEF KeysInv, AddFriendTypes
    <3>3. ASSUME NEW l \in Calls, calls'[l] # Idle, NEW o \in calls'[l].seen PROVE Made(o)'
      <4>1. calls[l] # Idle /\ calls'[l].seen = calls[l].seen  BY <1>2, <2>1, <3>3
      <4>2. o \in Profiles /\ Made(o)  BY <3>3, <4>1, CallIs DEF KeysInv
      <4> QED  BY <2>6, <4>2
    <3> QED  BY <3>1, <3>2, <3>3 DEF KeysInv
  <2>9. joined' \in [Invites -> Nat]  BY <1>3, <1>5 DEF AddFriendTypes
  <2>10. AddFriendTypes'
    <3>1. people' \subseteq Profiles
      <4>1. p \in Profiles  BY <2>3, <2>4
      <4> QED  BY <2>5, <4>1 DEF AddFriendTypes
    <3>2. profiles' \in 0..MaxProfiles /\ DOMAIN pinned' = 1..MaxProfiles
      BY <2>3, <2>4 DEF AddFriendTypes
    <3> QED  BY <1>1, <1>5, <2>1, <2>2, <2>9, <3>1, <3>2 DEF AddFriendTypes
  <2>11. OnceInv'
    <3>1. ASSUME ~interrupted, NEW i \in Invites
          PROVE  joined'[i] <= 1
                 /\ (joined'[i] = 1 => i \in used \/ (queue[i] # <<>> /\ Joining(Head(queue[i]))'))
      <4>1. /\ joined[i] <= 1
            /\ joined[i] = 1 => i \in used \/ (queue[i] # <<>> /\ Joining(Head(queue[i])))
        BY <3>1 DEF OnceInv
      <4>2. CASE c.once /\ c.text = i
        <5>1. i \notin used /\ queue[i] # <<>> /\ Head(queue[i]) = k
          BY <1>1, <1>3, <4>2 DEF OnceInv
        <5>2. joined[i] # 1 /\ joined[i] \in Nat  BY <1>2, <4>1, <5>1 DEF AddFriendTypes
        <5>3. joined'[i] = joined[i] + 1  BY <1>5, <4>2 DEF AddFriendTypes
        <5>4. joined'[i] = 1  BY <4>1, <5>2, <5>3
        <5>5. Joining(k)'  BY <2>1 DEF Joining
        <5> QED  BY <1>5, <5>1, <5>4, <5>5 DEF Joining
      <4>3. CASE ~(c.once /\ c.text = i)
        <5>1. joined'[i] = joined[i]  BY <1>5, <4>3 DEF AddFriendTypes
        <5>2. queue[i] # <<>> => Head(queue[i]) \in Calls  BY DEF AddFriendTypes
        <5>3. \A l \in Calls : Joining(l) => Joining(l)'  BY <1>2, <2>1 DEF Joining
        <5> QED  BY <1>5, <4>1, <5>1, <5>2, <5>3 DEF Joining
      <4> QED  BY <4>2, <4>3
    <3>2. ASSUME NEW l \in Calls, calls'[l].at = "adding", calls'[l].code.once
          PROVE  calls'[l].code.text \notin used
      <4>1. l # k  BY <2>1, <3>2
      <4> QED  BY <2>1, <3>2, <4>1 DEF OnceInv
    <3> QED  BY <1>1, <1>5, <3>1, <3>2 DEF OnceInv, Joining
  <2>12. AloneInv'
    <3>1. SUFFICES ASSUME ~overlapped
          PROVE  /\ \A l, m \in Underway' : l = m
                 /\ \A l \in Underway' : /\ calls'[l].at \in {"queued", "adding"}
                                                => calls'[l].seen = people'
                                         /\ allowedAt'[FinalKey(calls'[l].code)] <= time'
                 /\ \A q, r \in people' : q.who = r.who => q = r
      BY <1>1 DEF AloneInv
    <3>2. /\ \A l \in Underway : l = k
          /\ calls[k].seen = people /\ allowedAt[FinalKey(calls[k].code)] <= time
          /\ \A q, r \in people : q.who = r.who => q = r
      BY <1>1, <1>2, <3>1 DEF AloneInv, Underway
    <3>3. \A l \in Underway' : l = k  BY <1>2, <2>1, <3>2 DEF Underway
    <3>4. \A o \in people : o.who = p.who => o.id = p.id
      <4>1. CASE new
        <5>1. \A o \in people : o.who # c.who  BY <3>2, <4>1 DEF Familiar, new
        <5> QED  BY <2>3, <4>1, <5>1
      <4>2. CASE ~new  BY <2>4, <3>2, <4>2
      <4> QED  BY <4>1, <4>2
    <3>5. \A q, r \in people' : q.who = r.who => q = r  BY <2>5, <3>2, <3>4
    <3> QED  BY <1>1, <2>1, <2>2, <3>2, <3>3, <3>5
  <2>13. SpacedInv'  BY <1>1, <2>2 DEF SpacedInv
  <2> QED  BY <2>1, <2>8, <2>10, <2>11, <2>12, <2>13 DEF AddInv
<1> QED  BY <1>0, <1>4, <1>5 DEF SaveFriend

\* The friend is saved: the call marks its invite next, or it ends.
LEMMA Requesting == ASSUME AddInv, NEW k \in Calls, Requested(k) PROVE AddInv'
<1> DEFINE c == calls[k].code
<1> AddFriendTypes /\ QueueInv /\ OnceInv /\ KeysInv /\ AloneInv /\ SpacedInv  BY DEF AddInv
<1>1. /\ calls[k].at = "saved" /\ friends' = people
      /\ RecordSuccess(FinalKey(c)) \/ UNCHANGED limitVars
      /\ UNCHANGED <<people, used, time, attempts, profiles, joined, pinned, overlapped,
                     interrupted>>
  BY DEF Requested, Passes
<1>2. calls[k] # Idle /\ c \in Codes /\ FinalKey(c) \in LimitKeys  BY <1>1, CallIs, KeysOf
<1>3. c.once => /\ queue[c.text] # <<>> /\ Head(queue[c.text]) = k
  BY <1>1, <1>2, HolderIsHead
<1>4. CASE c.once
  <2>1. calls' = [calls EXCEPT ![k].at = "done"] /\ UNCHANGED queue  BY <1>4 DEF Requested
  <2>2. /\ QueueInv' /\ calls' \in [Calls -> AtWork \cup {Idle}]
        /\ \A l \in Calls : l # k => calls'[l] = calls[l]
        /\ calls'[k] # Idle /\ calls'[k].at = "done"
        /\ calls'[k].code = calls[k].code /\ calls'[k].seen = calls[k].seen
    BY <1>2, <1>3, <1>4, <2>1, CallGoesOn
  <2>3. SpacedInv' /\ fails' \in [LimitKeys -> Nat] /\ allowedAt' \in [LimitKeys -> Nat]
    <3>1. CASE RecordSuccess(FinalKey(c))  BY <1>1, <1>2, <3>1, Succeeding
    <3>2. CASE UNCHANGED limitVars  BY <1>1, <3>2 DEF limitVars, SpacedInv, AddFriendTypes
    <3> QED  BY <1>1, <3>1, <3>2
  <2>4. AddFriendTypes'  BY <1>1, <2>1, <2>2, <2>3 DEF AddFriendTypes
  <2>5. OnceInv'
    <3>1. \A l \in Calls : Joining(l) => Joining(l)'  BY <2>2 DEF Joining
    <3>2. \A i \in Invites : queue[i] # <<>> => Head(queue[i]) \in Calls  BY DEF AddFriendTypes
    <3>3. ASSUME NEW l \in Calls, calls'[l].at = "adding", calls'[l].code.once
          PROVE  calls'[l].code.text \notin used
      <4>1. l # k  BY <2>2, <3>3
      <4> QED  BY <2>2, <3>3, <4>1 DEF OnceInv
    <3>4. ASSUME ~interrupted, NEW i \in Invites
          PROVE  joined[i] <= 1
                 /\ (joined[i] = 1 => i \in used \/ (queue[i] # <<>> /\ Joining(Head(queue[i]))'))
      BY <2>1, <3>1, <3>2, <3>4 DEF OnceInv, Joining
    <3> QED  BY <1>1, <2>1, <3>3, <3>4 DEF OnceInv, Joining
  <2>6. KeysInv'
    <3>1. \A l \in Calls : calls'[l] # Idle => calls[l] # Idle /\ calls'[l].seen = calls[l].seen
      BY <1>2, <2>2
    <3> QED  BY <1>1, <3>1, KeysStay DEF KeysInv
  <2>7. AloneInv'
    <3>1. SUFFICES ASSUME ~overlapped
          PROVE  /\ \A l, m \in Underway' : l = m
                 /\ \A l \in Underway' : /\ calls'[l].at \in {"queued", "adding"}
                                                => calls'[l].seen = people'
                                         /\ allowedAt'[FinalKey(calls'[l].code)] <= time'
                 /\ \A q, r \in people' : q.who = r.who => q = r
      BY <1>1 DEF AloneInv
    <3>2. /\ \A l \in Underway : l = k
          /\ allowedAt[FinalKey(c)] <= time
          /\ \A q, r \in people : q.who = r.who => q = r
      BY <1>2, <3>1 DEF AloneInv, Underway
    <3>3. \A l \in Underway' : l = k  BY <1>2, <2>2, <3>2 DEF Underway
    <3>4. allowedAt'[FinalKey(c)] <= time
      <4>1. CASE RecordSuccess(FinalKey(c))
        <5>1. allowedAt'[FinalKey(c)] = 0  BY <1>2, <4>1 DEF RecordSuccess, AddFriendTypes
        <5> QED  BY <5>1, AddBounds DEF AddFriendTypes
      <4>2. CASE UNCHANGED limitVars  BY <3>2, <4>2 DEF limitVars
      <4> QED  BY <1>1, <4>1, <4>2
    <3> QED  BY <1>1, <2>2, <3>2, <3>3, <3>4
  <2> QED  BY <2>2, <2>3, <2>4, <2>5, <2>6, <2>7 DEF AddInv
<1>5. CASE ~c.once
  <2>1. EndCall(k)  BY <1>5 DEF Requested
  <2>2. ~overlapped => \A q, r \in people : q.who = r.who => q = r  BY DEF AloneInv
  <2> QED  BY <1>1, <1>2, <1>5, <2>1, <2>2, Ending DEF AddFriendTypes, KeysInv
<1> QED  BY <1>4, <1>5

LEMMA Marking == ASSUME AddInv, NEW k \in Calls, Mark(k) PROVE AddInv'
<1> AddFriendTypes /\ QueueInv /\ OnceInv /\ KeysInv /\ AloneInv /\ SpacedInv  BY DEF AddInv
<1>1. /\ calls[k].at = "done" /\ used' = used \cup {calls[k].code.text} /\ EndCall(k)
      /\ UNCHANGED <<people, friends, limitVars, time, attempts, profiles, joined, pinned,
                     overlapped, interrupted>>
  BY DEF Mark
<1>2. calls[k] # Idle  BY <1>1, CallIs
<1>3. calls[k].code.once /\ queue[calls[k].code.text] # <<>> /\ Head(queue[calls[k].code.text]) = k
  BY <1>1, <1>2, HolderIsHead DEF QueueInv
<1>4. ~overlapped => \A p, q \in people : p.who = q.who => p = q  BY DEF AloneInv
<1> QED  BY <1>1, <1>2, <1>3, <1>4, Ending DEF AddFriendTypes, KeysInv

\* A friend's own request makes his profile.
LEMMA Coming == ASSUME AddInv, RequestCame PROVE AddInv'
<1> AddFriendTypes /\ QueueInv /\ OnceInv /\ KeysInv /\ AloneInv /\ SpacedInv  BY DEF AddInv
<1>1. /\ profiles < MaxProfiles /\ profiles' = profiles + 1
      /\ overlapped' = (overlapped \/ Underway # {})
      /\ UNCHANGED <<friends, calls, queue, used, fails, allowedAt, time, attempts, joined,
                     interrupted>>
  BY DEF RequestCame, limitVars
<1>2. PICK c \in Codes :
          /\ ~\E p \in people : p.who = c.who
          /\ people' = people \cup {[id |-> profiles', who |-> c.who, dh |-> c.dh,
                                     st |-> "request_in"]}
          /\ pinned' = [pinned EXCEPT ![profiles'] = c.dh]
  BY DEF RequestCame
<1>3. PICK p : p = [id |-> profiles', who |-> c.who, dh |-> c.dh, st |-> "request_in"]
  OBVIOUS
<1>4. profiles' \in 1..MaxProfiles /\ profiles' \in 0..MaxProfiles /\ profiles \in Int
  BY <1>1, AddBounds DEF AddFriendTypes
<1>5. p \in Profiles /\ p.id = profiles' /\ p.dh = c.dh /\ p.who = c.who
  BY <1>4, <1>3 DEF Profiles, ProfileStates
<1>6. people' = people \cup {p}  BY <1>2, <1>3
<1>7. AddFriendTypes'
  <2>1. people' \subseteq Profiles /\ DOMAIN pinned' = 1..MaxProfiles
    BY <1>2, <1>5, <1>6 DEF AddFriendTypes
  <2> QED  BY <1>1, <1>4, <2>1 DEF AddFriendTypes
<1>8. QueueInv' /\ OnceInv'  BY <1>1 DEF QueueInv, OnceInv, Joining
<1>9. KeysInv'
  <2>1. ASSUME NEW o \in Profiles, Made(o) PROVE Made(o)'
    <3>1. o.id \in 1..MaxProfiles /\ o.id <= profiles  BY <2>1 DEF Profiles, Made
    <3>2. o.id <= profiles' /\ o.id # profiles'  BY <1>1, <1>4, <3>1, AddBounds
    <3>3. pinned'[o.id] = pinned[o.id]  BY <1>2, <3>1, <3>2 DEF AddFriendTypes
    <3> QED  BY <2>1, <3>2, <3>3 DEF Made
  <2>2. Made(p)'
    <3>1. pinned'[profiles'] = c.dh  BY <1>2, <1>4 DEF AddFriendTypes
    <3> QED  BY <1>4, <1>5, <3>1, AddBounds DEF Made
  <2>3. \A o \in people' : Made(o)'  BY <1>6, <2>1, <2>2 DEF KeysInv, AddFriendTypes
  <2>4. \A o \in friends' : Made(o)'  BY <1>1, <2>1 DEF KeysInv, AddFriendTypes
  <2>5. ASSUME NEW l \in Calls, calls'[l] # Idle, NEW o \in calls'[l].seen PROVE Made(o)'
    <3>1. o \in Profiles /\ Made(o)  BY <1>1, <2>5, CallIs DEF KeysInv
    <3> QED  BY <2>1, <3>1
  <2> QED  BY <2>3, <2>4, <2>5 DEF KeysInv
<1>10. AloneInv'
  <2>1. ASSUME ~overlapped' PROVE ~overlapped /\ Underway' = {}  BY <1>1, <2>1 DEF Underway
  <2>2. ASSUME ~overlapped', NEW q \in people', NEW r \in people', q.who = r.who PROVE q = r
    BY <1>2, <1>5, <1>6, <2>1, <2>2 DEF AloneInv
  <2> QED  BY <2>1, <2>2 DEF AloneInv
<1>11. SpacedInv'  BY <1>1 DEF SpacedInv
<1> QED  BY <1>7, <1>8, <1>9, <1>10, <1>11 DEF AddInv

\* The list of the screen changes, or what is on disk becomes less.
LEMMA Listing ==
    ASSUME AddInv, people' \subseteq people, friends' \subseteq people,
           overlapped' \in BOOLEAN, overlapped => overlapped',
           ~overlapped' => people' = people \/ Underway = {},
           UNCHANGED <<calls, queue, used, limitVars, time, attempts, profiles, joined, pinned,
                       interrupted>>
    PROVE  AddInv'
<1> AddFriendTypes /\ QueueInv /\ OnceInv /\ KeysInv /\ AloneInv /\ SpacedInv  BY DEF AddInv
<1>1. UNCHANGED <<fails, allowedAt>>  BY DEF limitVars
<1>2. AddFriendTypes'  BY <1>1 DEF AddFriendTypes
<1>3. QueueInv' /\ OnceInv'  BY DEF QueueInv, OnceInv, Joining
<1>4. KeysInv'  BY DEF KeysInv, Made
<1>5. AloneInv'
  <2>1. Underway' = Underway  BY DEF Underway
  <2> QED  BY <1>1, <2>1 DEF AloneInv
<1>6. SpacedInv'  BY <1>1 DEF SpacedInv
<1> QED  BY <1>2, <1>3, <1>4, <1>5, <1>6 DEF AddInv

\* The application is reloaded: the queues and the limit are gone, the marks are not.
LEMMA Reloading == ASSUME AddInv, AppReloaded PROVE AddInv'
<1> AddFriendTypes /\ QueueInv /\ OnceInv /\ KeysInv /\ AloneInv /\ SpacedInv  BY DEF AddInv
<1>1. /\ friends' = people /\ calls' = [k \in Calls |-> Idle]
      /\ queue' = [i \in Invites |-> <<>>]
      /\ fails' = [k \in LimitKeys |-> 0] /\ allowedAt' = [k \in LimitKeys |-> 0]
      /\ interrupted' = (interrupted \/ \E k \in Underway : calls[k].at \in {"saved", "done"})
      /\ UNCHANGED <<people, used, time, attempts, profiles, joined, pinned, overlapped>>
  BY DEF AppReloaded
<1>2. AddFriendTypes'
  <2>1. queue' \in [Invites -> Seq(Calls)]  BY <1>1, EmptySeq
  <2>2. /\ calls' \in [Calls -> AtWork \cup {Idle}] /\ fails' \in [LimitKeys -> Nat]
        /\ allowedAt' \in [LimitKeys -> Nat] /\ interrupted' \in BOOLEAN
    BY <1>1 DEF AddFriendTypes
  <2> QED  BY <1>1, <2>1, <2>2 DEF AddFriendTypes
<1>3. QueueInv'
  <2>1. Len(<<>>) = 0 /\ 1..0 = {}  BY EmptySeq
  <2>2. \A i \in Invites : 1..Len(queue'[i]) = {}  BY <1>1, <2>1
  <2> QED  BY <1>1, <2>2 DEF QueueInv
<1>4. OnceInv'
  <2>1. ASSUME ~interrupted', NEW i \in Invites
        PROVE  joined[i] <= 1 /\ (joined[i] = 1 => i \in used)
    <3>1. ~interrupted /\ \A k \in Underway : ~Joining(k)  BY <1>1, <2>1 DEF Joining
    <3>2. ASSUME queue[i] # <<>> PROVE Head(queue[i]) \in Underway
      <4>1. queue[i] \in Seq(Calls)  BY DEF AddFriendTypes
      <4>2. 1 \in 1..Len(queue[i]) /\ Head(queue[i]) = queue[i][1] /\ queue[i][1] \in Calls
        BY <3>2, <4>1
      <4> QED  BY <4>2 DEF QueueInv, Underway
    <3> QED  BY <3>1, <3>2 DEF OnceInv
  <2>2. \A k \in Calls : calls'[k].at # "adding"  BY <1>1 DEF Idle
  <2> QED  BY <1>1, <2>1, <2>2 DEF OnceInv
<1>5. KeysInv'  BY <1>1 DEF KeysInv, Made
<1>6. AloneInv'
  <2>1. Underway' = {}  BY <1>1 DEF Underway
  <2> QED  BY <1>1, <2>1 DEF AloneInv
<1>7. SpacedInv'
  <2>1. Cardinality(Waited(0)) = 0  BY WaitedRow
  <2>2. ReadKeys \subseteq LimitKeys  BY DEF ReadKeys, LimitKeys
  <2> QED  BY <1>1, <2>1, <2>2 DEF SpacedInv
<1> QED  BY <1>2, <1>3, <1>4, <1>5, <1>6, <1>7 DEF AddInv

LEMMA AddStep == ASSUME AddInv, [AddNext]_addVars PROVE AddInv'
<1> AddFriendTypes /\ QueueInv /\ OnceInv /\ KeysInv /\ AloneInv /\ SpacedInv  BY DEF AddInv
<1>1. CASE \E k \in Calls, c \in Codes : Enter(k, c)  BY <1>1, Entering
<1>2. CASE \E k \in Calls : Guarded(k)  BY <1>2, Guarding
<1>3. CASE \E k \in Calls : Duplicate(k)  BY <1>3, KnownAlready
<1>4. CASE \E k \in Calls : KeysChanged(k)  BY <1>4, Blocking
<1>5. CASE \E k \in Calls : SaveFriend(k)  BY <1>5, Saving
<1>6. CASE \E k \in Calls : Requested(k)  BY <1>6, Requesting
<1>7. CASE \E k \in Calls : Mark(k)  BY <1>7, Marking
<1>8. CASE RequestCame  BY <1>8, Coming
<1>9. CASE Deleted
  <2>1. people' \subseteq people /\ friends' = people'  BY <1>9 DEF Deleted
  <2>2. /\ overlapped' = (overlapped \/ Underway # {})
        /\ UNCHANGED <<calls, queue, used, limitVars, time, attempts, profiles, joined, pinned,
                       interrupted>>
    BY <1>9 DEF Deleted
  <2>3. overlapped' \in BOOLEAN  BY <2>2 DEF AddFriendTypes
  <2> QED  BY <2>1, <2>2, <2>3, Listing
<1>10. CASE Hydrated  BY <1>10, Listing DEF Hydrated, AddFriendTypes
<1>11. CASE TimePasses
  <2>1. /\ time' = time + 1 /\ time' \in 0..MaxTime
        /\ UNCHANGED <<people, friends, calls, queue, used, fails, allowedAt, attempts, profiles,
                       joined, pinned, overlapped, interrupted>>
    BY <1>11, AddBounds DEF TimePasses, limitVars, AddFriendTypes
  <2>2. AddFriendTypes'  BY <2>1 DEF AddFriendTypes
  <2>3. QueueInv' /\ OnceInv' /\ KeysInv' /\ SpacedInv'
    BY <2>1 DEF QueueInv, OnceInv, Joining, KeysInv, Made, SpacedInv
  <2>4. AloneInv'
    <3>1. Underway' = Underway  BY <2>1 DEF Underway
    <3>2. ASSUME NEW k \in Underway, allowedAt[FinalKey(calls[k].code)] <= time
          PROVE  allowedAt[FinalKey(calls[k].code)] <= time'
      <4>1. FinalKey(calls[k].code) \in LimitKeys  BY CallIs, KeysOf DEF Underway
      <4>2. allowedAt[FinalKey(calls[k].code)] \in Nat /\ time \in Int
        BY <4>1, AddBounds DEF AddFriendTypes
      <4> QED  BY <2>1, <3>2, <4>2
    <3> QED  BY <2>1, <3>1, <3>2 DEF AloneInv
  <2> QED  BY <2>2, <2>3, <2>4 DEF AddInv
<1>12. CASE AppReloaded  BY <1>12, Reloading
<1>13. CASE UNCHANGED addVars
  <2>1. UNCHANGED <<people, friends, calls, queue, used, limitVars, time, attempts, profiles,
                    joined, pinned, overlapped, interrupted>>
    BY <1>13 DEF addVars, limitVars
  <2>2. UNCHANGED <<fails, allowedAt>>  BY <2>1 DEF limitVars
  <2>3. AddFriendTypes'  BY <2>1, <2>2 DEF AddFriendTypes
  <2>4. QueueInv' /\ OnceInv' /\ KeysInv'
    BY <2>1 DEF QueueInv, OnceInv, Joining, KeysInv, Made
  <2>5. AloneInv' /\ SpacedInv'  BY <2>1, <2>2 DEF AloneInv, Underway, SpacedInv
  <2> QED  BY <2>3, <2>4, <2>5 DEF AddInv
<1> QED  BY <1>1, <1>2, <1>3, <1>4, <1>5, <1>6, <1>7, <1>8, <1>9, <1>10, <1>11, <1>12, <1>13
         DEF AddNext

(***************************************************************************)
(* Whatever codes are entered, however many calls of handleAddFriend run   *)
(* beside each other and wherever the application is reloaded: an invite   *)
(* that may be used once makes one friend, unless the application ended    *)
(* between the friend and the mark of the invite, and a call that waits    *)
(* for an invite waits for one that runs; an identity has one profile and  *)
(* failed attempts are spaced by the growing delays as long as no call     *)
(* runs beside another or with an old list; a profile keeps the keys it    *)
(* was made with.                                                          *)
(***************************************************************************)
THEOREM AddingHolds == AddSpec => []AddFriendSound
<1>1. AddInit => AddInv  BY AddStarts
<1>2. AddInv /\ [AddNext]_addVars => AddInv'  BY AddStep
<1>3. AddInv => AddFriendSound  BY AddIsSound
<1> QED  BY <1>1, <1>2, <1>3, PTL DEF AddSpec

-----------------------------------------------------------------------------
(***************************************************************************)
(* The synchronisation of a log (SyncFlow).                                *)
(***************************************************************************)

\* All but Window - 1 of the chunks before the k-th of a session have been handled.
Before(id, k) == {j \in 1..(k - 1) : <<id, j>> \notin syncHandled}
FewBefore(id, k) == Cardinality(Before(id, k)) < Window

\* The events of a frame ascend, and its map says no more than its last one or what the
\* reader has seen.
Dated(f) ==
    /\ Len(f.events) \in Nat /\ DOMAIN f.events = 1..Len(f.events)
    /\ \A i \in 1..Len(f.events) : f.events[i] \in 1..Len(log)
    /\ \A i, j \in 1..Len(f.events) : i < j => f.events[i] < f.events[j]
    /\ f.next \in 0..Len(log)
    /\ f.next <= syncSeen \/ (Len(f.events) > 0 /\ f.next = f.events[Len(f.events)])

\* What has left the window of a session has been handled.
ChunkOK(f, id, k) ==
    f.type = "SYNC_RES" /\ f.session = id /\ f.chunk = k /\ (syncEnds = 0 => Dated(f))
SessionOK(s) ==
    /\ s = [id |-> s.id, chunks |-> s.chunks, next |-> s.next, inFlight |-> s.inFlight]
    /\ s.id \in Nat \ {0}
    /\ Len(s.chunks) \in Nat /\ DOMAIN s.chunks = 1..Len(s.chunks)
    /\ \A k \in 1..Len(s.chunks) : ChunkOK(s.chunks[k], s.id, k)
    /\ s.next \in 1..(Len(s.chunks) + 1)
    /\ DOMAIN s.inFlight \subseteq 1..(s.next - 1)
    /\ Cardinality(DOMAIN s.inFlight) <= Window
    /\ \A k \in 1..(s.next - 1) : k \in DOMAIN s.inFlight \/ <<s.id, k>> \in syncHandled

FrameOf(f) ==
    \/ /\ f.type = "SYNC_REQ" /\ f.id \in Nat \ {0}
       /\ syncEnds = 0 => f.since \in 0..Len(log) /\ f.since <= syncSeen
    \/ f.type = "SYNC_FLOW_ACK" /\ <<f.session, f.chunk>> \in syncHandled
    \/ /\ f.type = "SYNC_RES" /\ f.session \in Nat /\ f.chunk \in Nat
       /\ f.session # 0 => FewBefore(f.session, f.chunk)
       /\ syncEnds = 0 => Dated(f)

FlowTypes ==
    /\ log \in Seq(Nat) /\ counter \in Nat /\ requests \in Nat /\ syncEnds \in Nat
    /\ syncHandled \subseteq Nat \X Nat

\* Until a device has ended, events are numbered by their places, and the newest lamport the
\* reader has seen is that of an event it has.
NumberedInv ==
    syncEnds = 0 =>
        /\ \A e \in 1..Len(log) : log[e] = e
        /\ counter = Len(log)
        /\ known \subseteq 1..Len(log) /\ syncSeen \in known \cup {0}

FlowInv ==
    /\ FlowTypes /\ NumberedInv
    /\ session # NoSession => SessionOK(session)
    /\ \A f \in syncFrames : FrameOf(f)
    /\ FlowSound

-----------------------------------------------------------------------------
LEMMA FlowBounds ==
    /\ MaxEvents \in Nat /\ Window \in Nat /\ Window > 0 /\ MaxChunkAttempts \in Nat
    /\ MaxChunkAttempts > 0
  BY SyncAssumption

LEMMA MaxIs ==
    ASSUME NEW n \in Nat, NEW T \in SUBSET (0..n), T # {}
    PROVE  /\ Max(T) \in T /\ \A x \in T : x <= Max(T)
           /\ \A m \in T : (\A x \in T : x <= m) => Max(T) = m
<1> DEFINE J == 0..n
           I == {(x + 1)..n : x \in T}
           R == StrictSubsetOrdering(J)
<1>1. IsFiniteSet(J) /\ \A x \in T : x \in 0..n /\ x \in Int  BY FS_Interval
<1>2. IsWellFoundedOn(R, FiniteSubsetsOf(J))  BY FS_StrictSubsetOrderingWellFounded
<1>3. I \subseteq FiniteSubsetsOf(J) /\ I # {}
  <2>1. ASSUME NEW x \in T PROVE (x + 1)..n \in FiniteSubsetsOf(J)
    <3>1. (x + 1)..n \subseteq J /\ x + 1 \in Int  BY <1>1
    <3>2. IsFiniteSet((x + 1)..n)  BY <3>1, FS_Interval
    <3> QED  BY <3>1, <3>2 DEF FiniteSubsetsOf
  <2> QED  BY <2>1
<1>4. PICK i \in I : \A y \in I : ~(<<y, i>> \in R)
  <2> HIDE DEF I, R
  <2> QED  BY <1>2, <1>3, WFMin
<1>5. PICK m \in T : i = (m + 1)..n  OBVIOUS
<1>6. ASSUME NEW x \in T PROVE x <= m
  <2> SUFFICES ASSUME m < x PROVE FALSE  BY <1>1
  <2>1. /\ (x + 1)..n \in I /\ (x + 1)..n \subseteq (m + 1)..n
        /\ x \in (m + 1)..n /\ x \notin (x + 1)..n
    BY <1>1
  <2>2. (x + 1)..n \subseteq J /\ (m + 1)..n \subseteq J  BY <1>1
  <2>3. <<(x + 1)..n, (m + 1)..n>> \in R  BY <2>1, <2>2 DEF StrictSubsetOrdering
  <2> QED  BY <1>4, <1>5, <2>1, <2>3
<1>7. \E x \in T : \A y \in T : x >= y  BY <1>1, <1>6
<1>8. Max(T) \in T /\ \A y \in T : Max(T) >= y  BY <1>7 DEF Max
<1>9. Max(T) \in T /\ \A y \in T : y <= Max(T)  BY <1>1, <1>8
<1>10. ASSUME NEW l \in T, \A x \in T : x <= l PROVE Max(T) = l
  <2>1. l \in Int /\ Max(T) \in Int  BY <1>1, <1>9
  <2>2. l <= Max(T) /\ Max(T) <= l  BY <1>9, <1>10
  <2> HIDE DEF J, I, R
  <2> QED  BY <2>1, <2>2
<1> QED  BY <1>9, <1>10

\* Chunks before another are finitely many, and fewer when more have been handled.
LEMMA BeforeIs ==
    ASSUME NEW id, NEW k \in Nat
    PROVE  /\ IsFiniteSet(Before(id, k)) /\ Cardinality(Before(id, k)) \in Nat
           /\ Window \in Nat
<1>1. IsFiniteSet(1..(k - 1))  BY FS_Interval
<1>2. IsFiniteSet(Before(id, k))  BY <1>1, FS_Subset DEF Before
<1> QED  BY <1>2, FS_CardinalityType, FlowBounds

LEMMA FewStaysFew ==
    ASSUME NEW id, NEW k \in Nat, FewBefore(id, k), syncHandled \subseteq syncHandled'
    PROVE  FewBefore(id, k)'
<1>1. Before(id, k)' \subseteq Before(id, k)  BY DEF Before
<1>2. IsFiniteSet(Before(id, k)) /\ Cardinality(Before(id, k)) \in Nat  BY BeforeIs
<1>3. IsFiniteSet(Before(id, k)') /\ Cardinality(Before(id, k)') <= Cardinality(Before(id, k))
  BY <1>1, <1>2, FS_Subset
<1>4. Cardinality(Before(id, k)') \in Nat  BY <1>3, FS_CardinalityType
<1> QED  BY <1>2, <1>3, <1>4, FlowBounds DEF FewBefore

\* A chunk of the window leaves few behind.
LEMMA WindowIsFew ==
    ASSUME NEW s, SessionOK(s), NEW k \in DOMAIN s.inFlight
    PROVE  k \in Nat /\ k \in 1..Len(s.chunks) /\ FewBefore(s.id, k)
<1>1. /\ s.next \in 1..(Len(s.chunks) + 1) /\ Len(s.chunks) \in Nat
      /\ k \in 1..(s.next - 1) /\ DOMAIN s.inFlight \subseteq 1..(s.next - 1)
      /\ Cardinality(DOMAIN s.inFlight) <= Window
      /\ \A j \in 1..(s.next - 1) : j \in DOMAIN s.inFlight \/ <<s.id, j>> \in syncHandled
  BY DEF SessionOK
<1>2. k \in Nat /\ k \in 1..Len(s.chunks)  BY <1>1
<1>3. IsFiniteSet(DOMAIN s.inFlight)
  <2>1. IsFiniteSet(1..(s.next - 1))  BY <1>1, FS_Interval
  <2> QED  BY <1>1, <2>1, FS_Subset
<1>4. Before(s.id, k) \subseteq DOMAIN s.inFlight \ {k}  BY <1>1, <1>2 DEF Before
<1>5. /\ IsFiniteSet(DOMAIN s.inFlight \ {k})
      /\ Cardinality(DOMAIN s.inFlight \ {k}) = Cardinality(DOMAIN s.inFlight) - 1
  BY <1>3, FS_RemoveElement
<1>6. Cardinality(Before(s.id, k)) <= Cardinality(DOMAIN s.inFlight \ {k})
  BY <1>4, <1>5, FS_Subset
<1>7. Cardinality(Before(s.id, k)) \in Nat /\ Cardinality(DOMAIN s.inFlight) \in Nat
  BY <1>2, <1>3, BeforeIs, FS_CardinalityType
<1>8. Cardinality(Before(s.id, k)) < Window  BY <1>1, <1>5, <1>6, <1>7, FlowBounds
<1> QED  BY <1>2, <1>8 DEF FewBefore

\* What is pumped fits the window.
LEMMA PumpedFits ==
    ASSUME NEW s, SessionOK(s)
    PROVE  /\ SessionOK(Pumped(s)) /\ Pumped(s).id = s.id /\ Pumped(s).chunks = s.chunks
           /\ \A f \in SentNow(s, Pumped(s)) :
                  \E k \in DOMAIN Pumped(s).inFlight : f = s.chunks[k]
<1> DEFINE n == Len(s.chunks)
           room == Room(s)
           sending == {k \in DOMAIN s.chunks : s.next <= k /\ k < s.next + room}
           new == [k \in DOMAIN s.inFlight \cup sending |->
                      IF k \in sending THEN 1 ELSE s.inFlight[k]]
           p == Pumped(s)
<1>1. /\ s = [id |-> s.id, chunks |-> s.chunks, next |-> s.next, inFlight |-> s.inFlight]
      /\ s.id \in Nat \ {0} /\ n \in Nat /\ DOMAIN s.chunks = 1..n
      /\ \A k \in 1..n : ChunkOK(s.chunks[k], s.id, k)
      /\ s.next \in 1..(n + 1) /\ s.next \in Int
      /\ DOMAIN s.inFlight \subseteq 1..(s.next - 1)
      /\ Cardinality(DOMAIN s.inFlight) <= Window
      /\ \A k \in 1..(s.next - 1) : k \in DOMAIN s.inFlight \/ <<s.id, k>> \in syncHandled
  BY DEF SessionOK
<1>2. IsFiniteSet(DOMAIN s.inFlight) /\ Cardinality(DOMAIN s.inFlight) \in Nat
  <2>1. s.next - 1 \in Int  BY <1>1
  <2>2. IsFiniteSet(1..(s.next - 1))  BY <2>1, FS_Interval
  <2>3. DOMAIN s.inFlight \subseteq 1..(s.next - 1)  BY <1>1
  <2>4. IsFiniteSet(DOMAIN s.inFlight)  BY <2>2, <2>3, FS_Subset
  <2> QED  BY <2>4, FS_CardinalityType
<1>3. room = Window - Cardinality(DOMAIN s.inFlight) /\ room \in Nat
  BY <1>1, <1>2, FlowBounds DEF Room
<1>4. PICK top \in Int : /\ sending = s.next..top /\ top <= n /\ top + 1 - s.next <= room
                         /\ top >= s.next - 1
  <2> HIDE DEF n, room
  <2>1. CASE s.next + room - 1 <= n
    <3>1. sending = s.next..(s.next + room - 1)  BY <1>1, <1>3, <2>1
    <3> QED  BY <1>1, <1>3, <2>1, <3>1
  <2>2. CASE ~(s.next + room - 1 <= n)
    <3>1. sending = s.next..n  BY <1>1, <1>3, <2>2
    <3> QED  BY <1>1, <1>3, <2>2, <3>1
  <2> QED  BY <2>1, <2>2
<1> HIDE DEF sending, n, room
<1>5. IsFiniteSet(sending) /\ Cardinality(sending) = top + 1 - s.next
  <2>1. IsFiniteSet(s.next..top)
        /\ Cardinality(s.next..top) = IF s.next <= top THEN top - s.next + 1 ELSE 0
    BY <1>1, <1>4, FS_Interval
  <2> QED  BY <1>1, <1>4, <2>1
<1>6. p = [s EXCEPT !.next = @ + Cardinality(sending), !.inFlight = new]
  BY DEF Pumped, sending, room
<1> HIDE DEF new
<1>7. /\ p = [id |-> s.id, chunks |-> s.chunks, next |-> top + 1, inFlight |-> new]
  <2>1. s.next + Cardinality(sending) = top + 1  BY <1>1, <1>4, <1>5
  <2>2. p = [s EXCEPT !.next = top + 1, !.inFlight = new]  BY <1>6, <2>1
  <2>3. s = [id |-> s.id, chunks |-> s.chunks, next |-> s.next, inFlight |-> s.inFlight]
    BY <1>1
  <2> QED  BY <2>2, <2>3
<1>8. DOMAIN new = DOMAIN s.inFlight \cup sending  BY DEF new
<1> HIDE DEF p
<1>9. /\ p.id = s.id /\ p.chunks = s.chunks /\ p.next = top + 1 /\ p.inFlight = new
      /\ p = [id |-> p.id, chunks |-> p.chunks, next |-> p.next, inFlight |-> p.inFlight]
  BY <1>7
<1>10. Cardinality(DOMAIN new) <= Window
  <2>1. /\ Cardinality(DOMAIN s.inFlight \cup sending)
               = Cardinality(DOMAIN s.inFlight) + Cardinality(sending)
                     - Cardinality(DOMAIN s.inFlight \cap sending)
        /\ Cardinality(DOMAIN s.inFlight \cap sending) \in Nat
    BY <1>2, <1>5, FS_Union, FS_Intersection, FS_CardinalityType
  <2> QED  BY <1>1, <1>2, <1>3, <1>4, <1>5, <1>8, <2>1, FlowBounds
<1>11. top + 1 \in 1..(n + 1) /\ DOMAIN new \subseteq 1..((top + 1) - 1)
  BY <1>1, <1>4, <1>8
<1>12. \A k \in 1..((top + 1) - 1) : k \in DOMAIN new \/ <<s.id, k>> \in syncHandled
  BY <1>1, <1>4, <1>8
<1>13. SessionOK(p)
  <2>1. Len(p.chunks) = n  BY <1>9 DEF n
  <2> QED  BY <1>1, <1>9, <1>10, <1>11, <1>12, <2>1 DEF SessionOK
<1>14. \A f \in SentNow(s, p) : \E k \in DOMAIN p.inFlight : f = s.chunks[k]
  BY <1>9 DEF SentNow
<1> QED  BY <1>9, <1>13, <1>14 DEF p

LEMMA FlowStarts == ASSUME SyncInit PROVE FlowInv
<1>1. log \in Seq(Nat) /\ Len(log) = 0  BY EmptySeq DEF SyncInit
<1>2. FlowTypes /\ NumberedInv  BY <1>1 DEF SyncInit, FlowTypes, NumberedInv
<1>3. FlowSound  BY DEF SyncInit, FlowSound, FewOvertaken, DroppedHasCause
<1> QED  BY <1>2, <1>3 DEF SyncInit, FlowInv

SeenGrows == syncSeen \in Nat /\ syncSeen' \in Nat /\ syncSeen <= syncSeen'

LEMMA SeenStays ==
    ASSUME FlowTypes, NumberedInv, syncEnds = 0, syncSeen' = syncSeen
    PROVE  SeenGrows /\ syncSeen \in 0..Len(log)
<1>1. Len(log) \in Nat /\ syncSeen \in 0..Len(log)  BY DEF FlowTypes, NumberedInv
<1> QED  BY <1>1 DEF SeenGrows

\* What is true of frames and sessions stays true as the log grows and chunks are handled.
LEMMA StaysDated ==
    ASSUME NEW f, Dated(f), Len(log) \in Nat, Len(log') \in Nat, Len(log) <= Len(log'), SeenGrows
    PROVE  Dated(f)'
<1>1. f.next \in 0..Len(log') /\ (f.next <= syncSeen => f.next <= syncSeen')
  BY DEF Dated, SeenGrows
<1> QED  BY <1>1 DEF Dated

LEMMA FrameStays ==
    ASSUME NEW f, FrameOf(f), syncHandled \subseteq syncHandled',
           syncEnds \in Nat, syncEnds' \in Nat, syncEnds <= syncEnds',
           Len(log) \in Nat, Len(log') \in Nat, Len(log) <= Len(log'),
           syncEnds' = 0 => SeenGrows
    PROVE  FrameOf(f)'
<1>1. syncEnds' = 0 => syncEnds = 0  OBVIOUS
<1>2. CASE /\ f.type = "SYNC_REQ" /\ f.id \in Nat \ {0}
           /\ syncEnds = 0 => f.since \in 0..Len(log) /\ f.since <= syncSeen
  <2>1. syncEnds' = 0 => f.since \in 0..Len(log') /\ f.since <= syncSeen'
    BY <1>1, <1>2 DEF SeenGrows
  <2> QED  BY <1>2, <2>1 DEF FrameOf
<1>3. CASE f.type = "SYNC_FLOW_ACK" /\ <<f.session, f.chunk>> \in syncHandled
  BY <1>3 DEF FrameOf
<1>4. CASE /\ f.type = "SYNC_RES" /\ f.session \in Nat /\ f.chunk \in Nat
           /\ f.session # 0 => FewBefore(f.session, f.chunk)
           /\ syncEnds = 0 => Dated(f)
  <2>1. f.session # 0 => FewBefore(f.session, f.chunk)'  BY <1>4, FewStaysFew
  <2>2. syncEnds' = 0 => Dated(f)'  BY <1>1, <1>4, StaysDated
  <2> QED  BY <1>4, <2>1, <2>2 DEF FrameOf
<1> QED  BY <1>2, <1>3, <1>4 DEF FrameOf

LEMMA SessionStays ==
    ASSUME NEW s, SessionOK(s), syncHandled \subseteq syncHandled',
           syncEnds \in Nat, syncEnds' \in Nat, syncEnds <= syncEnds',
           Len(log) \in Nat, Len(log') \in Nat, Len(log) <= Len(log'),
           syncEnds' = 0 => SeenGrows
    PROVE  SessionOK(s)'
<1>1. syncEnds' = 0 => syncEnds = 0  OBVIOUS
<1>2. ASSUME NEW k \in 1..Len(s.chunks) PROVE ChunkOK(s.chunks[k], s.id, k)'
  <2>1. ChunkOK(s.chunks[k], s.id, k)  BY DEF SessionOK
  <2>2. syncEnds' = 0 => Dated(s.chunks[k])'  BY <1>1, <2>1, StaysDated DEF ChunkOK
  <2> QED  BY <2>1, <2>2 DEF ChunkOK
<1> QED  BY <1>2 DEF SessionOK

LEMMA ChunkSent ==
    ASSUME NEW s, SessionOK(s), NEW k \in DOMAIN s.inFlight
    PROVE  FrameOf(s.chunks[k])
<1>1. k \in Nat /\ k \in 1..Len(s.chunks) /\ FewBefore(s.id, k)  BY WindowIsFew
<1>2. ChunkOK(s.chunks[k], s.id, k) /\ s.id \in Nat  BY <1>1 DEF SessionOK
<1> QED  BY <1>1, <1>2 DEF ChunkOK, FrameOf

\* The map of a whole log is its length.
LEMMA NextMapIs ==
    ASSUME syncEnds = 0, NumberedInv, FlowTypes
    PROVE  NextMap(DOMAIN log) = Len(log) /\ Len(log) \in Nat
<1> DEFINE T == {0} \cup {log[e] : e \in DOMAIN log}
<1>1. /\ Len(log) \in Nat /\ DOMAIN log = 1..Len(log)
      /\ \A e \in 1..Len(log) : log[e] = e
  BY DEF FlowTypes, NumberedInv
<1>2. T = {0} \cup 1..Len(log)  BY <1>1
<1>3. /\ T \subseteq 0..Len(log) /\ T # {} /\ Len(log) \in T
      /\ \A x \in T : x <= Len(log)
  BY <1>1, <1>2
<1> HIDE DEF T
<1>4. Max(T) = Len(log)  BY <1>1, <1>3, MaxIs
<1> QED  BY <1>1, <1>4 DEF NextMap, T

\* An answer has the newer events in order.
LEMMA InOrderIs ==
    ASSUME FlowTypes, NEW since, NEW events \in InOrder(NewerThan(since))
    PROVE  /\ Len(events) \in Nat /\ DOMAIN events = 1..Len(events)
           /\ \A i \in 1..Len(events) : events[i] \in 1..Len(log)
           /\ \A i, j \in 1..Len(events) : i < j => events[i] < events[j]
           /\ Len(log) \in Nat
           /\ \A e \in NewerThan(since) : \E i \in 1..Len(events) : events[i] = e
<1> DEFINE n == Cardinality(NewerThan(since))
<1>1. Len(log) \in Nat /\ DOMAIN log = 1..Len(log)  BY DEF FlowTypes
<1>2. IsFiniteSet(1..Len(log))  BY <1>1, FS_Interval
<1>3. NewerThan(since) \subseteq 1..Len(log)  BY <1>1 DEF NewerThan
<1>4. n \in Nat  BY <1>2, <1>3, FS_Subset, FS_CardinalityType
<1>5. events \in [1..n -> NewerThan(since)]
      /\ Range(events) = NewerThan(since)
      /\ \A i, j \in DOMAIN events : i < j => events[i] < events[j]
  BY DEF InOrder
<1> HIDE DEF n
<1>6. events \in Seq(NewerThan(since)) /\ Len(events) = n  BY <1>4, <1>5, SeqDef
<1>7. \A e \in NewerThan(since) : \E i \in 1..Len(events) : events[i] = e
  BY <1>5, <1>6 DEF Range
<1> QED  BY <1>1, <1>3, <1>4, <1>5, <1>6, <1>7

\* The map says what the last of the newer events says, or what the reader had seen.
LEMMA LastIs ==
    ASSUME FlowTypes, NumberedInv, syncEnds = 0, NEW since \in 0..Len(log), since <= syncSeen,
           NEW events \in InOrder(NewerThan(since))
    PROVE  /\ Len(events) = 0 => Len(log) <= syncSeen
           /\ Len(events) > 0 => events[Len(events)] = Len(log)
<1>1. /\ Len(events) \in Nat
      /\ \A i \in 1..Len(events) : events[i] \in 1..Len(log)
      /\ \A i, j \in 1..Len(events) : i < j => events[i] < events[j]
      /\ Len(log) \in Nat
      /\ \A e \in NewerThan(since) : \E i \in 1..Len(events) : events[i] = e
  BY InOrderIs
<1>2. syncSeen \in Nat /\ since \in Nat /\ DOMAIN log = 1..Len(log)
      /\ \A e \in 1..Len(log) : log[e] = e
  BY <1>1 DEF NumberedInv, FlowTypes
<1>3. CASE Len(log) <= since
  <2>1. NewerThan(since) = {}  BY <1>1, <1>2, <1>3 DEF NewerThan
  <2>2. Len(events) = 0
    <3>1. \A i \in 1..Len(events) : events[i] \in NewerThan(since)
      <4>1. events \in [1..Cardinality(NewerThan(since)) -> NewerThan(since)]  BY DEF InOrder
      <4>2. DOMAIN events = 1..Len(events)  BY InOrderIs
      <4> QED  BY <4>1, <4>2
    <3>2. Len(events) > 0 => 1 \in 1..Len(events)  BY <1>1
    <3> QED  BY <1>1, <2>1, <3>1, <3>2
  <2> QED  BY <1>1, <1>2, <1>3, <2>2
<1>4. CASE ~(Len(log) <= since)
  <2>1. Len(log) \in NewerThan(since)  BY <1>1, <1>2, <1>4 DEF NewerThan
  <2>2. PICK i \in 1..Len(events) : events[i] = Len(log)  BY <1>1, <2>1
  <2>3. Len(events) > 0 /\ Len(events) \in 1..Len(events)  BY <1>1
  <2>4. i = Len(events)
    <3>1. ASSUME i < Len(events) PROVE FALSE
      <4>1. events[i] < events[Len(events)] /\ events[Len(events)] \in 1..Len(log)
        BY <1>1, <2>3, <3>1
      <4> QED  BY <1>1, <2>2, <4>1
    <3>2. \A n \in Nat : \A j \in 1..n : j = n \/ j < n  OBVIOUS
    <3> QED  BY <1>1, <3>1, <3>2
  <2> QED  BY <2>2, <2>3, <2>4
<1> QED  BY <1>3, <1>4

LEMMA Answering ==
    ASSUME FlowInv, NEW frame \in syncFrames, HandleReq(frame)
    PROVE  FlowInv'
<1> FlowTypes /\ NumberedInv /\ (session # NoSession => SessionOK(session)) /\ FlowSound
  BY DEF FlowInv
<1>1. PICK events \in InOrder(NewerThan(frame.since)) : Respond(frame, events)  BY DEF HandleReq
<1>2. /\ frame.type = "SYNC_REQ" /\ session = NoSession
      /\ UNCHANGED <<log, counter, syncSeen, known, emits, requests, syncEnds, dropped,
                     syncHandled>>
  BY DEF HandleReq
<1>3. /\ Len(events) \in Nat /\ DOMAIN events = 1..Len(events)
      /\ \A i \in 1..Len(events) : events[i] \in 1..Len(log)
      /\ \A i, j \in 1..Len(events) : i < j => events[i] < events[j]
      /\ Len(log) \in Nat
  BY InOrderIs
<1>4. /\ frame.id \in Nat \ {0}
      /\ syncEnds = 0 => frame.since \in 0..Len(log) /\ frame.since <= syncSeen
  BY <1>2 DEF FlowInv, FrameOf
<1> DEFINE next == NextMap(DOMAIN log)
<1>5. syncEnds = 0 =>
           /\ next = Len(log) /\ syncSeen \in Nat
           /\ Len(events) = 0 => next <= syncSeen
           /\ Len(events) > 0 => events[Len(events)] = next
  BY <1>4, NextMapIs, LastIs DEF NumberedInv
<1>6. syncEnds = 0 => next \in 0..Len(log)  BY <1>3, <1>5
<1> HIDE DEF next
<1>7. \A f : (FrameOf(f))' <=> FrameOf(f)
  BY <1>2 DEF FrameOf, FewBefore, Before, Dated
<1>8. \A s : (SessionOK(s))' <=> SessionOK(s)
  BY <1>2 DEF SessionOK, ChunkOK, Dated
<1>9. FlowTypes' /\ NumberedInv' /\ FlowSound'
  BY <1>2 DEF FlowTypes, NumberedInv, FlowSound, FewOvertaken, DroppedHasCause
<1>10. CASE Len(events) <= 1
  <2> DEFINE f == Plain(events, next)
  <2>1. syncFrames' = (syncFrames \ {frame}) \cup {f} /\ session' = session
    BY <1>1, <1>10 DEF Respond, next
  <2>2. /\ f.type = "SYNC_RES" /\ f.session = 0 /\ f.chunk = 0 /\ f.events = events
        /\ f.next = next
    BY DEF Plain
  <2> HIDE DEF f
  <2>3. syncEnds = 0 => Dated(f)  BY <1>3, <1>5, <1>6, <2>2 DEF Dated
  <2>4. FrameOf(f)  BY <2>2, <2>3 DEF FrameOf
  <2> QED  BY <1>2, <1>7, <1>9, <2>1, <2>4 DEF FlowInv
<1>11. CASE ~(Len(events) <= 1)
  <2> DEFINE chunks == Chunks(events, next, frame.id)
             empty == [id |-> frame.id, chunks |-> chunks, next |-> 1, inFlight |-> <<>>]
  <2>1. /\ session' = Pumped(empty)
        /\ syncFrames' = (syncFrames \ {frame}) \cup SentNow(empty, Pumped(empty))
    BY <1>1, <1>11 DEF Respond, next
  <2>2. /\ DOMAIN chunks = 1..Len(events)
        /\ \A k \in 1..Len(events) :
               chunks[k] = [type |-> "SYNC_RES", session |-> frame.id, chunk |-> k,
                            events |-> <<events[k]>>,
                            next |-> NextOfFinal(next, k = Len(events))]
    BY <1>3 DEF Chunks
  <2> HIDE DEF chunks
  <2>3. Len(chunks) = Len(events)
    <3>1. chunks \in [1..Len(events) -> {chunks[k] : k \in 1..Len(events)}]
      <4>1. chunks = [k \in 1..Len(events) |-> chunks[k]]  BY <1>3, <2>2 DEF Chunks, chunks
      <4> QED  BY <4>1
    <3> QED  BY <1>3, <3>1, SeqDef
  <2>4. ASSUME NEW k \in 1..Len(events) PROVE ChunkOK(chunks[k], frame.id, k)
    <3> DEFINE f == chunks[k]
    <3>1. /\ f.type = "SYNC_RES" /\ f.session = frame.id /\ f.chunk = k
          /\ f.events = <<events[k]>> /\ f.next = NextOfFinal(next, k = Len(events))
      BY <2>2
    <3>2. Len(f.events) = 1 /\ DOMAIN f.events = 1..1 /\ f.events[1] = events[k]  BY <3>1
    <3> HIDE DEF f
    <3>3. syncEnds = 0 => f.next = 0 \/ f.next = events[k]
      <4>1. CASE k = Len(events)  BY <1>3, <1>5, <3>1, <4>1 DEF NextOfFinal
      <4>2. CASE k # Len(events)  BY <3>1, <4>2 DEF NextOfFinal
      <4> QED  BY <4>1, <4>2
    <3>4. syncEnds = 0 => Dated(f)
      <4>1. \A i \in 1..1 : i = 1  OBVIOUS
      <4>2. events[k] \in 1..Len(log) /\ Len(log) \in Nat  BY <1>3
      <4>3. syncEnds = 0 => f.next \in 0..Len(log) /\ (f.next <= syncSeen \/ f.next = events[k])
        BY <1>5, <3>3, <4>2
      <4> QED  BY <3>2, <4>1, <4>2, <4>3 DEF Dated
    <3> QED  BY <3>1, <3>4 DEF ChunkOK, f
  <2>5. SessionOK(empty) /\ empty.chunks = chunks
    <3>1. /\ empty.id = frame.id /\ empty.chunks = chunks /\ empty.next = 1
          /\ DOMAIN empty.inFlight = {}
          /\ empty = [id |-> empty.id, chunks |-> empty.chunks, next |-> empty.next,
                      inFlight |-> empty.inFlight]
      OBVIOUS
    <3> HIDE DEF empty
    <3>2. Cardinality(DOMAIN empty.inFlight) = 0  BY <3>1, FS_EmptySet
    <3>3. 1..(1 - 1) = {} /\ 1 \in 1..(Len(events) + 1)  BY <1>3
    <3>4. 0 <= Window  BY FlowBounds
    <3> QED  BY <1>3, <1>4, <2>2, <2>3, <2>4, <3>1, <3>2, <3>3, <3>4 DEF SessionOK
  <2> HIDE DEF empty
  <2>6. /\ SessionOK(Pumped(empty)) /\ Pumped(empty).chunks = empty.chunks
        /\ \A f \in SentNow(empty, Pumped(empty)) :
               \E k \in DOMAIN Pumped(empty).inFlight : f = empty.chunks[k]
    BY <2>5, PumpedFits
  <2>7. \A f \in SentNow(empty, Pumped(empty)) : FrameOf(f)  BY <2>6, ChunkSent
  <2>8. \A f \in syncFrames' : FrameOf(f)  BY <2>1, <2>7 DEF FlowInv
  <2>9. SessionOK(session')  BY <2>1, <2>6
  <2>10. (session # NoSession => SessionOK(session))'
    <3>1. \A s : SessionOK(s) => (SessionOK(s))'  BY <1>8
    <3> PICK s : s = session'  OBVIOUS
    <3> QED  BY <1>2, <2>9 DEF SessionOK, ChunkOK, Dated
  <2> QED  BY <1>7, <1>9, <2>8, <2>10 DEF FlowInv
<1> QED  BY <1>10, <1>11

LEMMA ChunkResent ==
    ASSUME FlowInv, NEW k \in InFlight, RetryTimer(k)
    PROVE  FlowInv'
<1> FlowTypes /\ NumberedInv /\ FlowSound  BY DEF FlowInv
<1>1. session # NoSession /\ SessionOK(session) /\ k \in DOMAIN session.inFlight
  BY DEF InFlight, FlowInv
<1>2. UNCHANGED <<log, counter, syncSeen, known, emits, requests, syncEnds, dropped, syncHandled>>
  BY DEF RetryTimer
<1>3. FlowTypes' /\ NumberedInv' /\ FlowSound'
  BY <1>2 DEF FlowTypes, NumberedInv, FlowSound, FewOvertaken, DroppedHasCause
<1>4. \A f : (FrameOf(f))' <=> FrameOf(f)
  BY <1>2 DEF FrameOf, FewBefore, Before, Dated
<1>5. CASE session' = NoSession /\ UNCHANGED syncFrames
  BY <1>3, <1>4, <1>5 DEF FlowInv
<1>6. CASE /\ session' = [session EXCEPT !.inFlight[k] = Min({@ + 1, MaxChunkAttempts})]
           /\ syncFrames' = syncFrames \cup {session.chunks[k]}
  <2>1. FrameOf(session.chunks[k])  BY <1>1, ChunkSent
  <2>2. \A f \in syncFrames' : (FrameOf(f))'  BY <1>4, <1>6, <2>1 DEF FlowInv
  <2> DEFINE new == [session.inFlight EXCEPT ![k] = Min({@ + 1, MaxChunkAttempts})]
  <2>3. session' = [id |-> session.id, chunks |-> session.chunks, next |-> session.next,
                    inFlight |-> new]
    <3>1. session = [id |-> session.id, chunks |-> session.chunks, next |-> session.next,
                     inFlight |-> session.inFlight]
      BY <1>1 DEF SessionOK
    <3>2. session' = [session EXCEPT !.inFlight = new]  BY <1>6
    <3> HIDE DEF new
    <3> QED  BY <3>1, <3>2
  <2>4. DOMAIN new = DOMAIN session.inFlight  OBVIOUS
  <2> HIDE DEF new
  <2>5. SessionOK(session)'
    <3>1. /\ session'.id = session.id /\ session'.chunks = session.chunks
          /\ session'.next = session.next /\ session'.inFlight = new
      BY <2>3
    <3> QED  BY <1>1, <1>2, <2>3, <2>4, <3>1 DEF SessionOK, ChunkOK, Dated
  <2> QED  BY <1>3, <2>2, <2>5 DEF FlowInv
<1> QED  BY <1>5, <1>6 DEF RetryTimer

LEMMA Acknowledged ==
    ASSUME FlowInv, NEW frame \in syncFrames, FlowAck(frame)
    PROVE  FlowInv'
<1> FlowTypes /\ NumberedInv /\ FlowSound  BY DEF FlowInv
<1>1. UNCHANGED <<log, counter, syncSeen, known, emits, requests, syncEnds, dropped, syncHandled>>
  BY DEF FlowAck
<1>2. frame.type = "SYNC_FLOW_ACK" /\ <<frame.session, frame.chunk>> \in syncHandled
  BY DEF FlowAck, FlowInv, FrameOf
<1>3. FlowTypes' /\ NumberedInv' /\ FlowSound'
  BY <1>1 DEF FlowTypes, NumberedInv, FlowSound, FewOvertaken, DroppedHasCause
<1>4. \A f : (FrameOf(f))' <=> FrameOf(f)
  BY <1>1 DEF FrameOf, FewBefore, Before, Dated
<1>5. CASE session = NoSession \/ session.id # frame.session
  <2>1. syncFrames' = syncFrames \ {frame} /\ session' = session  BY <1>5 DEF FlowAck
  <2>2. (session # NoSession => SessionOK(session))'
    BY <1>1, <2>1 DEF FlowInv, SessionOK, ChunkOK, Dated
  <2> QED  BY <1>3, <1>4, <2>1, <2>2 DEF FlowInv
<1>6. CASE session # NoSession /\ session.id = frame.session
  <2> DEFINE rest == [k \in DOMAIN session.inFlight \ {frame.chunk} |-> session.inFlight[k]]
             acked == [session EXCEPT !.inFlight = rest]
  <2>1. /\ session' = IF Done(Pumped(acked)) THEN NoSession ELSE Pumped(acked)
        /\ syncFrames' = (syncFrames \ {frame}) \cup SentNow(acked, Pumped(acked))
    BY <1>6 DEF FlowAck
  <2>2. SessionOK(session)  BY <1>6 DEF FlowInv
  <2>3. DOMAIN rest = DOMAIN session.inFlight \ {frame.chunk}  OBVIOUS
  <2> HIDE DEF rest
  <2>4. acked = [id |-> session.id, chunks |-> session.chunks, next |-> session.next,
                 inFlight |-> rest]
    <3>1. session = [id |-> session.id, chunks |-> session.chunks, next |-> session.next,
                     inFlight |-> session.inFlight]
      BY <2>2 DEF SessionOK
    <3> QED  BY <3>1
  <2> HIDE DEF acked
  <2>5. SessionOK(acked)
    <3>1. /\ acked.id = session.id /\ acked.chunks = session.chunks
          /\ acked.next = session.next /\ acked.inFlight = rest
      BY <2>4
    <3>2. Cardinality(DOMAIN rest) <= Window
      <4>1. /\ session.next \in 1..(Len(session.chunks) + 1) /\ Len(session.chunks) \in Nat
            /\ DOMAIN session.inFlight \subseteq 1..(session.next - 1)
            /\ Cardinality(DOMAIN session.inFlight) <= Window
        BY <2>2 DEF SessionOK
      <4>2. IsFiniteSet(1..(session.next - 1))  BY <4>1, FS_Interval
      <4>3. IsFiniteSet(DOMAIN session.inFlight)  BY <4>1, <4>2, FS_Subset
      <4>4. /\ Cardinality(DOMAIN rest) <= Cardinality(DOMAIN session.inFlight)
            /\ IsFiniteSet(DOMAIN rest)
        BY <2>3, <4>3, FS_Subset
      <4>5. Cardinality(DOMAIN rest) \in Nat /\ Cardinality(DOMAIN session.inFlight) \in Nat
        BY <4>3, <4>4, FS_CardinalityType
      <4> QED  BY <4>1, <4>4, <4>5, FlowBounds
    <3>3. \A k \in 1..(session.next - 1) : k \in DOMAIN rest \/ <<session.id, k>> \in syncHandled
      BY <1>2, <1>6, <2>2, <2>3 DEF SessionOK
    <3>4. DOMAIN rest \subseteq 1..(session.next - 1)  BY <2>2, <2>3 DEF SessionOK
    <3> QED  BY <2>2, <2>4, <3>1, <3>2, <3>3, <3>4 DEF SessionOK
  <2>6. /\ SessionOK(Pumped(acked)) /\ Pumped(acked).chunks = acked.chunks
        /\ \A f \in SentNow(acked, Pumped(acked)) :
               \E k \in DOMAIN Pumped(acked).inFlight : f = acked.chunks[k]
    BY <2>5, PumpedFits
  <2>7. \A f \in SentNow(acked, Pumped(acked)) : FrameOf(f)  BY <2>6, ChunkSent
  <2>8. \A f \in syncFrames' : FrameOf(f)  BY <2>1, <2>7 DEF FlowInv
  <2>9. session' = NoSession \/ SessionOK(session')  BY <2>1, <2>6
  <2>10. (session # NoSession => SessionOK(session))'
    BY <1>1, <2>9 DEF SessionOK, ChunkOK, Dated
  <2> QED  BY <1>3, <1>4, <2>8, <2>10 DEF FlowInv
<1> QED  BY <1>5, <1>6

\* What the reader drops is not newer than the newest event it has seen.
LEMMA ReplayIsOld ==
    ASSUME syncEnds = 0, FlowTypes, NumberedInv, NEW f, Dated(f),
           NEW i \in 1..Len(f.events), syncSeen < f.events[i]
    PROVE  f.events[i] \notin Replays(f.events)
<1>1. Len(log) \in Nat  BY DEF FlowTypes
<1>2. /\ Len(f.events) \in Nat /\ DOMAIN f.events = 1..Len(f.events)
      /\ \A j \in 1..Len(f.events) : f.events[j] \in 1..Len(log)
      /\ \A j, l \in 1..Len(f.events) : j < l => f.events[j] < f.events[l]
  BY DEF Dated
<1>3. syncSeen \in 0..Len(log)  BY <1>1 DEF NumberedInv
<1>4. ASSUME NEW j \in 1..Len(f.events), f.events[j] = f.events[i],
             log[f.events[j]] <= Max({syncSeen} \cup {log[f.events[l]] : l \in 1..(j - 1)})
      PROVE  FALSE
  <2> DEFINE T == {syncSeen} \cup {log[f.events[l]] : l \in 1..(j - 1)}
  <2>1. \A l \in 1..(j - 1) :
            /\ l \in 1..Len(f.events) /\ log[f.events[l]] = f.events[l]
            /\ f.events[l] \in 1..Len(log) /\ f.events[l] < f.events[j]
    <3> TAKE l \in 1..(j - 1)
    <3>1. l \in 1..Len(f.events) /\ l < j  BY <1>2
    <3> QED  BY <1>2, <3>1 DEF NumberedInv
  <2>2. \A x \in T : x \in 0..Len(log) /\ x < f.events[j]
    <3>1. ASSUME NEW l \in 1..(j - 1)
          PROVE  log[f.events[l]] \in 0..Len(log) /\ log[f.events[l]] < f.events[j]
      <4>1. f.events[l] \in 1..Len(log) /\ log[f.events[l]] = f.events[l]
            /\ f.events[l] < f.events[j]
        BY <2>1
      <4> QED  BY <1>1, <4>1
    <3> QED  BY <1>3, <1>4, <3>1
  <2>3. T \subseteq 0..Len(log) /\ T # {}  BY <2>2
  <2> HIDE DEF T
  <2>4. Max(T) \in T  BY <1>1, <2>3, MaxIs
  <2>5. log[f.events[j]] <= Max(T)  BY <1>4 DEF T
  <2>6. log[f.events[j]] = f.events[j] /\ f.events[j] \in Int  BY <1>1, <1>2 DEF NumberedInv
  <2>7. Max(T) < f.events[j] /\ Max(T) \in Int  BY <1>1, <2>2, <2>4
  <2> QED  BY <2>5, <2>6, <2>7
<1> QED  BY <1>2, <1>4 DEF Replays

LEMMA Taking ==
    ASSUME FlowInv, NEW frame \in syncFrames, TakeFrame(frame)
    PROVE  FlowInv'
<1> FlowTypes /\ NumberedInv /\ FlowSound  BY DEF FlowInv
<1>1. /\ frame.type = "SYNC_RES"
      /\ known' = known \cup (Range(frame.events) \ Replays(frame.events))
      /\ dropped' = dropped \cup (Replays(frame.events) \ known)
      /\ syncSeen' = Max({syncSeen, frame.next} \cup {log[e] : e \in Range(frame.events)})
      /\ UNCHANGED <<log, counter, session, emits, requests, syncEnds>>
  BY DEF TakeFrame
<1> DEFINE ack == [type |-> "SYNC_FLOW_ACK", session |-> frame.session, chunk |-> frame.chunk]
<1>2. \/ /\ frame.session = 0
         /\ syncFrames' = syncFrames \ {frame} /\ syncHandled' = syncHandled
      \/ /\ frame.session # 0
         /\ syncFrames' = (syncFrames \ {frame}) \cup {ack}
         /\ syncHandled' = syncHandled \cup {<<frame.session, frame.chunk>>}
  BY DEF TakeFrame
<1>3. /\ frame.session \in Nat /\ frame.chunk \in Nat
      /\ frame.session # 0 => FewBefore(frame.session, frame.chunk)
      /\ syncEnds = 0 => Dated(frame)
  BY <1>1 DEF FlowInv, FrameOf
<1>4. Len(log) \in Nat /\ syncEnds \in Nat /\ syncHandled \subseteq syncHandled'
  BY <1>2 DEF FlowTypes
<1>5. FlowTypes'  BY <1>1, <1>2, <1>3 DEF FlowTypes
<1>6. ASSUME syncEnds = 0
      PROVE  /\ known' \subseteq 1..Len(log) /\ syncSeen' \in known' \cup {0} /\ SeenGrows
             /\ \A e \in Replays(frame.events) \ known : \E newer \in known' : newer > e
  <2> DEFINE T == {syncSeen, frame.next} \cup {log[e] : e \in Range(frame.events)}
  <2>1. /\ Len(frame.events) \in Nat /\ DOMAIN frame.events = 1..Len(frame.events)
        /\ \A j \in 1..Len(frame.events) : frame.events[j] \in 1..Len(log)
        /\ frame.next \in 0..Len(log)
        /\ \/ frame.next <= syncSeen
           \/ Len(frame.events) > 0 /\ frame.next = frame.events[Len(frame.events)]
    BY <1>3, <1>6 DEF Dated
  <2>2. /\ known \subseteq 1..Len(log) /\ syncSeen \in known \cup {0}
        /\ \A e \in 1..Len(log) : log[e] = e
    BY <1>6 DEF NumberedInv
  <2>3. \A e \in Range(frame.events) : e \in 1..Len(log) /\ log[e] = e
    BY <2>1, <2>2 DEF Range
  <2>4. frame.next <= syncSeen \/ frame.next \in Range(frame.events)
    <3>1. Len(frame.events) > 0 => Len(frame.events) \in 1..Len(frame.events)  BY <2>1
    <3> QED  BY <2>1, <3>1 DEF Range
  <2>5. /\ T \subseteq {frame.next, syncSeen} \cup Range(frame.events) /\ syncSeen \in T
    BY <2>3
  <2>6. T \subseteq 0..Len(log)  BY <1>4, <2>1, <2>2, <2>3, <2>5
  <2> HIDE DEF T
  <2>7. syncSeen' = Max(T)  BY <1>1 DEF T
  <2>8. Max(T) \in T /\ syncSeen <= Max(T)  BY <1>4, <2>5, <2>6, MaxIs
  <2>9. known' \subseteq 1..Len(log)  BY <1>1, <2>2, <2>3
  <2>10. ASSUME NEW e \in Range(frame.events), syncSeen < e PROVE e \in known'
    <3>1. PICK i \in 1..Len(frame.events) : e = frame.events[i]  BY <2>1 DEF Range
    <3>2. e \notin Replays(frame.events)  BY <1>3, <1>6, <2>10, <3>1, ReplayIsOld
    <3> QED  BY <1>1, <3>2
  <2>11. syncSeen' \in known' \cup {0}
    <3>1. CASE Max(T) = syncSeen \/ (Max(T) = frame.next /\ frame.next <= syncSeen)
      <4>1. syncSeen \in 0..Len(log) /\ Max(T) \in 0..Len(log)  BY <2>5, <2>6, <2>8
      <4>2. Max(T) = syncSeen  BY <1>4, <2>8, <3>1, <4>1
      <4> QED  BY <1>1, <2>2, <2>7, <4>2
    <3>2. CASE Max(T) \in Range(frame.events)
      <4>1. CASE Max(T) = syncSeen  BY <1>1, <2>2, <2>7, <4>1
      <4>2. CASE Max(T) # syncSeen
        <5>1. syncSeen \in 0..Len(log) /\ Max(T) \in 0..Len(log)  BY <2>5, <2>6, <2>8
        <5>2. syncSeen < Max(T)  BY <1>4, <2>8, <4>2, <5>1
        <5> QED  BY <2>7, <2>10, <3>2, <5>2
      <4> QED  BY <4>1, <4>2
    <3> QED  BY <2>4, <2>5, <2>8, <3>1, <3>2
  <2>12. ASSUME NEW e \in Replays(frame.events), e \notin known
         PROVE  \E newer \in known' : newer > e
    <3>1. e \in Range(frame.events)  BY DEF Replays, Range
    <3>2. ~(syncSeen < e)
      <4>1. PICK i \in 1..Len(frame.events) : e = frame.events[i]  BY <2>1, <3>1 DEF Range
      <4> QED  BY <1>3, <1>6, <2>12, <4>1, ReplayIsOld
    <3>3. e \in 1..Len(log) /\ syncSeen \in 0..Len(log)  BY <1>4, <2>2, <2>3, <3>1
    <3>4. e <= syncSeen /\ syncSeen # 0  BY <1>4, <3>2, <3>3
    <3>5. syncSeen \in known /\ syncSeen # e  BY <2>2, <2>12, <3>4
    <3>6. syncSeen > e  BY <1>4, <3>3, <3>4, <3>5
    <3> QED  BY <1>1, <3>5, <3>6
  <2>13. SeenGrows
    <3>1. syncSeen \in 0..Len(log) /\ Max(T) \in 0..Len(log)  BY <2>5, <2>6, <2>8
    <3> QED  BY <1>4, <2>7, <2>8, <3>1 DEF SeenGrows
  <2> QED  BY <2>9, <2>11, <2>12, <2>13
<1>7. \A f \in syncFrames' : (FrameOf(f))'
  <2>1. \A f \in syncFrames : (FrameOf(f))'  BY <1>1, <1>4, <1>6, FrameStays DEF FlowInv
  <2>2. frame.session # 0 => (FrameOf(ack))'
    <3>1. ack.type = "SYNC_FLOW_ACK" /\ ack.session = frame.session /\ ack.chunk = frame.chunk
      OBVIOUS
    <3> QED  BY <1>2, <3>1 DEF FrameOf
  <2> QED  BY <1>2, <2>1, <2>2
<1>8. (session # NoSession => SessionOK(session))'
  <2>1. ASSUME session # NoSession PROVE (SessionOK(session))'
    <3> PICK s : s = session  OBVIOUS
    <3>1. SessionOK(s)  BY <2>1 DEF FlowInv
    <3>2. (SessionOK(s))'  BY <1>1, <1>4, <1>6, <3>1, SessionStays
    <3> QED  BY <1>1, <3>2 DEF SessionOK, ChunkOK, Dated
  <2> QED  BY <1>1, <2>1
<1>9. FewOvertaken'
  <2>1. ASSUME NEW c \in syncHandled' PROVE FewBefore(c[1], c[2])'
    <3>1. CASE c \in syncHandled
      <4>1. c[2] \in Nat  BY <3>1 DEF FlowTypes
      <4>2. FewBefore(c[1], c[2])
        BY <3>1 DEF FlowSound, FewOvertaken, FewBefore, Before
      <4> QED  BY <1>4, <4>1, <4>2, FewStaysFew
    <3>2. CASE c \notin syncHandled
      <4>1. frame.session # 0 /\ c = <<frame.session, frame.chunk>>  BY <1>2, <2>1, <3>2
      <4>2. FewBefore(frame.session, frame.chunk)'  BY <1>3, <1>4, <4>1, FewStaysFew
      <4> QED  BY <4>1, <4>2 DEF FewBefore, Before
    <3> QED  BY <3>1, <3>2
  <2> QED  BY <2>1 DEF FewOvertaken, FewBefore, Before
<1>10. NumberedInv'
  <2>1. ASSUME syncEnds' = 0
        PROVE  /\ \A e \in 1..Len(log') : log'[e] = e
               /\ counter' = Len(log')
               /\ known' \subseteq 1..Len(log') /\ syncSeen' \in known' \cup {0}
    BY <1>1, <1>6, <2>1 DEF NumberedInv
  <2> QED  BY <2>1 DEF NumberedInv
<1>11. DroppedHasCause'
  <2>1. ASSUME NEW e \in dropped' PROVE (\E newer \in known' : newer > e) \/ syncEnds > 0
    <3>1. CASE syncEnds = 0
      <4>1. CASE e \in dropped
        <5>1. \E newer \in known : newer > e
          BY <3>1, <4>1 DEF FlowSound, DroppedHasCause
        <5> QED  BY <1>1, <5>1
      <4>2. CASE e \notin dropped  BY <1>1, <1>6, <2>1, <3>1, <4>2
      <4> QED  BY <4>1, <4>2
    <3>2. CASE syncEnds # 0  BY <1>4, <3>2
    <3> QED  BY <3>1, <3>2
  <2> QED  BY <1>1, <2>1 DEF DroppedHasCause
<1> QED  BY <1>5, <1>7, <1>8, <1>9, <1>10, <1>11 DEF FlowInv, FlowSound

\* The author adds events to its log and sends them.
LEMMA Emitting == ASSUME FlowInv, Emit PROVE FlowInv'
<1> FlowTypes /\ NumberedInv /\ FlowSound  BY DEF FlowInv
<1>1. PICK n \in 1..(MaxEvents - Len(log)) :
          /\ counter' = counter + n
          /\ log' = Built(n)
          /\ syncFrames' = syncFrames \cup
                 {Plain([k \in 1..n |-> Len(log) + k], counter + n)}
  BY DEF Emit
<1>2. UNCHANGED <<session, syncSeen, known, requests, syncEnds, dropped, syncHandled>>
  BY DEF Emit
<1>3. Len(log) \in Nat /\ log \in Seq(Nat) /\ counter \in Nat /\ n \in Nat /\ n > 0
  BY FlowBounds DEF FlowTypes
<1> DEFINE fresh == [k \in 1..n |-> counter + k]
<1>4. PICK f : f = Plain([k \in 1..n |-> Len(log) + k], counter + n)  OBVIOUS
<1>5. /\ counter' = counter + n /\ counter' \in Nat
       /\ syncFrames' = syncFrames \cup {f}
  <2>1. counter' = counter + n /\ syncFrames' = syncFrames \cup {f}  BY <1>1, <1>4
  <2> QED  BY <1>3, <2>1
<1>6. fresh \in Seq(Nat) /\ Len(fresh) = n /\ \A k \in 1..n : fresh[k] = counter + k
  <2>1. fresh \in [1..n -> Nat]  BY <1>3
  <2> QED  BY <1>3, <2>1, SeqDef
<1> HIDE DEF fresh
<1>7. /\ log' \in Seq(Nat) /\ Len(log') = Len(log) + n
      /\ \A e \in 1..Len(log) : log'[e] = log[e]
      /\ \A k \in 1..n : log'[Len(log) + k] = fresh[k]
  <2>1. log' = log \o fresh  BY <1>1 DEF Built, fresh
  <2>2. ASSUME NEW k \in 1..n PROVE (log \o fresh)[Len(log) + k] = fresh[k]
    BY <1>3, <1>6
  <2>3. \A e \in 1..Len(log) : (log \o fresh)[e] = log[e]  BY <1>3, <1>6
  <2>4. log \o fresh \in Seq(Nat) /\ Len(log \o fresh) = Len(log) + n
    BY <1>3, <1>6, ConcatProperties
  <2> QED  BY <2>1, <2>2, <2>3, <2>4
<1>8. FlowTypes'  BY <1>2, <1>7, <1>5 DEF FlowTypes
<1>9. NumberedInv'
  <2>1. ASSUME syncEnds = 0, NEW e \in 1..Len(log') PROVE log'[e] = e
    <3>1. CASE e \in 1..Len(log)  BY <1>7, <2>1, <3>1 DEF NumberedInv
    <3>2. CASE e \notin 1..Len(log)
      <4>1. e - Len(log) \in 1..n /\ Len(log) + (e - Len(log)) = e  BY <1>3, <1>7, <3>2
      <4>2. log'[e] = counter + (e - Len(log))  BY <1>6, <1>7, <4>1
      <4>3. counter = Len(log)  BY <2>1 DEF NumberedInv
      <4> QED  BY <1>3, <4>1, <4>2, <4>3
    <3> QED  BY <3>1, <3>2
  <2>2. syncEnds = 0 => counter' = Len(log')  BY <1>7, <1>5 DEF NumberedInv
  <2>3. 1..Len(log) \subseteq 1..Len(log')  BY <1>3, <1>7
  <2>4. syncEnds = 0 => known \subseteq 1..Len(log') /\ syncSeen \in known \cup {0}
    BY <2>3 DEF NumberedInv
  <2> QED  BY <1>2, <2>1, <2>2, <2>4 DEF NumberedInv
<1>10. /\ f.type = "SYNC_RES" /\ f.session = 0 /\ f.chunk = 0
      /\ f.events = [k \in 1..n |-> Len(log) + k] /\ f.next = counter + n
  BY <1>4 DEF Plain
<1>11. (FrameOf(f))'
  <2>1. Len(f.events) = n /\ DOMAIN f.events = 1..n
    <3>1. f.events \in [1..n -> Nat]  BY <1>3, <1>10
    <3> QED  BY <1>3, <3>1, SeqDef
  <2>2. /\ \A i \in 1..n : f.events[i] = Len(log) + i
        /\ \A i \in 1..n : Len(log) + i \in 1..Len(log')
        /\ \A i, j \in 1..n : i < j => Len(log) + i < Len(log) + j
    BY <1>3, <1>7, <1>10
  <2>3. syncEnds = 0 => f.next = f.events[n]
    <3>1. f.events[n] = Len(log) + n  BY <1>3, <2>2
    <3> QED  BY <1>10, <3>1 DEF NumberedInv
  <2>4. syncEnds = 0 => (Dated(f))'
    <3>1. \A i, j \in 1..n : i < j => f.events[i] < f.events[j]  BY <2>2
    <3>2. \A i \in 1..n : f.events[i] \in 1..Len(log')  BY <2>2
    <3>3. n \in 1..n /\ n > 0  BY <1>3
    <3>4. syncEnds = 0 => f.next \in 0..Len(log')  BY <1>3, <1>7, <2>3, <3>2, <3>3
    <3> QED  BY <1>3, <2>1, <2>3, <3>1, <3>2, <3>3, <3>4 DEF Dated
  <2> QED  BY <1>2, <1>10, <2>4 DEF FrameOf
<1>12. /\ Len(log') \in Nat /\ Len(log) <= Len(log') /\ syncEnds \in Nat
       /\ syncEnds' = 0 => SeenGrows
  BY <1>2, <1>3, <1>7, SeenStays DEF FlowTypes
<1>13. \A g \in syncFrames' : (FrameOf(g))'
  <2>1. \A g \in syncFrames : (FrameOf(g))'
    BY <1>2, <1>3, <1>12, FrameStays DEF FlowInv
  <2> QED  BY <1>11, <1>5, <2>1
<1>14. (session # NoSession => SessionOK(session))'
  <2>1. ASSUME session # NoSession PROVE (SessionOK(session))'
    <3> PICK s : s = session  OBVIOUS
    <3>1. SessionOK(s)  BY <2>1 DEF FlowInv
    <3>2. (SessionOK(s))'  BY <1>2, <1>3, <1>12, <3>1, SessionStays
    <3> QED  BY <1>2, <3>2 DEF SessionOK, ChunkOK, Dated
  <2> QED  BY <1>2, <2>1
<1>15. FlowSound'  BY <1>2 DEF FlowSound, FewOvertaken, DroppedHasCause
<1> QED  BY <1>8, <1>9, <1>13, <1>14, <1>15 DEF FlowInv

LEMMA FlowStep == ASSUME FlowInv, [SyncNext]_syncVars PROVE FlowInv'
<1> FlowTypes /\ NumberedInv /\ FlowSound  BY DEF FlowInv
<1>1. Len(log) \in Nat /\ syncEnds \in Nat /\ requests \in Nat  BY DEF FlowTypes
<1>2. CASE Emit  BY <1>2, Emitting
<1>3. CASE \E frame \in syncFrames : HandleReq(frame)  BY <1>3, Answering
<1>4. CASE \E frame \in syncFrames : FlowAck(frame)  BY <1>4, Acknowledged
<1>5. CASE \E frame \in syncFrames : TakeFrame(frame)  BY <1>5, Taking
<1>6. CASE \E k \in InFlight : RetryTimer(k)  BY <1>6, ChunkResent
<1>7. CASE Ask
  <2>0. PICK f : f = [type |-> "SYNC_REQ", since |-> SinceMap, id |-> requests + 1]
    OBVIOUS
  <2>1. /\ requests' = requests + 1 /\ syncFrames' = syncFrames \cup {f}
        /\ UNCHANGED <<log, counter, session, syncSeen, known, emits, syncEnds, dropped,
                       syncHandled>>
    BY <1>7, <2>0 DEF Ask
  <2>2. f.type = "SYNC_REQ" /\ f.id \in Nat \ {0} /\ f.since = syncSeen
    BY <1>1, <2>0 DEF SinceMap
  <2>3. \A g \in syncFrames' : (FrameOf(g))'
    <3>1. syncEnds' = 0 => SeenGrows /\ syncSeen \in 0..Len(log)  BY <2>1, SeenStays
    <3>2. \A g \in syncFrames : (FrameOf(g))'  BY <1>1, <2>1, <3>1, FrameStays DEF FlowInv
    <3>3. (FrameOf(f))'  BY <1>1, <2>1, <2>2, <3>1 DEF FrameOf
    <3> QED  BY <2>1, <3>2, <3>3
  <2>4. FlowTypes' /\ NumberedInv' /\ FlowSound'
    BY <1>1, <2>1 DEF FlowTypes, NumberedInv, FlowSound, FewOvertaken, DroppedHasCause
  <2>5. (session # NoSession => SessionOK(session))'
    BY <2>1 DEF FlowInv, SessionOK, ChunkOK, Dated
  <2> QED  BY <2>3, <2>4, <2>5 DEF FlowInv
<1>8. CASE AuthorEnds \/ ReaderEnds
  <2>1. /\ syncEnds' = syncEnds + 1 /\ counter' \in Nat
        /\ session' = session \/ session' = NoSession
        /\ UNCHANGED <<log, known, syncFrames, emits, requests, dropped, syncHandled>>
    BY <1>8 DEF AuthorEnds, ReaderEnds, FlowTypes
  <2>2. syncEnds' \in Nat /\ syncEnds' # 0 /\ syncEnds <= syncEnds' /\ syncEnds' > 0
    BY <1>1, <2>1
  <2>3. \A f \in syncFrames' : (FrameOf(f))'  BY <1>1, <2>1, <2>2, FrameStays DEF FlowInv
  <2>4. (session # NoSession => SessionOK(session))'
    <3>1. ASSUME session' # NoSession PROVE (SessionOK(session))'
      <4> PICK s : s = session  OBVIOUS
      <4>1. session' = s /\ SessionOK(s)  BY <2>1, <3>1 DEF FlowInv, NoSession
      <4>2. (SessionOK(s))'  BY <1>1, <2>1, <2>2, <4>1, SessionStays
      <4> QED  BY <4>1, <4>2 DEF SessionOK, ChunkOK, Dated
    <3> QED  BY <3>1 DEF NoSession
  <2>5. FlowTypes' /\ NumberedInv'  BY <2>1, <2>2 DEF FlowTypes, NumberedInv
  <2>6. FlowSound'  BY <2>1, <2>2 DEF FlowSound, FewOvertaken, DroppedHasCause
  <2> QED  BY <2>3, <2>4, <2>5, <2>6 DEF FlowInv
<1>9. CASE UNCHANGED syncVars
  <2>1. UNCHANGED <<log, counter, session, syncSeen, known, syncFrames, requests, syncEnds,
                    dropped, syncHandled>>
    BY <1>9 DEF syncVars
  <2>2. \A f \in syncFrames' : (FrameOf(f))'  BY <1>1, <2>1, SeenStays, FrameStays DEF FlowInv
  <2>3. FlowTypes' /\ NumberedInv' /\ FlowSound'
    BY <2>1 DEF FlowTypes, NumberedInv, FlowSound, FewOvertaken, DroppedHasCause
  <2>4. (session # NoSession => SessionOK(session))'
    BY <2>1 DEF FlowInv, SessionOK, ChunkOK, Dated
  <2> QED  BY <2>2, <2>3, <2>4 DEF FlowInv
<1> QED  BY <1>2, <1>3, <1>4, <1>5, <1>6, <1>7, <1>8, <1>9 DEF SyncNext

(***************************************************************************)
(* However frames are lost, late and out of order, and whenever a device   *)
(* ends: of the chunks before one that the reader has handled all but      *)
(* Window - 1 have been handled; and the reader drops an event it does not *)
(* have only if it has a newer one, or a device has ended.                 *)
(***************************************************************************)
THEOREM FlowHolds == SyncSpec => []FlowSound
<1>1. SyncInit => FlowInv  BY FlowStarts
<1>2. FlowInv /\ [SyncNext]_syncVars => FlowInv'  BY FlowStep
<1>3. FlowInv => FlowSound  BY DEF FlowInv
<1> QED  BY <1>1, <1>2, <1>3, PTL DEF SyncSpec

=============================================================================
