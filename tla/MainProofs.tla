------------------------------ MODULE MainProofs ------------------------------
(***************************************************************************)
(* Proofs about the components of the main process: the Tor process, the   *)
(* pool of proxies, the client of the native worker (theorems about their  *)
(* own specifications), and the onion transport's state, background work   *)
(* and updates (about the union of MCMain, where a step of one component   *)
(* leaves the others alone).                                               *)
(***************************************************************************)
EXTENDS MCMain, FiniteSetTheorems, TLAPS

-----------------------------------------------------------------------------
(***************************************************************************)
(* The Tor process (TorManager).                                           *)
(***************************************************************************)

\* While no process was slow to end, the manager knows the one there is, and whose end it
\* waits for.
ProcessInv ==
    /\ live \cup unheard = IF proc = 0 THEN {} ELSE {proc}
    /\ live \cap unheard = {}
    /\ stopping \in {0, proc}
    /\ expectExit => stopping # 0
    /\ starting \in {"find", "prepare", "spawn"} => proc = 0
    /\ (starting = "wait" /\ tor = "starting") \/ tor = "running" => proc # 0

\* A stop that met nothing that could not take notice of it.
StopHolds ==
    asked = "stop" /\ ~crossed =>
        /\ ~waiting
        /\ starting \notin {"find", "restop"}
        /\ starting \in {"prepare", "spawn"} => tor # "starting"
        /\ proc = stopping

TorInv == TorTypeOK /\ (~slow => ProcessInv /\ StopHolds)


TorFlags ==
    /\ expectExit \in BOOLEAN /\ waiting \in BOOLEAN /\ retry \in BOOLEAN
    /\ bridged \in BOOLEAN /\ service \in BOOLEAN /\ crossed \in BOOLEAN
    /\ slow \in BOOLEAN /\ broken \in BOOLEAN

\* Every action leaves Booleans in the flags.
LEMMA FlagTypes == ASSUME TorFlags, [TorNext]_torVars PROVE TorFlags'
<1>1. CASE Start  BY <1>1, Zenon DEF TorFlags, Start, TorCall
<1>2. CASE Stop  BY <1>2, Zenon DEF TorFlags, Stop, Kill
<1>3. CASE EnsureHiddenService  BY <1>3, Zenon DEF TorFlags, EnsureHiddenService, Kill
<1>4. CASE Prepare  BY <1>4, Zenon DEF TorFlags, Prepare, historyVars
<1>5. CASE FindBinary \/ WriteTorrc \/ GiveUpStart \/ Ready
  BY <1>5, Zenon DEF TorFlags, FindBinary, WriteTorrc, GiveUpStart, Ready, historyVars
<1>6. CASE Spawn  BY <1>6, Zenon DEF TorFlags, Spawn
<1>7. CASE NotReady
  <2>1. retry' \in BOOLEAN  BY <1>7 DEF TorFlags, NotReady
  <2> QED  BY <1>7, <2>1, Zenon DEF TorFlags, NotReady, Kill
<1>8. CASE PrepareFails  BY <1>8, Zenon DEF TorFlags, PrepareFails
<1>9. CASE StopGivesUp  BY <1>9, Zenon DEF TorFlags, StopGivesUp, EndStop
<1>10. CASE \E p \in Processes : TorExit(p)
  BY <1>10, Zenon DEF TorFlags, TorExit, EndStop, historyVars
<1>11. CASE \E p \in Processes : Dies(p)  BY <1>11, Zenon DEF TorFlags, Dies, historyVars
<1>12. CASE UNCHANGED torVars  BY <1>12, Zenon DEF TorFlags, torVars
<1> QED
  BY <1>1, <1>2, <1>3, <1>4, <1>5, <1>6, <1>7, <1>8, <1>9, <1>10, <1>11, <1>12
  DEF TorNext, Starting, Ended

\* The end of a stop() leaves no process known and nobody waiting.
LEMMA EndStops ==
    ASSUME TorTypeOK, EndStop
    PROVE  /\ proc' = 0 /\ stopping' = 0 /\ ~waiting'
           /\ starting' \in {"no", "find", "prepare", "spawn", "wait", "restop"}
           /\ tor' \in {"unavailable", "failed"}
           /\ starting' # "restop"
           /\ starting' = starting \/ waiting \/ starting = "restop"
<1>1. starting \in {"no", "find", "prepare", "spawn", "wait", "restop"}  BY DEF TorTypeOK
<1>2. CASE starting = "restop"
  BY <1>1, <1>2 DEF EndStop, StatusAfterStop, SaysStopped
<1>3. CASE starting # "restop"
  <2>1. CASE waiting  BY <1>1, <1>3, <2>1 DEF EndStop, StatusAfterStop, SaysStopped
  <2>2. CASE ~waiting  BY <1>1, <1>3, <2>2 DEF EndStop, StatusAfterStop, SaysStopped
  <2> QED  BY <2>1, <2>2
<1> QED  BY <1>2, <1>3

\* Every action keeps the types.
LEMMA TorTypes == ASSUME TorTypeOK, [TorNext]_torVars PROVE TorTypeOK'
<1> USE TorAssumption DEF TorAssumption, Processes, historyVars
<1>0. TorFlags'  BY FlagTypes DEF TorTypeOK, TorFlags
<1> USE <1>0 DEF TorFlags
<1>1. CASE Start  BY <1>1 DEF TorTypeOK, Start, TorCall, Begun
<1>2. CASE Stop  BY <1>2 DEF TorTypeOK, Stop, TorCall, Kill
<1>3. CASE EnsureHiddenService
  BY <1>3 DEF TorTypeOK, EnsureHiddenService, TorCall, Begun, Kill
<1>4. CASE Prepare  BY <1>4 DEF TorTypeOK, Prepare
<1>5. CASE Starting
  <2>1. CASE FindBinary  BY <2>1 DEF TorTypeOK, FindBinary
  <2>2. CASE WriteTorrc \/ GiveUpStart \/ Ready
    BY <2>2 DEF TorTypeOK, WriteTorrc, GiveUpStart, Ready
  <2>3. CASE Spawn  BY <2>3 DEF TorTypeOK, Spawn
  <2>4. CASE NotReady  BY <2>4 DEF TorTypeOK, NotReady, Kill
  <2> QED  BY <1>5, <2>1, <2>2, <2>3, <2>4 DEF Starting
<1>6. CASE PrepareFails  BY <1>6 DEF TorTypeOK, PrepareFails
<1>7. CASE Ended
  <2>1. CASE StopGivesUp
    <3>1. EndStop  BY <2>1 DEF StopGivesUp
    <3> QED  BY <2>1, <3>1, EndStops DEF TorTypeOK, StopGivesUp
  <2>2. ASSUME NEW p \in Processes, TorExit(p) PROVE TorTypeOK'
    <3>1. CASE stopping = p
      <4>1. EndStop  BY <2>2, <3>1 DEF TorExit
      <4> QED  BY <2>2, <4>1, EndStops DEF TorTypeOK, TorExit
    <3>2. CASE stopping # p
      BY <2>2, <3>2 DEF TorTypeOK, TorExit, SaysFailed
    <3> QED  BY <3>1, <3>2
  <2> QED  BY <1>7, <2>1, <2>2 DEF Ended
<1>8. CASE \E p \in Processes : Dies(p)  BY <1>8 DEF TorTypeOK, Dies
<1>9. CASE UNCHANGED torVars  BY <1>9 DEF TorTypeOK, torVars
<1> QED  BY <1>1, <1>2, <1>3, <1>4, <1>5, <1>6, <1>7, <1>8, <1>9 DEF TorNext

\* Every action keeps who knows the process, and what a stop has stopped.
LEMMA TorStep ==
    ASSUME TorTypeOK, TorTypeOK', ~slow => ProcessInv /\ StopHolds, [TorNext]_torVars, ~slow'
    PROVE  (ProcessInv /\ StopHolds)'
<1> USE TorAssumption DEF TorAssumption, Processes, historyVars, ProcessInv, StopHolds
<1>1. CASE Start
  <2>1. crossed' <=> (crossed \/ (starting # "no" /\ tor # "starting"))
    BY <1>1, Zenon DEF Start
  <2> QED  BY <1>1, <2>1 DEF TorTypeOK, Start, TorCall, Begun
<1>2. CASE Stop
  <2>1. crossed' <=> (crossed \/ starting \in {"find", "restop"} \/ waiting)
    BY <1>2, Zenon DEF Stop
  <2> QED  BY <1>2, <2>1 DEF TorTypeOK, Stop, TorCall, Kill
<1>3. CASE EnsureHiddenService
  <2>1. crossed' <=> (crossed \/ (starting # "no" /\ tor # "starting"))
    BY <1>3, Zenon DEF EnsureHiddenService
  <2> QED  BY <1>3, <2>1 DEF TorTypeOK, EnsureHiddenService, TorCall, Begun, Kill
<1>4. CASE Prepare  BY <1>4 DEF TorTypeOK, Prepare
<1>5. CASE FindBinary  BY <1>5 DEF TorTypeOK, FindBinary
<1>6. CASE WriteTorrc  BY <1>6 DEF TorTypeOK, WriteTorrc
<1>7. CASE Spawn  BY <1>7 DEF TorTypeOK, Spawn, Cancelled
<1>8. CASE GiveUpStart  BY <1>8 DEF TorTypeOK, GiveUpStart, Cancelled
<1>9. CASE Ready  BY <1>9 DEF TorTypeOK, Ready, Cancelled
<1>10. CASE NotReady
  <2>1. crossed' <=> (crossed \/ stopping # 0)  BY <1>10, Zenon DEF NotReady
  <2> QED  BY <1>10, <2>1 DEF TorTypeOK, NotReady, Cancelled, Kill
<1>11. CASE PrepareFails  BY <1>11 DEF TorTypeOK, PrepareFails
<1>12. CASE StopGivesUp  BY <1>12 DEF StopGivesUp
<1>13. CASE \E p \in Processes : TorExit(p)
  <2> SUFFICES ASSUME NEW p \in Processes, TorExit(p) PROVE (ProcessInv /\ StopHolds)'
    BY <1>13
  <2>1. proc = p /\ live = {} /\ unheard = {p}  BY DEF TorTypeOK, TorExit
  <2>2. CASE stopping = p
    <3>1. EndStop  BY <2>2 DEF TorExit
    <3> QED  BY <2>1, <2>2, <3>1, EndStops DEF TorTypeOK, TorExit
  <2>3. CASE stopping # p
    BY <2>1, <2>3 DEF TorTypeOK, TorExit, SaysFailed
  <2> QED  BY <2>2, <2>3
<1>14. CASE \E p \in Processes : Dies(p)  BY <1>14 DEF TorTypeOK, Dies
<1>15. CASE UNCHANGED torVars  BY <1>15 DEF TorTypeOK, torVars
<1> QED
  BY <1>1, <1>2, <1>3, <1>4, <1>5, <1>6, <1>7, <1>8, <1>9, <1>10, <1>11, <1>12, <1>13, <1>14,
     <1>15 DEF TorNext, Starting, Ended

\* Whatever starts, stops and late exits overlap, at most one Tor process runs unless one
\* outlived the time that stop() gives it, a status "running" has its process, and a stop
\* that every start could take notice of is not undone.
THEOREM OneTorAtMost == TorSpec => []TorSound
<1>1. TorInit => TorInv
  <2> SUFFICES ASSUME TorInit PROVE TorInv  OBVIOUS
  <2>1. TorFlags  BY Zenon DEF TorInit, TorFlags
  <2> QED
    BY <2>1, TorAssumption DEF TorAssumption, TorInit, TorInv, TorFlags, TorTypeOK, ProcessInv,
       StopHolds
<1>2. TorInv /\ [TorNext]_torVars => TorInv'
  BY TorTypes, TorStep DEF TorInv
<1>3. TorInv => TorSound
  <2> SUFFICES ASSUME TorInv, ~slow PROVE OneTor /\ RunningHasProcess /\ LastStopWins
    BY DEF TorInv, TorSound, OneTor, RunningHasProcess, LastStopWins
  <2>1. live \subseteq {proc}  BY DEF TorInv, ProcessInv
  <2>2. OneTor
    <3>1. Cardinality(live) \in Nat /\ Cardinality(live) <= Cardinality({proc})
      BY <2>1, FS_Singleton, FS_Subset, FS_CardinalityType
    <3> QED  BY <3>1, FS_Singleton DEF OneTor
  <2>3. RunningHasProcess  BY DEF TorInv, ProcessInv, RunningHasProcess
  <2>4. LastStopWins  BY DEF TorInv, ProcessInv, StopHolds, LastStopWins
  <2> QED  BY <2>2, <2>3, <2>4
<1> QED  BY <1>1, <1>2, <1>3, PTL DEF TorSpec

-----------------------------------------------------------------------------
(***************************************************************************)
(* The pool of proxies (ProxyPool).                                        *)
(***************************************************************************)

\* A call that has not been overtaken carries the newest list.
NewestInv ==
    ~overlapped /\ ~clearFailed =>
        \/ calls = {} /\ Members(pool) = Members(latest)
        \/ \E call \in calls : calls = {call} /\ call.list = latest

PoolInv == PoolTypeOK /\ Members(pool) = Members(stored) /\ NewestInv


\* The cached success and what happened before are Booleans.
PoolFlags == warm \in BOOLEAN /\ overlapped \in BOOLEAN /\ clearFailed \in BOOLEAN

\* A list is a sequence of two proxies at most.
LEMMA ListFacts ==
    ASSUME NEW list \in Lists
    PROVE  /\ list \in Seq(Proxies) /\ Len(list) \in 0..2 /\ DOMAIN list = 1..Len(list)
           /\ list \in [1..Len(list) -> Proxies]
           /\ Members(list) \subseteq Proxies
           /\ Len(list) = 2 => list[1] # list[2]
<1>1. PICK n \in 0..2 : list \in [1..n -> Proxies]  BY DEF Lists
<1>2. list \in Seq(Proxies) /\ Len(list) = n /\ DOMAIN list = 1..n  BY <1>1
<1>3. Len(list) = 2 => list[1] # list[2]  BY DEF Lists
<1>4. Members(list) \subseteq Proxies  BY <1>1 DEF Members
<1> QED  BY <1>1, <1>2, <1>3, <1>4

\* Its members are listed one by one.
LEMMA MembersOf ==
    ASSUME NEW list \in Lists
    PROVE  /\ Len(list) = 0 => Members(list) = {}
           /\ Len(list) = 1 => Members(list) = {list[1]}
           /\ Len(list) = 2 => Members(list) = {list[1], list[2]}
<1>1. DOMAIN list = 1..Len(list)  BY ListFacts
<1>2. 1..0 = {} /\ 1..1 = {1} /\ 1..2 = {1, 2}  OBVIOUS
<1> QED  BY <1>1, <1>2 DEF Members

\* The proxy that answered goes first, and no proxy comes or goes.
LEMMA FirstKeeps ==
    ASSUME PoolTypeOK, NEW winner \in Proxies
    PROVE  /\ First(winner) \in Lists
           /\ Members(First(winner)) = Members(pool)
<1> DEFINE n == Len(pool)
           first == First(winner)
<1>1. /\ pool \in Lists /\ n \in 0..2 /\ DOMAIN pool = 1..n /\ pool \in [1..n -> Proxies]
      /\ n = 2 => pool[1] # pool[2]
  BY ListFacts DEF PoolTypeOK
<1>2. CASE winner \notin Members(pool)  BY <1>1, <1>2 DEF First
<1>3. CASE winner \in Members(pool)
  <2>1. Place(winner) \in 1..n /\ pool[Place(winner)] = winner
    BY <1>1, <1>3 DEF Members, Place
  <2>2. first = [i \in 1..n |-> CASE i = 1 -> winner
                                  [] i > 1 /\ i <= Place(winner) -> pool[i - 1]
                                  [] OTHER -> pool[i]]
    BY <1>1, <1>3 DEF First
  <2>3. n \in {1, 2}  BY <1>1, <2>1
  <2>4. CASE n = 1
    <3>1. first = [i \in 1..1 |-> winner]  BY <2>2, <2>4
    <3>2. first = pool  BY <1>1, <2>1, <2>4, <3>1
    <3> QED  BY <1>1, <3>2
  <2>5. CASE n = 2
    <3>1. first \in [1..2 -> Proxies] /\ first[1] = winner
          /\ first[2] = IF Place(winner) = 1 THEN pool[2] ELSE pool[1]
      <4>1. \A i \in 1..2 : (IF i = 1 THEN winner ELSE IF i <= Place(winner) THEN pool[i - 1]
                                                        ELSE pool[i]) \in Proxies
        BY <1>1, <2>1, <2>5
      <4>2. first = [i \in 1..2 |-> IF i = 1 THEN winner
                                    ELSE IF i <= Place(winner) THEN pool[i - 1] ELSE pool[i]]
        BY <2>2, <2>5
      <4> HIDE DEF first
      <4> QED  BY <1>1, <2>1, <2>5, <4>1, <4>2
    <3>2. Len(first) = 2 /\ first[1] # first[2]  BY <1>1, <2>1, <2>5, <3>1
    <3>3. first \in Lists  BY <3>1, <3>2 DEF Lists
    <3>4. Members(first) = {first[1], first[2]} /\ Members(pool) = {pool[1], pool[2]}
      BY <1>1, <2>5, <3>2, <3>3, MembersOf
    <3>5. {first[1], first[2]} = {pool[1], pool[2]}  BY <2>1, <2>5, <3>1
    <3> QED  BY <3>3, <3>4, <3>5
  <2> QED  BY <2>3, <2>4, <2>5
<1> QED  BY <1>2, <1>3

\* Every action leaves Booleans in the flags.
LEMMA PoolFlagTypes == ASSUME PoolFlags, [PoolNext]_poolVars PROVE PoolFlags'
<1>1. CASE \E list \in Lists : Report(list)
  BY <1>1, Zenon DEF PoolFlags, Report, ForgetProbes
<1>2. CASE Clearing  BY <1>2, Zenon DEF PoolFlags, Clearing, Cleared, ClearFails
<1>3. CASE SelectTorProxy \/ Prewarm \/ CacheExpires
  BY <1>3, Zenon DEF PoolFlags, SelectTorProxy, Prewarm, CacheExpires
<1>4. CASE \E probe \in probes :
               ProbeFails(probe) \/ \E winner \in Proxies : ProbeWins(probe, winner)
  BY <1>4, Zenon DEF PoolFlags, ProbeFails, ProbeWins
<1>5. CASE UNCHANGED poolVars  BY <1>5, Zenon DEF PoolFlags, poolVars
<1> QED  BY <1>1, <1>2, <1>3, <1>4, <1>5 DEF PoolNext

\* Every action keeps the pool, its index and the calls and probes that wait.
LEMMA PoolStep == ASSUME PoolInv, [PoolNext]_poolVars PROVE PoolInv'
<1> USE PoolAssumption DEF PoolAssumption, PoolInv
<1>0. PoolFlags'  BY PoolFlagTypes DEF PoolTypeOK, PoolFlags
<1> USE <1>0 DEF PoolFlags
<1>1. ASSUME NEW list \in Lists, Report(list) PROVE PoolInv'
  <2>1. Members(list) \subseteq Proxies /\ Members(pool) \subseteq Proxies
    BY ListFacts DEF PoolTypeOK
  <2>2. overlapped' <=> (overlapped \/ calls # {})  BY <1>1, Zenon DEF Report
  <2>3. probes' \subseteq Probe
    <3>1. \A p \in probes : [p EXCEPT !.known = FALSE] \in Probe  BY DEF PoolTypeOK, Probe
    <3>2. probes' = {[p EXCEPT !.known = FALSE] : p \in probes} \/ probes' = probes
      BY <1>1 DEF Report, ForgetProbes
    <3> QED  BY <3>1, <3>2 DEF PoolTypeOK
  <2>4. CASE Members(pool) \ Members(list) = {}
    <3>1. pool' = list /\ stored' = list /\ nextProxy' = 0 /\ calls' = calls /\ latest' = list
      BY <1>1, <2>4 DEF Report, NothingToClear, Store
    <3>2. PoolTypeOK'  BY <1>1, <2>3, <3>1 DEF PoolTypeOK, Report
    <3>3. NewestInv'  BY <1>1, <2>2, <3>1 DEF NewestInv, Members, Report
    <3> QED  BY <3>1, <3>2, <3>3 DEF Members
  <2>5. CASE Members(pool) \ Members(list) # {}
    <3> DEFINE call == [rank |-> reports, list |-> list, drop |-> Members(pool) \ Members(list)]
    <3>1. calls' = calls \cup {call} /\ UNCHANGED <<pool, nextProxy, stored>> /\ latest' = list
      BY <1>1, <2>5 DEF Report
    <3>2. call \in PoolCall /\ call.list = list  BY <2>1 DEF PoolTypeOK, PoolCall
    <3> HIDE DEF call
    <3>3. PoolTypeOK'  BY <1>1, <2>3, <3>1, <3>2 DEF PoolTypeOK, Report
    <3>4. NewestInv'
      <4> SUFFICES ASSUME ~overlapped', ~clearFailed' PROVE calls' = {call} /\ call.list = latest'
        BY DEF NewestInv
      <4> QED  BY <2>2, <3>1, <3>2
    <3> QED  BY <3>1, <3>3, <3>4 DEF Members
  <2> QED  BY <2>4, <2>5
<1>2. ASSUME NEW call \in calls, NEW url \in Proxies, Cleared(call, url) PROVE PoolInv'
  <2>1. call \in PoolCall  BY DEF PoolTypeOK
  <2>2. ~overlapped /\ ~clearFailed => calls = {call} /\ call.list = latest  BY DEF NewestInv
  <2>3. CASE call.drop = {url}
    <3>1. pool' = call.list /\ stored' = call.list /\ nextProxy' = 0 /\ calls' = calls \ {call}
      BY <1>2, <2>3 DEF Cleared, Store
    <3>2. PoolTypeOK'  BY <1>2, <2>1, <3>1 DEF PoolTypeOK, PoolCall, Cleared
    <3>3. NewestInv'  BY <1>2, <2>2, <3>1 DEF NewestInv, Members, Cleared
    <3> QED  BY <3>1, <3>2, <3>3 DEF Members
  <2>4. CASE call.drop # {url}
    <3> DEFINE rest == [call EXCEPT !.drop = @ \ {url}]
    <3>1. calls' = (calls \ {call}) \cup {rest} /\ UNCHANGED <<pool, nextProxy, stored>>
      BY <1>2, <2>4 DEF Cleared
    <3>2. rest \in PoolCall /\ rest.list = call.list  BY <2>1 DEF PoolCall
    <3> HIDE DEF rest
    <3>3. PoolTypeOK'  BY <1>2, <3>1, <3>2 DEF PoolTypeOK, Cleared
    <3>4. NewestInv'
      <4> SUFFICES ASSUME ~overlapped', ~clearFailed' PROVE calls' = {rest} /\ rest.list = latest'
        BY DEF NewestInv
      <4> QED  BY <1>2, <2>2, <3>1, <3>2 DEF Cleared
    <3> QED  BY <3>1, <3>3, <3>4 DEF Members
  <2> QED  BY <2>3, <2>4
<1>3. ASSUME NEW call \in calls, ClearFails(call) PROVE PoolInv'
  BY <1>3 DEF ClearFails, PoolTypeOK, Members, NewestInv
<1>4. CASE SelectTorProxy
  <2>1. pool \in Lists /\ Len(pool) \in {1, 2}
    <3>1. pool \in Seq(Proxies) /\ Len(pool) \in 0..2  BY ListFacts DEF PoolTypeOK
    <3> QED  BY <1>4, <3>1 DEF SelectTorProxy, PoolTypeOK
  <2>2. nextProxy' = 0 \/ nextProxy' \in 1..(Len(pool) - 1)
    BY <1>4, <2>1 DEF SelectTorProxy, PoolTypeOK
  <2> QED  BY <1>4, <2>2 DEF SelectTorProxy, PoolTypeOK, Members, NewestInv
<1>5. CASE Prewarm
  <2>1. Members(pool) \subseteq Proxies  BY ListFacts DEF PoolTypeOK
  <2>2. [over |-> Members(pool), known |-> TRUE] \in Probe  BY <2>1 DEF Probe
  <2>3. PoolTypeOK'
    <3>1. probes' = probes \cup {[over |-> Members(pool), known |-> TRUE]}  BY <1>5 DEF Prewarm
    <3>2. probes' \subseteq Probe  BY <2>2, <3>1 DEF PoolTypeOK
    <3>3. probed' \in 0..MaxProbes  BY <1>5 DEF Prewarm, PoolTypeOK
    <3>4. UNCHANGED <<pool, nextProxy, stored, latest, calls, reports>>  BY <1>5 DEF Prewarm
    <3> QED  BY <3>2, <3>3, <3>4 DEF PoolTypeOK
  <2>4. UNCHANGED <<pool, stored, latest, calls, overlapped, clearFailed>>  BY <1>5 DEF Prewarm
  <2> QED  BY <2>3, <2>4 DEF Members, NewestInv
<1>6. CASE CacheExpires  BY <1>6 DEF CacheExpires, PoolTypeOK, Members, NewestInv
<1>7. ASSUME NEW probe \in probes, ProbeFails(probe) PROVE PoolInv'
  BY <1>7 DEF ProbeFails, PoolTypeOK, Members, NewestInv
<1>8. ASSUME NEW probe \in probes, NEW winner \in Proxies, ProbeWins(probe, winner)
      PROVE  PoolInv'
  <2>1. pool' \in Lists /\ Members(pool') = Members(pool)  BY <1>8, FirstKeeps DEF ProbeWins
  <2>2. PoolTypeOK'  BY <1>8, <2>1 DEF ProbeWins, PoolTypeOK
  <2>3. stored' = stored /\ latest' = latest /\ calls' = calls /\ nextProxy' = 0
        /\ overlapped' = overlapped /\ clearFailed' = clearFailed
    BY <1>8 DEF ProbeWins
  <2>4. Members(stored)' = Members(stored) /\ Members(latest)' = Members(latest)
        /\ Members(pool)' = Members(pool)
    BY <2>1, <2>3 DEF Members
  <2> QED  BY <2>2, <2>3, <2>4 DEF NewestInv
<1>9. CASE UNCHANGED poolVars  BY <1>9 DEF poolVars, PoolTypeOK, Members, NewestInv
<1> QED
  BY <1>1, <1>2, <1>3, <1>4, <1>5, <1>6, <1>7, <1>8, <1>9 DEF PoolNext, Clearing

\* Whatever reports, failing or late, and probes overlap, a request goes out through a proxy
\* of the list stored last, and that list is the newest report unless a call was overtaken
\* or the worker could not clear a proxy.
THEOREM PoolIsTheNewest == PoolSpec => []PoolSound
<1>1. PoolInit => PoolInv
  <2> SUFFICES ASSUME PoolInit PROVE PoolInv  OBVIOUS
  <2>1. PoolFlags  BY Zenon DEF PoolInit, PoolFlags
  <2>2. <<>> \in Lists
    <3>1. <<>> \in [1..0 -> Proxies] /\ Len(<<>>) = 0  OBVIOUS
    <3> QED  BY <3>1 DEF Lists
  <2> QED
    BY <2>1, <2>2, PoolAssumption DEF PoolAssumption, PoolInit, PoolInv, PoolFlags, PoolTypeOK,
       NewestInv
<1>2. PoolInv /\ [PoolNext]_poolVars => PoolInv'  BY PoolStep
<1>3. PoolInv => PoolSound
  <2> SUFFICES ASSUME PoolInv PROVE Selected \subseteq Members(pool) /\ PoolFollowsReports
    BY DEF PoolInv, PoolSound, OnlyStoredProxies
  <2>1. PoolFollowsReports  BY DEF PoolInv, NewestInv, PoolFollowsReports
  <2>2. pool \in Seq(Proxies) /\ Len(pool) \in 0..2 /\ DOMAIN pool = 1..Len(pool)
    BY ListFacts DEF PoolInv, PoolTypeOK
  <2>3. Selected \subseteq Members(pool)
    <3>1. CASE pool = <<>>  BY <3>1 DEF Selected
    <3>2. CASE pool # <<>>
      <4>1. Len(pool) \in {1, 2}  BY <2>2, <3>2
      <4>2. (nextProxy % Len(pool)) + 1 \in 1..Len(pool)
        <5>1. nextProxy = 0 \/ nextProxy \in 1..(Len(pool) - 1)  BY DEF PoolInv, PoolTypeOK
        <5>2. CASE Len(pool) = 1
          <6>1. nextProxy = 0  BY <5>1, <5>2
          <6> QED  BY <5>2, <6>1
        <5>3. CASE Len(pool) = 2
          <6>1. nextProxy \in {0, 1}  BY <5>1, <5>3
          <6> QED  BY <5>3, <6>1
        <5> QED  BY <4>1, <5>2, <5>3
      <4> QED  BY <2>2, <3>2, <4>2 DEF Selected, Members
    <3> QED  BY <3>1, <3>2
  <2> QED  BY <2>1, <2>3
<1> QED  BY <1>1, <1>2, <1>3, PTL DEF PoolSpec

-----------------------------------------------------------------------------
-----------------------------------------------------------------------------
(***************************************************************************)
(* The worker's client (WorkerClient).                                     *)
(***************************************************************************)
Flushes == Pending \cap OfKind({"flush"})

\* The flag stands for one flush.
FlushInv ==
    /\ IF running THEN \E i \in Flushes : Flushes = {i} ELSE Flushes = {}
    /\ timer = "flushing" => running

\* Frames are read in the order in which they were written, and the reader holds one.
PipeInv ==
    /\ \A i \in At("pipe"), j \in Asked : j \notin At("pipe") => j < i
    /\ \A i, j \in At("held") : i = j
    /\ \A i \in At("held") : IsQueue(i)

Opened == \E j \in OfKind({"init"}) : requests[j].promise = "resolved"

OpenInv ==
    /\ OpenedFirst
    /\ startup = "ready" \/ timer # "off" => Opened

\* A client without a process has lost it, or is stopping it.
ProcInv ==
    /\ startup = "none" => quit = "no" /\ child = "none" /\ ~attached /\ requests = <<>>
    /\ startup # "none" => child # "none"
    /\ startup # "none" /\ ~attached => child = "dead" \/ quit = "stopping"

ClientInv == WorkerTypeOK /\ FlushInv /\ PipeInv /\ QueueInOrder /\ OpenInv /\ ProcInv


WorkerFlags == attached \in BOOLEAN /\ running \in BOOLEAN

\* What a step may do to the requests there are: their kinds stay, and a promise that was
\* settled stays settled.
Kept ==
    /\ requests' \in Seq(Request) /\ Len(requests) <= Len(requests')
    /\ \A i \in Asked : /\ requests'[i].kind = requests[i].kind
                        /\ requests[i].promise # "pending" =>
                               requests'[i].promise = requests[i].promise

\* A request is asked for at the end of the pipe.
LEMMA AskFacts ==
    ASSUME WorkerTypeOK, NEW kind \in RequestKinds, requests' = Append(requests, New(kind))
    PROVE  /\ Kept
           /\ Len(requests') = Len(requests) + 1
           /\ \A i \in Asked : requests'[i] = requests[i]
           /\ requests'[Len(requests) + 1] = New(kind)
<1>1. New(kind) \in Request  BY DEF New, Request, AtWorker
<1>2. requests \in Seq(Request)  BY DEF WorkerTypeOK
<1>3. requests' \in Seq(Request) /\ Len(requests') = Len(requests) + 1
  BY <1>1, <1>2
<1>4. \A i \in 1..Len(requests) : requests'[i] = requests[i]  BY <1>1, <1>2
<1>5. requests'[Len(requests) + 1] = New(kind)  BY <1>1, <1>2
<1>6. Asked = 1..Len(requests)  BY <1>2 DEF Asked
<1> QED  BY <1>3, <1>4, <1>5, <1>6, <1>2 DEF Kept

\* A request that moves keeps its kind and its promise.
LEMMA PutFacts ==
    ASSUME WorkerTypeOK, NEW i \in Asked, NEW place \in AtWorker \cup {"answered", "gone"},
           requests' = Put(i, place)
    PROVE  /\ Kept
           /\ Len(requests') = Len(requests)
           /\ \A j \in Asked : /\ requests'[j].promise = requests[j].promise
                               /\ requests'[j].at = IF j = i THEN place ELSE requests[j].at
<1>1. requests \in Seq(Request)  BY DEF WorkerTypeOK
<1>2. Asked = 1..Len(requests) /\ requests \in [1..Len(requests) -> Request]
  BY <1>1 DEF Asked
<1>3. requests' = [j \in Asked |-> IF j = i THEN [requests[i] EXCEPT !.at = place]
                                            ELSE requests[j]]
  BY <1>2 DEF Put
<1>4. [requests[i] EXCEPT !.at = place] \in Request
      /\ [requests[i] EXCEPT !.at = place].kind = requests[i].kind
      /\ [requests[i] EXCEPT !.at = place].promise = requests[i].promise
      /\ [requests[i] EXCEPT !.at = place].at = place
  BY <1>2 DEF Request
<1>5. requests' \in [1..Len(requests) -> Request]  BY <1>2, <1>3, <1>4
<1>6. requests' \in Seq(Request) /\ Len(requests') = Len(requests)  BY <1>1, <1>5
<1> QED  BY <1>2, <1>3, <1>4, <1>6 DEF Kept

\* The worker dies with what it has; the answers it has written stay.
LEMMA DieFacts ==
    ASSUME WorkerTypeOK, Die
    PROVE  /\ Kept
           /\ Len(requests') = Len(requests)
           /\ \A j \in Asked : /\ requests'[j].promise = requests[j].promise
                               /\ requests'[j].at = IF requests[j].at \in AtWorker THEN "gone"
                                                    ELSE requests[j].at
<1>1. requests \in Seq(Request)  BY DEF WorkerTypeOK
<1>2. Asked = 1..Len(requests) /\ requests \in [1..Len(requests) -> Request]
  BY <1>1 DEF Asked
<1> DEFINE Dead(j) == [requests[j] EXCEPT !.at = IF Lost(@) THEN "gone" ELSE @]
<1>3. \A j \in Asked : /\ Dead(j) \in Request /\ Dead(j).kind = requests[j].kind
                       /\ Dead(j).promise = requests[j].promise
                       /\ Dead(j).at = IF requests[j].at \in AtWorker THEN "gone"
                                       ELSE requests[j].at
  BY <1>2 DEF Request, Lost
<1>4. requests' = [j \in Asked |-> Dead(j)]  BY DEF Die
<1> HIDE DEF Dead
<1>5. requests' \in [1..Len(requests) -> Request]  BY <1>2, <1>3, <1>4
<1>6. requests' \in Seq(Request) /\ Len(requests') = Len(requests)  BY <1>1, <1>5
<1> QED  BY <1>2, <1>3, <1>4, <1>6 DEF Kept

\* The requests after an answer has come in, or as they are.
Moved(moved) ==
    /\ moved \in Seq(Request) /\ Len(moved) = Len(requests)
    /\ \A i \in Asked : /\ moved[i].kind = requests[i].kind
                        /\ moved[i].promise = requests[i].promise
                        /\ \/ moved[i].at = requests[i].at
                           \/ requests[i].at = "answered" /\ moved[i].at = "gone"

\* What settling promises does to the requests.
Settled(ids, outcome) ==
    /\ Kept
    /\ \A i \in Asked : requests'[i].promise = IF i \in ids THEN outcome
                                                ELSE requests[i].promise
    /\ Len(requests') \in {Len(requests), Len(requests) + 1}
    /\ Len(requests') > Len(requests) => requests'[Len(requests')] = New("init")

\* Promises are settled, and after the answer to health the start asks for the queue.
LEMMA SettleFacts ==
    ASSUME WorkerTypeOK, NEW ids, ids \subseteq Pending,
           NEW outcome \in {"resolved", "rejected"},
           NEW moved, Moved(moved), Settle(ids, outcome, moved)
    PROVE  /\ Settled(ids, outcome)
           /\ \A i \in Asked : requests'[i].at = moved[i].at
<1>1. requests \in Seq(Request)  BY DEF WorkerTypeOK
<1>2. Asked = 1..Len(requests) /\ requests \in [1..Len(requests) -> Request]
      /\ moved \in [1..Len(requests) -> Request]
  BY <1>1 DEF Asked, Moved
<1> DEFINE To(i) == [moved[i] EXCEPT !.promise = IF i \in ids THEN outcome ELSE @]
           settled == [i \in Asked |-> To(i)]
<1>3. \A i \in Asked : /\ To(i) \in Request /\ To(i).kind = requests[i].kind
                       /\ To(i).at = moved[i].at
                       /\ To(i).promise = IF i \in ids THEN outcome ELSE requests[i].promise
  BY <1>2 DEF Request, Moved
<1>4. requests' = settled \/ requests' = Append(settled, New("init"))
  BY DEF Settle
<1> HIDE DEF To
<1>5. settled \in Seq(Request) /\ Len(settled) = Len(requests)
      /\ \A i \in Asked : settled[i] = To(i)
  BY <1>1, <1>2, <1>3
<1> HIDE DEF settled
<1>6. New("init") \in Request  BY DEF New, Request, AtWorker, RequestKinds, QueueKinds
<1>7. \A i \in Asked : i \in ids => requests[i].promise = "pending"  BY DEF Pending
<1>8. CASE requests' = settled
  BY <1>1, <1>2, <1>3, <1>5, <1>7, <1>8 DEF Kept, Settled
<1>9. CASE requests' = Append(settled, New("init"))
  <2>1. requests' \in Seq(Request) /\ Len(requests') = Len(requests) + 1
        /\ requests'[Len(requests) + 1] = New("init")
    BY <1>5, <1>6, <1>9
  <2>2. \A i \in Asked : requests'[i] = To(i)  BY <1>2, <1>5, <1>6, <1>9
  <2> QED  BY <1>1, <1>2, <1>3, <1>7, <2>1, <2>2 DEF Kept, Settled
<1> QED  BY <1>4, <1>8, <1>9

\* Requests leave the pipe from its front, or all of it is lost: their order stays.
LEMMA Places ==
    ASSUME WorkerTypeOK, Kept, PipeInv, QueueInOrder,
           \A i \in Asked : \/ requests'[i].at = requests[i].at
                            \/ requests'[i].at \in {"answered", "gone"},
           \/ \A i \in Asked : requests[i].at = "pipe" => requests'[i].at = "pipe"
           \/ \A i \in Asked' : requests'[i].at # "pipe",
           \A i \in Asked' : i \notin Asked => requests'[i].at = "pipe"
    PROVE  PipeInv' /\ QueueInOrder'
<1>1. Asked = 1..Len(requests) /\ Asked' = 1..Len(requests') /\ Asked \subseteq Asked'
      /\ Len(requests) \in Nat /\ Len(requests') \in Nat
  BY DEF WorkerTypeOK, Asked, Kept
<1>2. \A i \in Asked' : i \notin Asked => \A j \in Asked : j < i  BY <1>1
<1>3. \A i \in Asked : requests'[i].kind = requests[i].kind  BY DEF Kept
<1>4. \A i \in Asked' : requests'[i].at \notin {"pipe", "answered", "gone"} =>
                            i \in Asked /\ requests[i].at = requests'[i].at
  OBVIOUS
<1>5. \A i, j \in Asked : requests[i].at = "pipe" /\ requests[j].at # "pipe" => j < i
  BY DEF PipeInv, At
<1>6. ASSUME NEW i \in Asked', requests'[i].at = "pipe", NEW j \in Asked', requests'[j].at # "pipe"
      PROVE  j < i
  <2>1. j \in Asked /\ requests[j].at # "pipe"  BY <1>6
  <2>2. CASE i \notin Asked  BY <1>2, <2>1, <2>2
  <2>3. CASE i \in Asked
    <3>1. requests[i].at = "pipe"  BY <1>6, <2>3
    <3> QED  BY <1>5, <2>1, <2>3, <3>1
  <2> QED  BY <2>2, <2>3
<1>7. PipeInv'
  <2>1. \A i, j \in Asked : requests[i].at = "held" /\ requests[j].at = "held" => i = j
    BY DEF PipeInv, At
  <2>2. \A i \in Asked : requests[i].at = "held" => requests[i].kind \in QueueKinds
    BY DEF PipeInv, At, IsQueue
  <2>3. \A i, j \in Asked' : requests'[i].at = "held" /\ requests'[j].at = "held" => i = j
    BY <1>4, <2>1
  <2>4. \A i \in Asked' : requests'[i].at = "held" => requests'[i].kind \in QueueKinds
    BY <1>3, <1>4, <2>2
  <2> QED  BY <1>6, <2>3, <2>4 DEF PipeInv, At, IsQueue
<1>8. QueueInOrder'
  <2> SUFFICES ASSUME NEW i \in Asked', requests'[i].at = "served",
                      requests'[i].kind \in QueueKinds,
                      NEW j \in Asked', requests'[j].kind \in QueueKinds, j < i
               PROVE  requests'[j].at \in {"answered", "gone"}
    BY DEF QueueInOrder, At, OfKind
  <2>1. i \in Asked /\ requests[i].at = "served" /\ requests[i].kind \in QueueKinds
    BY <1>3, <1>4
  <2>2. j \in Asked  BY <1>1, <2>1
  <2>3. requests[j].at \in {"answered", "gone"}
    BY <1>3, <2>1, <2>2 DEF QueueInOrder, At, OfKind
  <2> QED  BY <2>2, <2>3
<1> QED  BY <1>7, <1>8

\* Where no promise is settled and nothing is asked, as many flushes are awaited, and the
\* queue is as open as before.
LEMMA SamePromises ==
    ASSUME WorkerTypeOK, Kept, Len(requests') = Len(requests),
           \A i \in Asked : requests'[i].promise = requests[i].promise
    PROVE  Asked' = Asked /\ Pending' = Pending /\ Flushes' = Flushes /\ Opened' = Opened
           /\ OpenedFirst' = OpenedFirst
<1>1. Asked' = Asked  BY DEF WorkerTypeOK, Asked, Kept
<1>2. Pending' = Pending  BY <1>1 DEF Pending
<1>3. Flushes' = Flushes
  <2>1. OfKind({"flush"})' = OfKind({"flush"})  BY <1>1 DEF OfKind, Kept
  <2> QED  BY <1>2, <2>1 DEF Flushes
<1>4. OfKind({"init"})' = OfKind({"init"})
      /\ OfKind({"flush", "enqueue"})' = OfKind({"flush", "enqueue"})
  BY <1>1 DEF OfKind, Kept
<1>5. \A j \in OfKind({"init"}) : requests'[j].promise = requests[j].promise  BY DEF OfKind
<1>6. Opened' = Opened  BY <1>4, <1>5 DEF Opened
<1>7. OpenedFirst' = OpenedFirst  BY <1>4, <1>5 DEF OpenedFirst
<1> QED  BY <1>1, <1>2, <1>3, <1>6, <1>7

\* A request that is asked for is awaited, and the others as before.
LEMMA AskedIsPending ==
    ASSUME WorkerTypeOK, NEW kind \in RequestKinds, requests' = Append(requests, New(kind))
    PROVE  /\ Flushes' = IF kind = "flush" THEN Flushes \cup {Len(requests) + 1} ELSE Flushes
           /\ Opened => Opened'
           /\ OpenedFirst /\ (kind \in {"flush", "enqueue"} => Opened) => OpenedFirst'
<1>1. Asked = 1..Len(requests) /\ Asked' = 1..Len(requests') /\ Len(requests) \in Nat
      /\ Len(requests') = Len(requests) + 1
      /\ (\A i \in Asked : requests'[i] = requests[i])
      /\ requests'[Len(requests) + 1] = New(kind)
  BY AskFacts DEF WorkerTypeOK, Asked, Kept
<1> DEFINE n == Len(requests) + 1
<1>2. Asked' = Asked \cup {n} /\ \A j \in Asked : j < n  BY <1>1
<1>3. requests'[n].kind = kind /\ requests'[n].promise = "pending"  BY <1>1 DEF New
<1> HIDE DEF n
<1>4. Flushes' = IF kind = "flush" THEN Flushes \cup {n} ELSE Flushes
  BY <1>1, <1>2, <1>3 DEF Flushes, Pending, OfKind
<1>5. Opened => Opened'  BY <1>1, <1>2 DEF Opened, OfKind
<1>6. ASSUME OpenedFirst, kind \in {"flush", "enqueue"} => Opened PROVE OpenedFirst'
  <2> SUFFICES ASSUME NEW i \in Asked', requests'[i].kind \in {"flush", "enqueue"}
               PROVE  \E j \in Asked' : requests'[j].kind = "init" /\ j < i
                                        /\ requests'[j].promise = "resolved"
    BY DEF OpenedFirst, OfKind
  <2>1. CASE i = n
    <3>1. PICK j \in Asked : requests[j].kind = "init" /\ requests[j].promise = "resolved"
      BY <1>3, <1>6, <2>1 DEF Opened, OfKind
    <3> QED  BY <1>1, <1>2, <2>1, <3>1
  <2>2. CASE i \in Asked
    <3>1. PICK j \in Asked : requests[j].kind = "init" /\ j < i
                             /\ requests[j].promise = "resolved"
      BY <1>1, <1>6, <2>2 DEF OpenedFirst, OfKind
    <3> QED  BY <1>1, <1>2, <3>1
  <2> QED  BY <1>2, <2>1, <2>2
<1> QED  BY <1>4, <1>5, <1>6 DEF n

\* Settled promises are no longer awaited, and a queue that was opened stays so.
LEMMA SettledPromises ==
    ASSUME WorkerTypeOK, NEW ids, ids \subseteq Pending,
           NEW outcome \in {"resolved", "rejected"}, Settled(ids, outcome)
    PROVE  /\ Flushes' = Flushes \ ids
           /\ Opened => Opened'
           /\ outcome = "resolved" /\ Opens(ids) => Opened'
           /\ OpenedFirst => OpenedFirst'
<1>1. Asked = 1..Len(requests) /\ Asked' = 1..Len(requests') /\ Len(requests) \in Nat
      /\ Asked \subseteq Asked'
  BY DEF WorkerTypeOK, Asked, Kept, Settled
<1>2. \A i \in Asked' : i \notin Asked => requests'[i].kind = "init"
  <2> SUFFICES ASSUME NEW i \in Asked', i \notin Asked PROVE requests'[i].kind = "init"
    OBVIOUS
  <2>1. i = Len(requests') /\ Len(requests') > Len(requests)  BY <1>1 DEF Settled
  <2> QED  BY <2>1 DEF New, Settled
<1>3. \A i \in Asked : requests'[i].kind = requests[i].kind  BY DEF Kept, Settled
<1>4. \A i \in Asked : requests[i].promise # "pending" =>
                           requests'[i].promise = requests[i].promise
  BY DEF Kept, Settled
<1>5. Flushes' = Flushes \ ids  BY <1>1, <1>2, <1>3 DEF Flushes, Pending, OfKind, Settled, New
<1>6. Opened => Opened'  BY <1>1, <1>3, <1>4 DEF Opened, OfKind
<1>7. outcome = "resolved" /\ Opens(ids) => Opened'
  BY <1>1, <1>3 DEF Opens, Opened, OfKind, Settled
<1>8. OpenedFirst => OpenedFirst'
  <2> SUFFICES ASSUME OpenedFirst, NEW i \in Asked', requests'[i].kind \in {"flush", "enqueue"}
               PROVE  \E j \in Asked' : requests'[j].kind = "init" /\ j < i
                                        /\ requests'[j].promise = "resolved"
    BY DEF OpenedFirst, OfKind
  <2>1. i \in Asked  BY <1>2
  <2>2. PICK j \in Asked : requests[j].kind = "init" /\ j < i
                           /\ requests[j].promise = "resolved"
    BY <1>3, <2>1 DEF OpenedFirst, OfKind
  <2> QED  BY <1>1, <1>3, <1>4, <2>2
<1> QED  BY <1>5, <1>6, <1>7, <1>8

\* Settling promises keeps everything: the flag and the chain of timers wait for a flush
\* exactly while one is awaited.
LEMMA SettleKeeps ==
    ASSUME ClientInv, WorkerFlags', NEW ids, ids \subseteq Pending,
           NEW outcome \in {"resolved", "rejected"},
           NEW moved, Moved(moved), Settle(ids, outcome, moved), startup # "none",
           UNCHANGED <<child, quit>>, attached' = attached \/ child = "dead"
    PROVE  ClientInv'
<1> USE DEF ClientInv
<1>1. Settled(ids, outcome) /\ \A i \in Asked : requests'[i].at = moved[i].at
  BY SettleFacts
<1>2. /\ Flushes' = Flushes \ ids
      /\ Opened => Opened'
      /\ outcome = "resolved" /\ Opens(ids) => Opened'
      /\ OpenedFirst => OpenedFirst'
  BY <1>1, SettledPromises
<1>3. running' <=> (running /\ ids \cap OfKind({"flush"}) = {})
  BY Zenon DEF Settle, FlagAfter
<1>4. startup' \in {"busy", "ready", "failed"}
      /\ (startup' = "ready" => startup = "ready" \/ (outcome = "resolved" /\ Opens(ids)))
  BY DEF Settle, WorkerTypeOK
<1>5. timer' \in {"off", "set", "flushing"}
      /\ (timer' # "off" => timer # "off" \/ (outcome = "resolved" /\ Opens(ids)))
      /\ (timer' = "flushing" => timer = "flushing" /\ running')
  <2>1. CASE outcome = "resolved" /\ Opens(ids)  BY <2>1 DEF Settle
  <2>2. CASE ~(outcome = "resolved" /\ Opens(ids)) /\ timer = "flushing" /\ ~running'
    BY <2>2 DEF Settle
  <2>3. CASE ~(outcome = "resolved" /\ Opens(ids)) /\ ~(timer = "flushing" /\ ~running')
    BY <2>3 DEF Settle, WorkerTypeOK
  <2> QED  BY <2>1, <2>2, <2>3
<1>6. WorkerTypeOK'  BY <1>1, <1>4, <1>5 DEF WorkerTypeOK, WorkerFlags, Kept, Settled
<1>7. PipeInv' /\ QueueInOrder'
  <2>1. Asked = 1..Len(requests) /\ Asked' = 1..Len(requests') /\ Len(requests) \in Nat
    BY <1>1 DEF WorkerTypeOK, Asked, Kept, Settled
  <2>2. \A i \in Asked' : i \notin Asked => requests'[i].at = "pipe"
    <3> SUFFICES ASSUME NEW i \in Asked', i \notin Asked PROVE requests'[i].at = "pipe"
      OBVIOUS
    <3>1. i = Len(requests') /\ Len(requests') > Len(requests)  BY <1>1, <2>1 DEF Settled
    <3> QED  BY <1>1, <3>1 DEF New, Settled
  <2>3. \A i \in Asked : requests[i].at = "pipe" => requests'[i].at = "pipe"
    BY <1>1 DEF Moved
  <2>4. \A i \in Asked : \/ requests'[i].at = requests[i].at
                         \/ requests'[i].at \in {"answered", "gone"}
    BY <1>1 DEF Moved
  <2>5. Kept  BY <1>1 DEF Settled
  <2> QED  BY <2>2, <2>3, <2>4, <2>5, Places
<1>8. FlushInv'
  <2>1. timer' = "flushing" => running'  BY <1>5
  <2>2. CASE ~running  BY <1>2, <1>3, <2>1, <2>2 DEF FlushInv
  <2>3. CASE running
    <3>1. PICK i \in Flushes : Flushes = {i}  BY <2>3 DEF FlushInv
    <3>2. ids \cap OfKind({"flush"}) = ids \cap {i}  BY <3>1 DEF Flushes
    <3> QED  BY <1>2, <1>3, <2>1, <2>3, <3>1, <3>2 DEF FlushInv
  <2> QED  BY <2>2, <2>3
<1>9. OpenInv'  BY <1>2, <1>4, <1>5 DEF OpenInv
<1>10. ProcInv'
  <2>1. startup' # "none"  BY <1>4
  <2>2. attached => attached' \/ child = "dead"  OBVIOUS
  <2> QED  BY <2>1, <2>2 DEF ProcInv
<1> QED  BY <1>6, <1>7, <1>8, <1>9, <1>10

\* A request that is asked for keeps everything, if a flush is asked for while none is
\* awaited, and the queue is used once it is open.
LEMMA AskKeeps ==
    ASSUME ClientInv, WorkerFlags', NEW kind \in RequestKinds, attached,
           requests' = Append(requests, New(kind)), startup # "none",
           UNCHANGED <<child, attached, startup, quit>>,
           kind \in {"flush", "enqueue"} => Opened,
           timer' \in {"off", "set", "flushing"}, timer' # "off" => timer # "off",
           timer' = "flushing" => timer = "flushing" \/ kind = "flush",
           IF kind = "flush" THEN ~running /\ running' ELSE running' = running
    PROVE  ClientInv'
<1> USE DEF ClientInv
<1>1. /\ Kept /\ Len(requests') = Len(requests) + 1
      /\ \A i \in Asked : requests'[i] = requests[i]
      /\ requests'[Len(requests) + 1] = New(kind)
  BY AskFacts
<1>2. /\ Flushes' = IF kind = "flush" THEN Flushes \cup {Len(requests) + 1} ELSE Flushes
      /\ Opened => Opened'
      /\ OpenedFirst'
  BY AskedIsPending DEF OpenInv
<1>3. WorkerTypeOK'  BY <1>1 DEF WorkerTypeOK, WorkerFlags, Kept
<1>4. PipeInv' /\ QueueInOrder'
  <2>1. Asked = 1..Len(requests) /\ Asked' = 1..Len(requests') /\ Len(requests) \in Nat
    BY <1>1 DEF WorkerTypeOK, Asked, Kept
  <2>2. \A i \in Asked' : i \notin Asked => requests'[i].at = "pipe"
    BY <1>1, <2>1 DEF New
  <2> QED  BY <1>1, <2>2, Places
<1>5. FlushInv'
  <2>1. CASE kind = "flush"
    <3>1. Flushes = {}  BY <2>1 DEF FlushInv
    <3> QED  BY <1>2, <2>1, <3>1 DEF FlushInv
  <2>2. CASE kind # "flush"  BY <1>2, <2>2 DEF FlushInv
  <2> QED  BY <2>1, <2>2
<1>6. OpenInv'  BY <1>2 DEF OpenInv
<1>7. ProcInv'  BY DEF ProcInv
<1> QED  BY <1>3, <1>4, <1>5, <1>6, <1>7

\* Where requests only move, in order, everything is kept.
LEMMA MoveKeeps ==
    ASSUME ClientInv, Kept, Len(requests') = Len(requests),
           \A i \in Asked : requests'[i].promise = requests[i].promise,
           UNCHANGED <<attached, startup, timer, running>>,
           PipeInv', QueueInOrder', WorkerTypeOK', ProcInv'
    PROVE  ClientInv'
<1> USE DEF ClientInv
<1>1. Flushes' = Flushes /\ Opened' = Opened /\ OpenedFirst' = OpenedFirst
  BY SamePromises
<1>2. FlushInv'  BY <1>1 DEF FlushInv
<1>3. OpenInv'  BY <1>1 DEF OpenInv
<1> QED  BY <1>2, <1>3

\* What the worker does with a request keeps everything.
LEMMA WorkerKeeps ==
    ASSUME ClientInv,
           \/ ReadFrame \/ TakeQueueRequest \/ \E i \in Asked : Respond(i)
    PROVE  ClientInv'
<1> USE DEF ClientInv
<1>1. Asked = 1..Len(requests) /\ Len(requests) \in Nat  BY DEF WorkerTypeOK, Asked
<1>2. UNCHANGED <<child, attached, startup, timer, running, quit>>
  BY DEF ReadFrame, TakeQueueRequest, Respond
<1>3. CASE ReadFrame
  <2>1. PICK i \in At("pipe") :
            /\ \A k \in At("pipe") : i <= k
            /\ requests' = Put(i, IF IsQueue(i) THEN "held" ELSE "served")
    BY <1>3 DEF ReadFrame
  <2>2. requests' = Put(i, IF IsQueue(i) THEN "held" ELSE "served")  BY <2>1
  <2> DEFINE place == IF IsQueue(i) THEN "held" ELSE "served"
  <2>3. i \in Asked /\ requests[i].at = "pipe" /\ place \in AtWorker \cup {"answered", "gone"}
    BY <2>1 DEF At, AtWorker
  <2>4. /\ Kept /\ Len(requests') = Len(requests)
        /\ \A j \in Asked : /\ requests'[j].promise = requests[j].promise
                            /\ requests'[j].at = IF j = i THEN place ELSE requests[j].at
    BY <2>2, <2>3, PutFacts
  <2>5. Asked' = Asked /\ WorkerTypeOK'  BY <1>1, <1>2, <2>4 DEF Kept, Asked, WorkerTypeOK
  <2>6. \A j \in Asked : requests'[j].kind = requests[j].kind  BY <2>4 DEF Kept
  <2>7. \A j \in Asked : requests[j].at # "held"  BY <1>3 DEF ReadFrame, At
  <2>8. PipeInv'
    <3>1. ASSUME NEW j \in Asked, requests'[j].at = "pipe",
                 NEW k \in Asked, requests'[k].at # "pipe"
          PROVE  k < j
      <4>1. j # i /\ requests[j].at = "pipe" /\ i < j
        <5>1. j # i  BY <2>4, <3>1
        <5>2. requests[j].at = "pipe"  BY <2>4, <3>1, <5>1
        <5>3. i <= j  BY <2>1, <5>2 DEF At
        <5> QED  BY <1>1, <2>3, <5>1, <5>2, <5>3
      <4>2. CASE k = i  BY <4>1, <4>2
      <4>3. CASE k # i
        <5>1. requests[k].at # "pipe"  BY <2>4, <3>1, <4>3
        <5> QED  BY <4>1, <5>1 DEF PipeInv, At
      <4> QED  BY <4>2, <4>3
    <3>2. \A j, k \in Asked : requests'[j].at = "held" /\ requests'[k].at = "held" => j = k
      BY <2>4, <2>7
    <3>3. \A j \in Asked : requests'[j].at = "held" => requests'[j].kind \in QueueKinds
      BY <2>4, <2>6, <2>7 DEF IsQueue
    <3> QED  BY <2>5, <3>1, <3>2, <3>3 DEF PipeInv, At, IsQueue
  <2>9. QueueInOrder'
    <3> SUFFICES ASSUME NEW h \in Asked, requests'[h].at = "served",
                        requests'[h].kind \in QueueKinds,
                        NEW j \in Asked, requests'[j].kind \in QueueKinds, j < h
                 PROVE  requests'[j].at \in {"answered", "gone"}
      BY <2>5 DEF QueueInOrder, At, OfKind
    <3>1. h # i  BY <2>4, <2>6 DEF IsQueue
    <3>2. requests[h].at = "served"  BY <2>4, <3>1
    <3>3. requests[j].at \in {"answered", "gone"}
      BY <2>6, <3>2 DEF QueueInOrder, At, OfKind
    <3>4. j # i  BY <2>3, <3>3
    <3> QED  BY <2>4, <3>3, <3>4
  <2>10. ProcInv'
    <3>1. startup # "none"
      <4>1. requests # <<>>  BY <2>3, <1>1
      <4> QED  BY <4>1 DEF ProcInv
    <3> QED  BY <1>2, <3>1 DEF ProcInv
  <2> QED  BY <1>2, <2>4, <2>5, <2>8, <2>9, <2>10, MoveKeeps
<1>4. CASE TakeQueueRequest
  <2>1. PICK i \in At("held") : requests' = Put(i, "served")  BY <1>4 DEF TakeQueueRequest
  <2>2. i \in Asked /\ requests[i].at = "held" /\ "served" \in AtWorker \cup {"answered", "gone"}
    BY DEF At, AtWorker
  <2>3. /\ Kept /\ Len(requests') = Len(requests)
        /\ \A j \in Asked : /\ requests'[j].promise = requests[j].promise
                            /\ requests'[j].at = IF j = i THEN "served" ELSE requests[j].at
    BY <2>1, <2>2, PutFacts
  <2>4. Asked' = Asked /\ WorkerTypeOK'  BY <1>1, <1>2, <2>3 DEF Kept, Asked, WorkerTypeOK
  <2>5. \A j \in Asked : requests'[j].kind = requests[j].kind  BY <2>3 DEF Kept
  <2>6. PipeInv'
    <3>1. \A j, k \in Asked : requests'[j].at = "pipe" /\ requests'[k].at # "pipe" => k < j
      BY <2>2, <2>3 DEF PipeInv, At
    <3>2. \A j \in Asked : requests'[j].at # "held"  BY <2>2, <2>3 DEF PipeInv, At
    <3> QED  BY <2>4, <3>1, <3>2 DEF PipeInv, At, IsQueue
  <2>7. QueueInOrder'
    <3> SUFFICES ASSUME NEW h \in Asked, requests'[h].at = "served",
                        requests'[h].kind \in QueueKinds,
                        NEW j \in Asked, requests'[j].kind \in QueueKinds, j < h
                 PROVE  requests'[j].at \in {"answered", "gone"}
      BY <2>4 DEF QueueInOrder, At, OfKind
    <3>1. \A k \in Asked : requests[k].at = "served" => requests[k].kind \notin QueueKinds
      BY <1>4 DEF TakeQueueRequest, Serving, At, IsQueue
    <3>2. h = i  BY <2>3, <2>5, <3>1
    <3>3. j # i  BY <1>1, <3>2
    <3>4. requests[j].at # "pipe"
      <4>1. requests[j].at = "pipe" => i < j  BY <2>2 DEF PipeInv, At
      <4> QED  BY <1>1, <3>2, <4>1
    <3>5. requests[j].at # "held"  BY <2>2, <3>3 DEF PipeInv, At
    <3>6. requests[j].at # "served"  BY <2>5, <3>1
    <3>7. requests[j].at \in AtWorker \cup {"answered", "gone"}
      <4>1. requests[j] \in Request  BY <1>1 DEF WorkerTypeOK
      <4> QED  BY <4>1 DEF Request
    <3> QED  BY <2>3, <3>3, <3>4, <3>5, <3>6, <3>7 DEF AtWorker
  <2>8. ProcInv'
    <3>1. startup # "none"
      <4>1. requests # <<>>  BY <2>2, <1>1
      <4> QED  BY <4>1 DEF ProcInv
    <3> QED  BY <1>2, <3>1 DEF ProcInv
  <2> QED  BY <1>2, <2>3, <2>4, <2>6, <2>7, <2>8, MoveKeeps
<1>5. ASSUME NEW i \in Asked, Respond(i) PROVE ClientInv'
  <2>1. requests[i].at = "served" /\ requests' = Put(i, "answered")
    BY <1>5 DEF Respond, At
  <2>2. /\ Kept /\ Len(requests') = Len(requests)
        /\ \A j \in Asked : /\ requests'[j].promise = requests[j].promise
                            /\ requests'[j].at = IF j = i THEN "answered" ELSE requests[j].at
    BY <2>1, PutFacts
  <2>3. Asked' = Asked /\ WorkerTypeOK'  BY <1>1, <1>2, <2>2 DEF Kept, Asked, WorkerTypeOK
  <2>4. PipeInv' /\ QueueInOrder'  BY <2>1, <2>2, <2>3, Places
  <2>5. ProcInv'
    <3>1. startup # "none"
      <4>1. requests # <<>>  BY <1>1
      <4> QED  BY <4>1 DEF ProcInv
    <3> QED  BY <1>2, <3>1 DEF ProcInv
  <2> QED  BY <1>2, <2>2, <2>3, <2>4, <2>5, MoveKeeps
<1> QED  BY <1>3, <1>4, <1>5

\* The death of the worker loses what it had, and keeps everything else.
LEMMA DeathKeeps ==
    ASSUME ClientInv, Die, startup # "none", UNCHANGED <<attached, startup, timer, running>>,
           quit' \in {quit, "done"}
    PROVE  ClientInv'
<1> USE DEF ClientInv
<1>1. /\ Kept /\ Len(requests') = Len(requests) /\ child' = "dead"
      /\ \A j \in Asked : /\ requests'[j].promise = requests[j].promise
                          /\ requests'[j].at = IF requests[j].at \in AtWorker THEN "gone"
                                               ELSE requests[j].at
  BY DieFacts DEF Die
<1>2. Asked' = Asked /\ WorkerTypeOK'  BY <1>1 DEF Kept, Asked, WorkerTypeOK
<1>3. \A i \in Asked : requests'[i].at # "pipe" /\ (\/ requests'[i].at = requests[i].at
                                                    \/ requests'[i].at = "gone")
  BY <1>1 DEF AtWorker
<1>4. PipeInv' /\ QueueInOrder'  BY <1>1, <1>2, <1>3, Places
<1>5. ProcInv'  BY <1>1 DEF ProcInv
<1> QED  BY <1>1, <1>2, <1>4, <1>5, MoveKeeps

\* Every action leaves Booleans in the two flags.
LEMMA WorkerFlagTypes == ASSUME WorkerFlags, [WorkerNext]_workerVars PROVE WorkerFlags'
<1> USE DEF WorkerFlags
<1>1. CASE StartWorker \/ WorkerEnds \/ WorkerDies \/ BeginShutdown \/ ReadFrame
           \/ TakeQueueRequest \/ AskAnything
  BY <1>1, Zenon DEF StartWorker, WorkerEnds, WorkerDies, BeginShutdown, ReadFrame,
     TakeQueueRequest, AskAnything
<1>2. CASE AskFlush \/ TimerFires
  BY <1>2, Zenon DEF AskFlush, TimerFires, FlushNow
<1>3. CASE Answers
  BY <1>3, Zenon DEF Answers, Respond, Deliver, Settle, FlagAfter
<1>4. CASE Deadline  BY <1>4, Zenon DEF Deadline, TimesOut, GiveUp, Settle, FlagAfter
<1>5. CASE WorkerExit  BY <1>5, Zenon DEF WorkerExit, Settle, FlagAfter
<1>6. CASE Ending  BY <1>6, Zenon DEF Ending, StopWorker, Stopped, AppEnds
<1>7. CASE UNCHANGED workerVars  BY <1>7, Zenon DEF workerVars
<1> QED  BY <1>1, <1>2, <1>3, <1>4, <1>5, <1>6, <1>7 DEF WorkerNext

\* Every action keeps everything.
LEMMA ClientStep == ASSUME ClientInv, [WorkerNext]_workerVars PROVE ClientInv'
<1> USE DEF ClientInv
<1>0. WorkerFlags'  BY WorkerFlagTypes DEF WorkerTypeOK, WorkerFlags
<1>1. requests \in Seq(Request) /\ Moved(requests) /\ Pending \subseteq Asked
  BY DEF WorkerTypeOK, Moved, Pending
<1>2. Asked # {} => startup # "none"
  <2>1. startup = "none" => requests = <<>>  BY DEF ProcInv
  <2> QED  BY <2>1 DEF Asked
<1>3. CASE StartWorker
  <2>1. New("health") \in Request /\ New("health").kind = "health"
        /\ New("health").promise = "pending" /\ New("health").at = "pipe"
    BY DEF New, Request, AtWorker, RequestKinds
  <2>2. requests' \in Seq(Request) /\ Len(requests') = 1 /\ requests'[1] = New("health")
    BY <1>3, <2>1 DEF StartWorker
  <2>3. Asked' = {1} /\ Flushes' = {}
    <3>1. Asked' = {1}  BY <2>2 DEF Asked
    <3> QED  BY <2>1, <2>2, <3>1 DEF Flushes, Pending, OfKind
  <2>4. Asked = {} /\ ~running /\ timer = "off" /\ quit = "no"
    <3>1. requests = <<>> /\ quit = "no"  BY <1>3 DEF ProcInv, StartWorker
    <3>2. Asked = {}  BY <3>1 DEF Asked
    <3>3. Flushes = {} /\ ~Opened  BY <3>2 DEF Flushes, Pending, OfKind, Opened
    <3> QED  BY <3>1, <3>2, <3>3 DEF FlushInv, OpenInv
  <2>5. running' = running /\ timer' = timer /\ quit' = quit /\ startup' = "busy"
        /\ child' = "up"
    BY <1>3 DEF StartWorker
  <2>6. WorkerTypeOK'  BY <1>0, <2>2, <2>5 DEF WorkerTypeOK, WorkerFlags
  <2>7. FlushInv'  BY <2>3, <2>4, <2>5 DEF FlushInv
  <2>8. PipeInv' /\ QueueInOrder' /\ OpenedFirst'
    BY <2>1, <2>2, <2>3 DEF PipeInv, QueueInOrder, OpenedFirst, At, OfKind
  <2>9. OpenInv'  BY <2>4, <2>5, <2>8 DEF OpenInv
  <2>10. attached'  BY <1>3, Zenon DEF StartWorker
  <2>11. ProcInv'  BY <2>5, <2>10 DEF ProcInv
  <2> QED  BY <2>6, <2>7, <2>8, <2>9, <2>11
<1>4. CASE AskFlush
  <2>1. Ask("flush") /\ ~running /\ startup = "ready"
        /\ UNCHANGED <<child, attached, startup, timer, quit>>
    BY <1>4 DEF AskFlush, FlushNow
  <2>2. running'  BY <1>4, Zenon DEF AskFlush, FlushNow
  <2>3. attached /\ requests' = Append(requests, New("flush"))  BY <2>1 DEF Ask
  <2>4. Opened /\ timer \in {"off", "set", "flushing"} /\ "flush" \in RequestKinds
    BY <2>1 DEF OpenInv, WorkerTypeOK, RequestKinds, QueueKinds
  <2> QED  BY <1>0, <2>1, <2>2, <2>3, <2>4, AskKeeps
<1>5. CASE TimerFires
  <2>1. Ask("flush") /\ ~running /\ timer = "set" /\ timer' = "flushing"
        /\ UNCHANGED <<child, attached, startup, quit>>
    BY <1>5 DEF TimerFires, FlushNow
  <2>2. running'  BY <1>5, Zenon DEF TimerFires, FlushNow
  <2>3. attached /\ requests' = Append(requests, New("flush"))  BY <2>1 DEF Ask
  <2>4. Opened /\ startup # "none" /\ "flush" \in RequestKinds
    BY <2>1, <2>3 DEF OpenInv, ProcInv, RequestKinds, QueueKinds
  <2> QED  BY <1>0, <2>1, <2>2, <2>3, <2>4, AskKeeps
<1>6. CASE AskAnything
  <2>1. PICK kind \in {"enqueue", "fetch"} : Ask(kind)  BY <1>6 DEF AskAnything
  <2>2. startup = "ready" /\ UNCHANGED <<child, attached, startup, timer, running, quit>>
    BY <1>6 DEF AskAnything
  <2>3. attached /\ requests' = Append(requests, New(kind)) /\ kind \in RequestKinds
    BY <2>1 DEF Ask, RequestKinds, QueueKinds
  <2>4. Opened /\ timer \in {"off", "set", "flushing"}  BY <2>2 DEF OpenInv, WorkerTypeOK
  <2> QED  BY <1>0, <2>1, <2>2, <2>3, <2>4, AskKeeps
<1>7. ASSUME NEW i \in Asked, NEW outcome \in {"resolved", "rejected"}, Deliver(i, outcome)
      PROVE  ClientInv'
  <2>1. i \in At("answered") /\ Settle({i} \cap Pending, outcome, Put(i, "gone"))
        /\ UNCHANGED <<child, attached, quit>>
    BY <1>7 DEF Deliver
  <2>2. Moved(Put(i, "gone"))
    <3> DEFINE moved == Put(i, "gone")
    <3>1. requests \in [1..Len(requests) -> Request] /\ Asked = 1..Len(requests)
      BY <1>1 DEF Asked
    <3>2. moved = [j \in Asked |-> IF j = i THEN [requests[i] EXCEPT !.at = "gone"]
                                            ELSE requests[j]]
      BY <3>1 DEF Put
    <3>3. [requests[i] EXCEPT !.at = "gone"] \in Request
          /\ [requests[i] EXCEPT !.at = "gone"].kind = requests[i].kind
          /\ [requests[i] EXCEPT !.at = "gone"].promise = requests[i].promise
          /\ [requests[i] EXCEPT !.at = "gone"].at = "gone"
      BY <3>1 DEF Request
    <3> HIDE DEF moved
    <3>4. moved \in [1..Len(requests) -> Request]  BY <3>1, <3>2, <3>3
    <3>5. moved \in Seq(Request) /\ Len(moved) = Len(requests)  BY <1>1, <3>4
    <3>6. Moved(moved)  BY <2>1, <3>1, <3>2, <3>3, <3>5 DEF Moved, At
    <3> QED  BY <3>6 DEF moved
  <2>3. startup # "none" /\ {i} \cap Pending \subseteq Pending  BY <1>2
  <2> QED  BY <1>0, <2>1, <2>2, <2>3, SettleKeeps
<1>8. ASSUME NEW i \in Asked, TimesOut(i) PROVE ClientInv'
  <2>1. {i} \subseteq Pending /\ Settle({i}, "rejected", requests)
        /\ UNCHANGED <<child, attached, quit>>
    BY <1>8 DEF TimesOut, GiveUp
  <2>2. startup # "none"  BY <1>2
  <2> QED  BY <1>0, <1>1, <2>1, <2>2, SettleKeeps
<1>9. CASE WorkerExit
  <2>1. child = "dead" /\ Settle(Pending, "rejected", requests) /\ UNCHANGED <<child, quit>>
    BY <1>9 DEF WorkerExit
  <2>2. startup # "none"  BY <2>1 DEF ProcInv
  <2> QED  BY <1>0, <1>1, <2>1, <2>2, SettleKeeps
<1>10. CASE ReadFrame \/ TakeQueueRequest \/ \E i \in Asked : Respond(i)
  BY <1>10, WorkerKeeps
<1>11. CASE WorkerDies
  <2>1. startup # "none"  BY <1>11 DEF WorkerDies, ProcInv
  <2> QED  BY <1>11, <2>1, DeathKeeps DEF WorkerDies
<1>12. CASE WorkerEnds \/ BeginShutdown \/ StopWorker \/ AppEnds
  <2>1. requests' = requests /\ running' = running /\ startup' = startup
        /\ timer' \in {timer, "off"}
    BY <1>12 DEF WorkerEnds, BeginShutdown, StopWorker, AppEnds
  <2>2. WorkerTypeOK'
    <3>1. child' \in {"none", "up", "eof", "dead"}
          /\ quit' \in {"no", "closing", "stopping", "done"}
      BY <1>12 DEF WorkerEnds, BeginShutdown, StopWorker, AppEnds, WorkerTypeOK
    <3> QED  BY <1>0, <2>1, <3>1 DEF WorkerTypeOK, WorkerFlags
  <2>3. Flushes' = Flushes /\ Opened' = Opened /\ OpenedFirst' = OpenedFirst
    BY <2>1 DEF Flushes, Pending, OfKind, Opened, OpenedFirst, Asked
  <2>4. FlushInv' /\ OpenInv'  BY <2>1, <2>3 DEF FlushInv, OpenInv
  <2>5. PipeInv' /\ QueueInOrder'
    BY <2>1 DEF PipeInv, QueueInOrder, OfKind, At, IsQueue, Asked
  <2>6. ProcInv'
    <3>1. CASE WorkerEnds  BY <2>1, <3>1 DEF WorkerEnds, ProcInv
    <3>2. CASE BeginShutdown  BY <2>1, <3>2 DEF BeginShutdown, ProcInv
    <3>3. CASE StopWorker
      <4>1. startup # "none"  BY <3>3 DEF StopWorker, ProcInv
      <4>2. CASE startup = "ready" /\ attached  BY <2>1, <3>3, <4>1, <4>2 DEF StopWorker, ProcInv
      <4>3. CASE ~(startup = "ready" /\ attached)
        BY <2>1, <3>3, <4>1, <4>3 DEF StopWorker, ProcInv
      <4> QED  BY <4>2, <4>3
    <3>4. CASE AppEnds  BY <2>1, <3>4 DEF AppEnds, ProcInv
    <3> QED  BY <1>12, <3>1, <3>2, <3>3, <3>4
  <2> QED  BY <2>2, <2>4, <2>5, <2>6
<1>13. CASE Stopped
  <2>1. startup # "none"  BY <1>13 DEF Stopped, ProcInv
  <2>2. CASE child # "dead"  BY <1>13, <2>1, <2>2, DeathKeeps DEF Stopped
  <2>3. CASE child = "dead"
    <3>1. UNCHANGED <<child, requests, attached, startup, timer, running>> /\ quit' = "done"
      BY <1>13, <2>3 DEF Stopped
    <3>2. Kept /\ Len(requests') = Len(requests)  BY <1>1, <3>1 DEF Kept, Asked
    <3>3. WorkerTypeOK' /\ ProcInv'  BY <2>1, <2>3, <3>1 DEF WorkerTypeOK, ProcInv
    <3>4. PipeInv' /\ QueueInOrder'
      BY <3>1 DEF PipeInv, QueueInOrder, OfKind, At, IsQueue, Asked
    <3> QED  BY <3>1, <3>2, <3>3, <3>4, MoveKeeps
  <2> QED  BY <2>2, <2>3
<1>14. CASE UNCHANGED workerVars
  BY <1>14 DEF workerVars, WorkerTypeOK, FlushInv, PipeInv, QueueInOrder, OpenInv, OpenedFirst,
     ProcInv, Flushes, Pending, OfKind, At, IsQueue, Opened, Asked
<1> QED
  BY <1>3, <1>4, <1>5, <1>6, <1>7, <1>8, <1>9, <1>10, <1>11, <1>12, <1>13, <1>14
  DEF WorkerNext, Answers, Deadline, Ending

\* Whatever times out, dies or is shut down, a flush that the manager waits for is awaited,
\* the queue is served in order and only once it is open, and no worker that the shutdown
\* knew of survives it.
THEOREM WorkerIsServed == WorkerSpec => []WorkerSound
<1>1. WorkerInit => ClientInv
  <2> SUFFICES ASSUME WorkerInit PROVE ClientInv  OBVIOUS
  <2>1. WorkerFlags /\ ~attached /\ ~running  BY Zenon DEF WorkerInit, WorkerFlags
  <2>2. requests \in Seq(Request) /\ Asked = {}  BY DEF WorkerInit, Asked
  <2> QED
    BY <2>1, <2>2 DEF WorkerInit, ClientInv, WorkerFlags, WorkerTypeOK, FlushInv, PipeInv,
       QueueInOrder, OpenInv, OpenedFirst, ProcInv, Flushes, Pending, OfKind, At
<1>2. ClientInv /\ [WorkerNext]_workerVars => ClientInv'  BY ClientStep
<1>3. ClientInv => WorkerSound
  <2> SUFFICES ASSUME ClientInv PROVE FlushIsAwaited /\ NoWorkerLeft
    BY DEF ClientInv, OpenInv, WorkerSound
  <2>1. NoWorkerLeft  BY DEF ClientInv, ProcInv, NoWorkerLeft
  <2>2. FlushIsAwaited
    <3>1. CASE running
      <4>1. PICK i \in Flushes : Flushes = {i}  BY <3>1 DEF ClientInv, FlushInv
      <4>2. Cardinality(Flushes) = 1  BY <4>1, FS_Singleton
      <4> QED  BY <3>1, <4>2 DEF FlushIsAwaited, Flushes
    <3>2. CASE ~running
      <4>1. Flushes = {}  BY <3>2 DEF ClientInv, FlushInv
      <4>2. Cardinality(Flushes) = 0  BY <4>1, FS_EmptySet
      <4> QED  BY <3>2, <4>2 DEF FlushIsAwaited, Flushes, ClientInv, FlushInv
    <3> QED  BY <3>1, <3>2
  <2> QED  BY <2>1, <2>2
<1> QED  BY <1>1, <1>2, <1>3, PTL DEF WorkerSpec

-----------------------------------------------------------------------------
(***************************************************************************)
(* The state that the onion transport shows (OnionLink).                   *)
(***************************************************************************)

\* Who polls, and what a timer holds back; and what is shown agrees with the failures counted,
\* once the timer has fired.
PollInv ==
    /\ pollers + linkStarting <= linkCalls /\ linkCalls \in 0..MaxLinkStarts
    /\ polled => pollers > 0
    /\ ~linkOverlap =>
          /\ pollers <= 1 /\ (polled <=> pollers = 1) /\ linkStarting <= 1
          /\ linkStarting = 1 => pollers = 0 /\ link = "connecting"
          /\ linkStarting = 0 => link # "connecting"
          /\ pollers = 1 <=> link \in {"connected", "degraded"} \/ (pollers = 1 /\ link = "failed")
          /\ lateShow = "degraded" => link = "connected"
          /\ lateShow = "connected" => link = "degraded"
          /\ link = "failed" => streak >= Failing \/ refused
          /\ ~restarted /\ ~outdated =>
                /\ link = "connected" => (lateShow = "degraded" <=> streak >= Degrading)
                /\ link = "degraded" => (lateShow = "connected" <=> streak < Degrading)

LinkInv == OnionLinkTypeOK /\ PollInv

-----------------------------------------------------------------------------
(***************************************************************************)
(* Background work and updates (Background, AppUpdate).                    *)
(***************************************************************************)

\* While nothing overlapped, a check and a download are not under way together, and what is
\* downloaded is neither checked for nor downloaded again.
UpdateInv ==
    /\ AppUpdateTypeOK
    /\ update = "downloaded" \/ installing => file
    /\ ~disturbed => /\ ~(fetching /\ checking)
                     /\ file => update = "downloaded" /\ ~fetching /\ ~checking

LinkFlags ==
    /\ polled \in BOOLEAN /\ linkOverlap \in BOOLEAN /\ restarted \in BOOLEAN
    /\ outdated \in BOOLEAN /\ refused \in BOOLEAN

\* Every action leaves Booleans in the flags.
LEMMA LinkFlagTypes == ASSUME LinkFlags, [OnionLinkNext]_linkStateVars PROVE LinkFlags'
<1>1. CASE LinkStarts  BY <1>1, Zenon DEF LinkFlags, LinkStarts
<1>2. CASE LinkStarted  BY <1>2, Zenon DEF LinkFlags, LinkStarted
<1>3. CASE LinkRefused \/ LinkStops  BY <1>3, Zenon DEF LinkFlags, LinkRefused, LinkStops
<1>4. CASE PollSucceeds  BY <1>4, Zenon DEF LinkFlags, PollSucceeds
<1>5. CASE PollFailed  BY <1>5, Zenon DEF LinkFlags, PollFailed
<1>6. CASE TimerShows \/ UNCHANGED linkStateVars
  BY <1>6, Zenon DEF LinkFlags, TimerShows, linkStateVars, causes
<1> QED  BY <1>1, <1>2, <1>3, <1>4, <1>5, <1>6 DEF OnionLinkNext

\* Every action keeps who polls and what is shown.
LEMMA LinkStep == ASSUME LinkInv, LinkFlags, [OnionLinkNext]_linkStateVars PROVE LinkInv'
<1> USE OnionLinkAssumption DEF OnionLinkAssumption, LinkInv, PollInv, OnionLinkTypeOK, LinkFlags,
    Shown, NoTimer
<1>0. LinkFlags'  BY LinkFlagTypes
<1> USE <1>0
<1>1. CASE LinkStarts
  <2>1. linkOverlap' <=> (linkOverlap \/ linkStarting > 0 \/ polled)
    BY <1>1, Zenon DEF LinkStarts
  <2> QED  BY <1>1, <2>1 DEF LinkStarts, ShowsNow, Shows
<1>2. CASE LinkStarted
  <2>1. (restarted' <=> (restarted \/ streak > 0)) /\ polled'
    BY <1>2, Zenon DEF LinkStarted
  <2> QED  BY <1>2, <2>1 DEF LinkStarted, ShowsNow, Shows
<1>3. CASE LinkRefused
  <2>1. refused'  BY <1>3, Zenon DEF LinkRefused
  <2> QED  BY <1>3, <2>1 DEF LinkRefused, ShowsNow, Shows
<1>4. CASE LinkStops
  <2>1. (linkOverlap' <=> (linkOverlap \/ linkStarting > 0)) /\ ~polled'
    BY <1>4, Zenon DEF LinkStops
  <2> QED  BY <1>4, <2>1 DEF LinkStops
<1>5. CASE PollSucceeds
  <2>1. outdated' <=> (link = "connected" /\ (outdated \/ lateShow = "degraded"))
    BY <1>5, Zenon DEF PollSucceeds
  <2> QED  BY <1>5, <2>1 DEF PollSucceeds, Requests, Flips, ShowsNow, Shows
<1>6. CASE PollFailed
  <2>1. streak' < Degrading => outdated' = outdated  BY <1>6 DEF PollFailed
  <2>2. ~(streak' < Degrading) =>
            (outdated' <=> (link = "degraded" /\ (outdated \/ lateShow = "connected")))
    BY <1>6, Zenon DEF PollFailed
  <2>3. streak' = IF streak < Failing THEN streak + 1 ELSE streak  BY <1>6 DEF PollFailed
  <2>4. CASE streak' >= Failing
    BY <1>6, <2>1, <2>2, <2>3, <2>4 DEF PollFailed, ShowsNow, Shows
  <2>5. CASE streak' < Failing /\ streak' >= Degrading
    BY <1>6, <2>1, <2>2, <2>3, <2>5 DEF PollFailed, Requests, Flips, ShowsNow, Shows
  <2>6. CASE streak' < Degrading
    BY <1>6, <2>1, <2>3, <2>6 DEF PollFailed
  <2> QED  BY <2>3, <2>4, <2>5, <2>6
<1>7. CASE TimerShows  BY <1>7 DEF TimerShows, Shows, causes
<1>8. CASE UNCHANGED linkStateVars  BY <1>8 DEF linkStateVars, causes
<1> QED  BY <1>1, <1>2, <1>3, <1>4, <1>5, <1>6, <1>7, <1>8 DEF OnionLinkNext

LEMMA LinkFollows == LinkInv => OnionLinkSound
  BY OnionLinkAssumption DEF OnionLinkAssumption, LinkInv, PollInv, OnionLinkTypeOK, OnionLinkSound,
     ShownIsTrue, NoStrayPoller, Shown, NoTimer

BackgroundFlags ==
    /\ enabled \in BOOLEAN /\ toTray \in BOOLEAN /\ interval \in BOOLEAN
    /\ inFlight \in BOOLEAN /\ quitting \in BOOLEAN /\ gone \in BOOLEAN

\* Every action leaves Booleans in the flags.
LEMMA BackgroundFlagTypes ==
    ASSUME BackgroundFlags, [BackgroundNext]_backVars PROVE BackgroundFlags'
<1> USE DEF BackgroundFlags, endVars, workVars
<1>1. CASE ApplyPrefs  BY <1>1, Zenon DEF ApplyPrefs
<1>2. CASE ManualSync  BY <1>2, Zenon DEF ManualSync, AskRenderer, EndRun
<1>3. CASE IntervalFires  BY <1>3, Zenon DEF IntervalFires, AskRenderer, EndRun
<1>4. CASE RendererEnds  BY <1>4, Zenon DEF RendererEnds
<1>5. CASE TakeResult  BY <1>5, Zenon DEF TakeResult, EndRun
<1>6. CASE GivesUp  BY <1>6, Zenon DEF GivesUp, EndRun
<1>7. CASE CloseWindow \/ Reload \/ Hide  BY <1>7, Zenon DEF CloseWindow, Reload, Hide
<1>8. CASE Show  BY <1>8, Zenon DEF Show
<1>9. CASE Quit \/ ShutdownDone  BY <1>9, Zenon DEF Quit, ShutdownDone
<1>10. CASE UNCHANGED backVars  BY <1>10, Zenon DEF backVars
<1> QED
  BY <1>1, <1>2, <1>3, <1>4, <1>5, <1>6, <1>7, <1>8, <1>9, <1>10 DEF BackgroundNext

\* Asking the renderer, or failing to, leaves a timer or a run.
LEMMA AskStep ==
    ASSUME BackgroundSound, BackgroundFlags', ~gone, enabled, ~inFlight,
           NEW timerLeft \in BOOLEAN, AskRenderer(timerLeft),
           UNCHANGED <<enabled, toTray, window, endVars, wishes>>
    PROVE  BackgroundSound'
<1> USE BackgroundAssumption DEF BackgroundAssumption, BackgroundSound, BackgroundTypeOK,
    IntervalGoesOn, OneRun, EndsInOrder, BackgroundFlags, endVars, Runs
<1>1. pending = {}  OBVIOUS
<1>2. CASE window # "none"
  <2>1. inFlight'  BY <1>2, Zenon DEF AskRenderer
  <2>2. runs' = runs + 1 /\ runs < MaxRuns /\ sync' = "running"
        /\ pending' = {runs'} /\ working' = working \cup {runs'} /\ results' = results
    BY <1>1, <1>2 DEF AskRenderer
  <2> QED  BY <2>1, <2>2
<1>3. CASE window = "none"
  <2>1. ~inFlight' /\ interval'  BY <1>3, Zenon DEF AskRenderer, EndRun
  <2>2. sync' = "error" /\ UNCHANGED <<pending, working, results, runs>>
    BY <1>3 DEF AskRenderer, EndRun
  <2> QED  BY <1>1, <2>1, <2>2
<1> QED  BY <1>2, <1>3

\* The end of a run sets the timer again.
LEMMA EndStep ==
    ASSUME BackgroundSound, BackgroundFlags', ~gone,
           NEW r \in pending, pending' = pending \ {r},
           NEW status \in {"ok", "error"}, EndRun(status),
           results' \subseteq results,
           UNCHANGED <<enabled, toTray, working, window, endVars, runs, wishes>>
    PROVE  BackgroundSound'
<1> USE BackgroundAssumption DEF BackgroundAssumption, BackgroundSound, BackgroundTypeOK,
    IntervalGoesOn, OneRun, EndsInOrder, BackgroundFlags, endVars, Runs
<1>1. ~inFlight' /\ (interval' <=> (enabled \/ interval))  BY Zenon DEF EndRun
<1>2. pending' = {}  OBVIOUS
<1>3. sync' = status  BY DEF EndRun
<1> QED  BY <1>1, <1>2, <1>3

\* Every action keeps the timer, the one run and the order of the end.
LEMMA BackgroundStep == ASSUME BackgroundSound, [BackgroundNext]_backVars PROVE BackgroundSound'
<1>0. BackgroundFlags'
  BY BackgroundFlagTypes DEF BackgroundSound, BackgroundTypeOK, BackgroundFlags
<1> USE <1>0, BackgroundAssumption DEF BackgroundAssumption, BackgroundSound, BackgroundTypeOK,
    IntervalGoesOn, OneRun, EndsInOrder, BackgroundFlags, endVars, workVars, Runs
<1>1. CASE ApplyPrefs
  <2>1. interval' <=> enabled'  BY <1>1, Zenon DEF ApplyPrefs
  <2> QED  BY <1>1, <2>1 DEF ApplyPrefs
<1>2. CASE ManualSync
  <2>1. ~gone /\ enabled /\ ~inFlight /\ interval \in BOOLEAN /\ AskRenderer(interval)
        /\ UNCHANGED <<enabled, toTray, window, endVars, wishes>>
    BY <1>2 DEF ManualSync
  <2> QED  BY <2>1, AskStep
<1>3. CASE IntervalFires
  <2>1. ~gone /\ enabled /\ UNCHANGED <<enabled, toTray, window, endVars, wishes>>
    BY <1>3 DEF IntervalFires
  <2>2. CASE ~inFlight
    <3>1. AskRenderer(FALSE) /\ FALSE \in BOOLEAN  BY <1>3, <2>2 DEF IntervalFires
    <3> QED  BY <2>1, <2>2, <3>1, AskStep
  <2>3. CASE inFlight
    <3>1. ~interval'  BY <1>3, <2>3, Zenon DEF IntervalFires
    <3> QED  BY <1>3, <2>3, <3>1 DEF IntervalFires
  <2> QED  BY <2>2, <2>3
<1>4. CASE RendererEnds
  <2>1. PICK r \in working, ok \in BOOLEAN :
            /\ working' = working \ {r}
            /\ results' = results \cup {[run |-> r, ok |-> ok]}
    BY <1>4 DEF RendererEnds
  <2>2. [run |-> r, ok |-> ok] \in [run : Runs, ok : BOOLEAN]  OBVIOUS
  <2> QED  BY <1>4, <2>1, <2>2 DEF RendererEnds
<1>5. CASE TakeResult
  <2>1. PICK m \in results :
            /\ results' = results \ {m}
            /\ pending' = pending \ {m.run}
            /\ IF m.run \in pending THEN EndRun(IF m.ok THEN "ok" ELSE "error")
               ELSE UNCHANGED <<sync, inFlight, interval>>
    BY <1>5 DEF TakeResult
  <2>2. ~gone /\ UNCHANGED <<enabled, toTray, working, window, endVars, runs, wishes>>
    BY <1>5 DEF TakeResult
  <2>3. CASE m.run \in pending
    <3> DEFINE status == IF m.ok THEN "ok" ELSE "error"
    <3>1. status \in {"ok", "error"} /\ EndRun(status)  BY <2>1, <2>3
    <3> HIDE DEF status
    <3> QED  BY <2>1, <2>2, <2>3, <3>1, EndStep
  <2>4. CASE m.run \notin pending
    <3>1. pending' = pending /\ UNCHANGED <<sync, inFlight, interval>>  BY <2>1, <2>4
    <3> QED  BY <2>1, <2>2, <3>1
  <2> QED  BY <2>3, <2>4
<1>6. CASE GivesUp
  <2>1. PICK r \in pending : pending' = pending \ {r}  BY <1>6 DEF GivesUp
  <2>2. ~gone /\ EndRun("error") /\ results' = results /\ "error" \in {"ok", "error"}
        /\ UNCHANGED <<enabled, toTray, working, window, endVars, runs, wishes>>
    BY <1>6 DEF GivesUp
  <2> QED  BY <2>1, <2>2, EndStep
<1>7. CASE CloseWindow \/ Reload \/ Hide  BY <1>7 DEF CloseWindow, Reload, Hide
<1>8. CASE Show
  <2>1. interval' <=> (IF window = "none" THEN enabled ELSE interval)
    BY <1>8, Zenon DEF Show
  <2> QED  BY <1>8, <2>1 DEF Show
<1>9. CASE Quit
  <2>1. quitting' /\ (shutdown = "done" => gone')  BY <1>9, Zenon DEF Quit
  <2> QED  BY <1>9, <2>1 DEF Quit
<1>10. CASE ShutdownDone  BY <1>10 DEF ShutdownDone
<1>11. CASE UNCHANGED backVars  BY <1>11 DEF backVars
<1> QED
  BY <1>1, <1>2, <1>3, <1>4, <1>5, <1>6, <1>7, <1>8, <1>9, <1>10, <1>11 DEF BackgroundNext

\* Every action keeps what was downloaded ready.
LEMMA UpdateStep == ASSUME UpdateInv, [AppUpdateNext]_updateVars PROVE UpdateInv'
<1> USE DEF UpdateInv, AppUpdateTypeOK
<1>0. /\ checking' \in BOOLEAN /\ found' \in BOOLEAN /\ fetching' \in BOOLEAN
      /\ file' \in BOOLEAN /\ installing' \in BOOLEAN /\ disturbed' \in BOOLEAN
  <2>1. CASE CheckNow \/ CheckInTurn  BY <2>1, Zenon DEF CheckNow, CheckInTurn, BeginCheck
  <2>2. CASE CheckEnds  BY <2>2, Zenon DEF CheckEnds
  <2>3. CASE Download \/ Progress \/ Install  BY <2>3, Zenon DEF Download, Progress, Install
  <2>4. CASE DownloadEnds  BY <2>4, Zenon DEF DownloadEnds
  <2>5. CASE UNCHANGED updateVars  BY <2>5, Zenon DEF updateVars
  <2> QED  BY <2>1, <2>2, <2>3, <2>4, <2>5 DEF AppUpdateNext
<1> USE <1>0
<1>1. CASE CheckNow
  <2>1. checking' /\ (disturbed' <=> (disturbed \/ fetching \/ file))
    BY <1>1, Zenon DEF CheckNow, BeginCheck
  <2> QED  BY <1>1, <2>1 DEF CheckNow, BeginCheck
<1>2. CASE CheckInTurn
  <2>1. checking' /\ (disturbed' <=> (disturbed \/ fetching))
    BY <1>2, Zenon DEF CheckInTurn, BeginCheck
  <2> QED  BY <1>2, <2>1 DEF CheckInTurn, BeginCheck, Engaged
<1>3. CASE CheckEnds
  <2>1. ~checking'  BY <1>3, Zenon DEF CheckEnds
  <2> QED  BY <1>3, <2>1 DEF CheckEnds
<1>4. CASE Download
  <2>1. fetching' /\ (disturbed' <=> (disturbed \/ checking))  BY <1>4, Zenon DEF Download
  <2> QED  BY <1>4, <2>1 DEF Download
<1>5. CASE Progress  BY <1>5 DEF Progress
<1>6. CASE DownloadEnds
  <2>1. ~fetching'  BY <1>6, Zenon DEF DownloadEnds
  <2>2. (file' /\ update' = "downloaded") \/ (file' = file /\ update' = "error")
    BY <1>6 DEF DownloadEnds
  <2> QED  BY <1>6, <2>1, <2>2 DEF DownloadEnds
<1>7. CASE Install
  <2>1. installing'  BY <1>7, Zenon DEF Install
  <2> QED  BY <1>7, <2>1 DEF Install
<1>8. CASE UNCHANGED updateVars  BY <1>8 DEF updateVars
<1> QED  BY <1>1, <1>2, <1>3, <1>4, <1>5, <1>6, <1>7, <1>8 DEF AppUpdateNext

ShellInv == LinkFlags /\ LinkInv /\ BackgroundSound /\ UpdateInv

\* A step of the union is one of each of the three, or leaves it alone.
LEMMA ShellSteps ==
    ASSUME [MainNext]_<<part, vars, workerVars, poolVars, torVars, linkStateVars,
               backVars, updateVars>>
    PROVE  [OnionLinkNext]_linkStateVars /\ [BackgroundNext]_backVars /\ [AppUpdateNext]_updateVars
<1>1. CASE MainNext  BY <1>1 DEF MainNext, Rest
<1>2. CASE UNCHANGED <<part, vars, workerVars, poolVars, torVars, linkStateVars,
               backVars, updateVars>>
  BY <1>2
<1> QED  BY <1>1, <1>2

\* What the transport shows agrees with the failures counted and it polls once, the timer of
\* the background work never stops and nobody waits for a run that is not under way, and an
\* update that was downloaded can be installed, with the exceptions that the properties name.
THEOREM ShellKeepsSound == MainSpec => []ShellSound
<1>1. MainInit => ShellInv
  <2> SUFFICES ASSUME MainInit PROVE ShellInv  OBVIOUS
  <2>1. LinkFlags /\ ~polled  BY Zenon DEF MainInit, OnionLinkInit, LinkFlags
  <2>2. LinkInv
    BY <2>1, OnionLinkAssumption DEF OnionLinkAssumption, MainInit, OnionLinkInit, LinkInv, PollInv,
       OnionLinkTypeOK, LinkFlags, Shown, NoTimer
  <2>3. BackgroundFlags /\ (interval <=> enabled) /\ ~inFlight /\ ~gone
    <3>1. BackgroundInit  BY DEF MainInit
    <3> QED  BY <3>1, Zenon DEF BackgroundInit, BackgroundFlags
  <2>4. BackgroundSound
    <3>1. BackgroundInit  BY DEF MainInit
    <3> QED
      BY <2>3, <3>1, BackgroundAssumption DEF BackgroundAssumption, BackgroundInit, BackgroundSound,
         BackgroundTypeOK, BackgroundFlags, IntervalGoesOn, OneRun, EndsInOrder
  <2>5. /\ checking \in BOOLEAN /\ found \in BOOLEAN /\ fetching \in BOOLEAN
        /\ file \in BOOLEAN /\ installing \in BOOLEAN /\ disturbed \in BOOLEAN
        /\ ~installing /\ ~file
    BY Zenon DEF MainInit, UpdateInit
  <2>6. UpdateInv  BY <2>5 DEF MainInit, UpdateInit, UpdateInv, AppUpdateTypeOK
  <2> QED  BY <2>1, <2>2, <2>4, <2>6 DEF ShellInv
<1>2. ShellInv /\ [MainNext]_<<part, vars, workerVars, poolVars, torVars, linkStateVars,
                     backVars, updateVars>> => ShellInv'
  <2> SUFFICES ASSUME ShellInv, [MainNext]_<<part, vars, workerVars, poolVars, torVars,
                                    linkStateVars, backVars, updateVars>>
               PROVE  ShellInv'
    OBVIOUS
  <2>1. [OnionLinkNext]_linkStateVars /\ [BackgroundNext]_backVars /\ [AppUpdateNext]_updateVars
    BY ShellSteps
  <2> QED  BY <2>1, LinkFlagTypes, LinkStep, BackgroundStep, UpdateStep DEF ShellInv
<1>3. ShellInv => ShellSound
  BY LinkFollows DEF ShellInv, UpdateInv, ShellSound, AppUpdateSound, ReadyToInstall
<1> QED  BY <1>1, <1>2, <1>3, PTL DEF MainSpec

=============================================================================
