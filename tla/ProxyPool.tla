----------------------------- MODULE ProxyPool -----------------------------
(***************************************************************************)
(* The pool of Tor proxies in main/onionController.ts:                     *)
(* setTorSocksProxies, selectTorProxy and prewarmTorRoute.                 *)
(*                                                                         *)
(* The two Tor managers report their proxies at any time, each report      *)
(* calls setTorSocksProxies (main.ts), and a call waits for the worker to  *)
(* clear each proxy it drops, which may fail.  A probe waits for the first *)
(* proxy that reaches the address.  Calls and probes overlap.              *)
(*                                                                         *)
(* Abstracted: one address is probed, and a success stays cached until it  *)
(* is cleared, or is too old (`CacheExpires`).                             *)
(***************************************************************************)
EXTENDS Naturals, Sequences, FiniteSets

CONSTANTS
    Proxies,    \* the URLs of proxies
    MaxReports, \* bound: reports of the Tor managers
    MaxProbes   \* bound: probes

ASSUME PoolAssumption ==
    IsFiniteSet(Proxies) /\ MaxReports \in Nat /\ MaxProbes \in Nat

VARIABLES
    pool,       \* torForwarding.proxyUrls
    nextProxy,  \* torForwarding.nextProxyIndex
    stored,     \* history: the list the last finished call has stored
    latest,     \* history: the list of the last report
    calls,      \* calls of setTorSocksProxies that wait for the worker
    probes,     \* probes that wait for a proxy
    warm,       \* torPrewarmSuccess holds a success
    reports, probed, overlapped, clearFailed   \* history and bounds

poolVars == <<pool, nextProxy, stored, latest, calls, probes, warm, reports, probed,
              overlapped, clearFailed>>

Lists == {s \in UNION {[1..n -> Proxies] : n \in 0..2} : Len(s) = 2 => s[1] # s[2]}
Members(list) == {list[i] : i \in DOMAIN list}

PoolCall  == [rank : Nat, list : Lists, drop : SUBSET Proxies]
Probe == [over : SUBSET Proxies, known : BOOLEAN]   \* known: still in torPrewarmInFlight

PoolTypeOK ==
    /\ pool \in Lists /\ stored \in Lists /\ latest \in Lists
    /\ nextProxy = 0 \/ nextProxy \in 1..(Len(pool) - 1)
    /\ calls \subseteq PoolCall
    /\ probes \subseteq Probe
    /\ reports \in 0..MaxReports /\ probed \in 0..MaxProbes
    /\ warm \in BOOLEAN /\ overlapped \in BOOLEAN /\ clearFailed \in BOOLEAN

-----------------------------------------------------------------------------
StoreKeepsIndex(list) == pool' = list /\ stored' = list /\ UNCHANGED nextProxy
Store(list) ==
    /\ pool' = list /\ stored' = list
    /\ nextProxy' = 0

\* setTorSocksProxies up to its first await, or to its end when it drops nothing.
ForgetProbes(list) ==
    IF list # pool THEN warm' = FALSE /\ probes' = {[p EXCEPT !.known = FALSE] : p \in probes}
    ELSE UNCHANGED <<warm, probes>>

\* Without a proxy to clear the list is stored at once.
SkipStore(list) == UNCHANGED <<pool, stored, nextProxy>>
NothingToClear(list) == Store(list)

Report(list) ==
    LET drop == Members(pool) \ Members(list)
    IN  /\ reports < MaxReports
        /\ reports' = reports + 1
        /\ latest' = list
        /\ ForgetProbes(list)
        /\ overlapped' = (overlapped \/ calls # {})
        /\ IF drop = {}
           THEN NothingToClear(list) /\ UNCHANGED calls
           ELSE /\ calls' = calls \cup {[rank |-> reports, list |-> list, drop |-> drop]}
                /\ UNCHANGED <<pool, nextProxy, stored>>
        /\ UNCHANGED <<probed, clearFailed>>

\* The worker has cleared a proxy; after the last one the list is stored.
Cleared(call, proxy) ==
    /\ call \in calls /\ proxy \in call.drop
    /\ IF call.drop = {proxy}
       THEN calls' = calls \ {call} /\ Store(call.list)
       ELSE /\ calls' = (calls \ {call}) \cup {[call EXCEPT !.drop = @ \ {proxy}]}
            /\ UNCHANGED <<pool, nextProxy, stored>>
    /\ UNCHANGED <<latest, probes, warm, reports, probed, overlapped, clearFailed>>

\* The worker is gone or does not answer: the call ends without storing its list.
ClearFails(call) ==
    /\ call \in calls
    /\ calls' = calls \ {call}
    /\ clearFailed' = TRUE
    /\ UNCHANGED <<pool, nextProxy, stored, latest, probes, warm, reports, probed, overlapped>>

\* selectTorProxy, for every request that goes out.
Selected == IF pool = <<>> THEN {} ELSE {pool[(nextProxy % Len(pool)) + 1]}

SelectTorProxy ==
    /\ pool # <<>>
    /\ nextProxy' = (nextProxy + 1) % Len(pool)
    /\ UNCHANGED <<pool, stored, latest, calls, probes, warm, reports, probed, overlapped,
                   clearFailed>>

\* prewarmTorRoute, unless a success is cached or a probe is under way.
Prewarm ==
    /\ pool # <<>> /\ ~warm
    /\ ~\E p \in probes : p.known
    /\ probed < MaxProbes
    /\ probed' = probed + 1
    /\ probes' = probes \cup {[over |-> Members(pool), known |-> TRUE]}
    /\ UNCHANGED <<pool, nextProxy, stored, latest, calls, warm, reports, overlapped, clearFailed>>

\* The first proxy answers and goes first, if it is still in the pool.
FirstEvenIfGone(winner) ==
    <<winner>> \o SelectSeq(pool, LAMBDA proxy : proxy # winner)
Place(winner) == CHOOSE i \in DOMAIN pool : pool[i] = winner
First(winner) ==
    IF winner \in Members(pool)
    THEN [i \in DOMAIN pool |->
             CASE i = 1 -> winner
               [] i > 1 /\ i <= Place(winner) -> pool[i - 1]
               [] OTHER -> pool[i]]
    ELSE pool

ProbeWins(probe, winner) ==
    /\ probe \in probes /\ winner \in probe.over
    /\ probes' = probes \ {probe}
    /\ warm' = TRUE
    /\ pool' = First(winner)
    /\ nextProxy' = 0
    /\ UNCHANGED <<stored, latest, calls, reports, probed, overlapped, clearFailed>>

ProbeFails(probe) ==
    /\ probe \in probes
    /\ probes' = probes \ {probe}
    /\ UNCHANGED <<pool, nextProxy, stored, latest, calls, warm, reports, probed, overlapped,
                   clearFailed>>

CacheExpires ==
    /\ warm
    /\ warm' = FALSE
    /\ UNCHANGED <<pool, nextProxy, stored, latest, calls, probes, reports, probed, overlapped,
                   clearFailed>>

PoolInit ==
    /\ pool = <<>> /\ stored = <<>> /\ latest = <<>> /\ nextProxy = 0
    /\ calls = {} /\ probes = {} /\ warm = FALSE
    /\ reports = 0 /\ probed = 0 /\ overlapped = FALSE /\ clearFailed = FALSE

Clearing == \E call \in calls : ClearFails(call) \/ \E proxy \in Proxies : Cleared(call, proxy)

PoolNext ==
    \/ \E list \in Lists : Report(list)
    \/ Clearing
    \/ SelectTorProxy \/ Prewarm \/ CacheExpires
    \/ \E probe \in probes :
           ProbeFails(probe) \/ \E winner \in Proxies : ProbeWins(probe, winner)

PoolSpec == PoolInit /\ [][PoolNext]_poolVars

-----------------------------------------------------------------------------
\* What goes out uses a proxy of the list that was stored last: a probe of an earlier
\* list that ends late, and an index that is kept from a longer list, never bring a
\* dropped proxy back.
OnlyStoredProxies == Members(pool) = Members(stored) /\ Selected \subseteq Members(stored)

\* As long as no call has overtaken another and the worker has cleared what it was asked
\* to, the pool is what the Tor managers have reported last.  (Otherwise an earlier
\* report may be stored after a later one, or a failing one leave dead proxies in the
\* pool, until the next report.)
PoolFollowsReports ==
    calls = {} /\ ~overlapped /\ ~clearFailed => Members(pool) = Members(latest)

\* Whatever reports and probes overlap, requests go to proxies that were reported, and the
\* pool ends as the newest report has it.
PoolSound == PoolTypeOK /\ OnlyStoredProxies /\ PoolFollowsReports
=============================================================================
