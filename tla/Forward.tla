------------------------------- MODULE Forward -------------------------------
(***************************************************************************)
(* The transport and the forwarding of the native worker (transport.go,    *)
(* forward.go and the SOCKS dialler of queue.go), with the requests for    *)
(* them (main/socksHttpClient.ts).                                         *)
(*                                                                         *)
(* Every request has a goroutine of its own and waits for one of a few     *)
(* slots.  It goes through the client of its proxy, over a tunnel that is  *)
(* idle or is dialled.  A forwarded message that was not answered with     *)
(* success is given to the offline queue, which sends it again.            *)
(*                                                                         *)
(* Abstracted: the queue's file, order and delays (module OfflineQueue),   *)
(* the peer's limits (module OnionInbox), bodies, headers, delays.         *)
(***************************************************************************)
EXTENDS Integers, FiniteSets

CONSTANTS
    Forwards,     \* requests, numbered from 1: bound of a behaviour
    Socks,        \* proxies
    Slots,        \* transportMaxInflight (8)
    FetchTries,   \* transportMaxRetryAttempts (3)
    MaxClears,    \* bound: calls of clearProxy
    MaxDeaths     \* bound: deaths of the worker

ASSUME ForwardAssumption ==
    /\ Forwards \subseteq Nat /\ Slots \in Nat \ {0} /\ FetchTries \in Nat \ {0}
    /\ MaxClears \in Nat /\ MaxDeaths \in Nat

VARIABLES
    fwd,        \* the requests
    slots,      \* slots that are taken
    engine,     \* the number of the client of a proxy, 0 for none
    made,       \* clients so far
    idle,       \* clients with an idle tunnel
    opened,     \* whether the worker has its queue
    postponed,  \* the offline queue: the id of a message and its request
    ingested,   \* what the peer has in its inbox
    settled,    \* requests whose message has left the queue
    cleared,    \* history: the clients of a proxy up to this one were forgotten
    clears, deaths

poolStateVars == <<slots, engine, made, idle, cleared>>
fwdVars == <<fwd, poolStateVars, opened, postponed, ingested, settled, clears, deaths>>

Why == {"timeout", "refused", "closed", "reset", "invalid", "none", "host_unreachable",
        "network_unreachable", "other"}
Cause == {"request", "route", "proxy", "proxy_connect", "socks", "socks_reply", "http",
          "status"} \X Why
NoCause == <<"route", "none">>

\* How the dialling of a proxy may fail (dialSOCKSContext): the connection, the handshake,
\* authentication or request, the proxy's reply; and how an exchange may, which an answer that
\* is too large is to the codes, too.  A deadline of the whole request hides its step.
DialErrors ==
    ({"proxy_connect"} \X {"refused", "timeout"})
        \cup ({"socks"} \X {"closed", "timeout"})
        \cup ({"socks_reply"} \X {"host_unreachable", "network_unreachable", "refused", "other"})
        \cup {<<"http", "timeout">>}
PostErrors == {"http"} \X {"timeout", "reset", "closed"}

Places == {"unasked", "waiting", "trying", "posting", "taken", "failed", "ended"}
Unasked == [kind |-> "forward", at |-> "unasked", via |-> "none", client |-> 0, since |-> 0,
            tries |-> 0, cause |-> NoCause, answer |-> "none"]

Holding == {c \in Forwards : fwd[c].at \in {"trying", "posting", "taken"}}
Forwarded(kind) == {c \in Forwards : fwd[c].answer = kind}

ForwardTypeOK ==
    /\ \A c \in Forwards : fwd[c].at \in Places /\ fwd[c].cause \in Cause
    /\ slots \in 0..Slots /\ made \in Nat /\ engine \in [Socks -> 0..made]
    /\ idle \subseteq 1..made /\ opened \in BOOLEAN

-----------------------------------------------------------------------------
\* normalizeTransportError.
TransportCode(e) ==
    CASE e[2] = "timeout" ->
             CASE e[1] = "proxy_connect" -> "proxy_connect_timeout"
               [] e[1] = "socks" -> "socks_handshake_timeout"
               [] OTHER -> "upstream_response_timeout"
      [] e[2] # "timeout" /\ e[1] = "proxy_connect" -> "proxy_unreachable"
      [] e[2] # "timeout" /\ e[1] = "socks" -> "socks_handshake_failed"
      [] OTHER -> e[2]

\* normalizeForwardError, of what the transport has made of an error.
ForwardCode(code) ==
    CASE code \in {"proxy_connect_timeout", "socks_handshake_timeout",
                   "upstream_response_timeout"} -> code
      [] code = "host_unreachable" -> "onion_descriptor_unavailable"
      [] code = "network_unreachable" -> "tor_network_unreachable"
      [] code = "refused" -> "onion_service_refused"
      [] code = "invalid" -> "handshake_failed"
      [] code = "reset" -> "proxy_unreachable"
      [] OTHER -> "upstream_error"

\* The code that the sender is told.  A status that is no success has one of its own.
CodeOf(e) ==
    CASE e = NoCause -> "no_route"
      [] e[1] = "status" -> "upstream_error"
      [] OTHER -> ForwardCode(TransportCode(e))

Ends(c, answer, cause) ==
    [fwd EXCEPT ![c].at = "ended", ![c].client = 0, ![c].since = 0, ![c].tries = 0,
                ![c].cause = cause,
                ![c].answer = IF @ = "none" THEN answer ELSE @]

-----------------------------------------------------------------------------
\* The checks of forwardOnion and of fetch before a slot is asked for: an invalid request is
\* refused, one without a proxy has no route, one with a malformed proxy fails.
AskForward(c) ==
    /\ fwd[c].at = "unasked"
    /\ \/ fwd' = Ends(c, "failed", <<"request", "invalid">>)
       \/ fwd' = [fwd EXCEPT ![c].at = "failed"]
       \/ fwd' = [fwd EXCEPT ![c].at = "failed", ![c].cause = <<"proxy", "invalid">>]
       \/ \E p \in Socks : fwd' = [fwd EXCEPT ![c].at = "waiting", ![c].via = p,
                                              ![c].tries = 1]
    /\ UNCHANGED <<poolStateVars, opened, postponed, ingested, settled, clears, deaths>>

AskFetch(c) ==
    /\ fwd[c].at = "unasked"
    /\ \E p \in Socks :
           fwd' = [fwd EXCEPT ![c].kind = "fetch", ![c].at = "waiting", ![c].via = p,
                              ![c].tries = FetchTries]
    /\ UNCHANGED <<poolStateVars, opened, postponed, ingested, settled, clears, deaths>>

\* clientFor, once there is a slot.
TakeSlot(c) ==
    LET p == fwd[c].via
        client == IF engine[p] = 0 THEN made + 1 ELSE engine[p]
    IN /\ fwd[c].at = "waiting"
       /\ slots < Slots /\ slots' = slots + 1
       /\ engine' = [engine EXCEPT ![p] = client]
       /\ made' = IF engine[p] = 0 THEN client ELSE made
       /\ fwd' = [fwd EXCEPT ![c].at = "trying", ![c].client = client,
                             ![c].since = cleared[p]]
       /\ UNCHANGED <<idle, cleared, opened, postponed, ingested, settled, clears, deaths>>

\* The request goes over a tunnel that is idle, or over a new one.
Connects(c) ==
    /\ fwd[c].at = "trying"
    /\ fwd' = [fwd EXCEPT ![c].at = "posting"]
    /\ idle' = idle \ {fwd[c].client}
    /\ UNCHANGED <<slots, engine, made, cleared, opened, postponed, ingested, settled, clears,
                   deaths>>

\* An attempt has failed: the next one in the same slot, or the end of the fetch.
AttemptFails(c, e) ==
    /\ IF fwd[c].tries > 1
         THEN /\ fwd' = [fwd EXCEPT ![c].at = "trying", ![c].tries = @ - 1]
              /\ UNCHANGED slots
         ELSE /\ fwd' = IF fwd[c].kind = "fetch" THEN Ends(c, "failed", NoCause)
                        ELSE [fwd EXCEPT ![c].at = "failed", ![c].cause = e]
              /\ slots' = slots - 1
    /\ UNCHANGED <<engine, made, idle, cleared, opened, postponed, ingested, settled, clears,
                   deaths>>

DialFails(c) == fwd[c].at = "trying" /\ \E e \in DialErrors : AttemptFails(c, e)
PostFails(c) ==
    fwd[c].at \in {"posting", "taken"} /\ \E e \in PostErrors : AttemptFails(c, e)

\* The id under which a message is queued, which is the one it was sent with; the mutant makes
\* another one.
NewId(c) == Cardinality(Forwards) + c
OwnId(c) == c

\* The peer ingests what it does not have.
PeerTakes(c) ==
    /\ fwd[c].at = "posting" /\ fwd[c].kind = "forward"
    /\ ingested' = ingested \cup {[id |-> c, of |-> c]}
    /\ fwd' = [fwd EXCEPT ![c].at = "taken"]
    /\ UNCHANGED <<poolStateVars, opened, postponed, settled, clears, deaths>>

\* The answer has come and its tunnel may be used again.  A fetch takes any status.
Responds(c) ==
    /\ fwd[c].at \in {"posting", "taken"}
    /\ fwd' = CASE fwd[c].at = "taken" \/ fwd[c].kind = "fetch" ->
                       Ends(c, "forwarded", NoCause)
                [] OTHER -> [fwd EXCEPT ![c].at = "failed", ![c].cause = <<"status", "refused">>]
    /\ slots' = slots - 1
    /\ idle' = idle \cup {fwd[c].client}
    /\ UNCHANGED <<engine, made, cleared, opened, postponed, ingested, settled, clears, deaths>>

\* What could not be forwarded is queued, unless the worker has no queue; when the queue cannot
\* be written, the request is rejected and the message is in the queue all the same.
Postpones(c) ==
    /\ fwd[c].at = "failed" /\ opened
    /\ postponed' = postponed \cup {[id |-> OwnId(c), of |-> c]}
    /\ \E answer \in {"queued", "lost"} : fwd' = Ends(c, answer, fwd[c].cause)
    /\ UNCHANGED <<poolStateVars, opened, ingested, settled, clears, deaths>>

NotQueued(c) ==
    /\ fwd[c].at = "failed" /\ ~opened
    /\ fwd' = Ends(c, "failed", fwd[c].cause)
    /\ UNCHANGED <<poolStateVars, opened, postponed, ingested, settled, clears, deaths>>

\* The request of the main process times out.
CallerGivesUp(c) ==
    /\ fwd[c].at \notin {"unasked", "ended"} /\ fwd[c].answer = "none"
    /\ fwd' = [fwd EXCEPT ![c].answer = "lost"]
    /\ UNCHANGED <<poolStateVars, opened, postponed, ingested, settled, clears, deaths>>

-----------------------------------------------------------------------------
QueueOpens ==
    /\ ~opened /\ opened' = TRUE
    /\ UNCHANGED <<fwd, poolStateVars, postponed, ingested, settled, clears, deaths>>

\* A flush posts a message: the peer takes it or not, and the queue hears of it or not.
QueueSends(m) ==
    /\ opened /\ m \in postponed
    /\ \/ ingested' = {i \in ingested : i.id # m.id} \cup {m}
       \/ UNCHANGED ingested
    /\ \/ postponed' = postponed \ {m} /\ settled' = settled \cup {m.of}
       \/ UNCHANGED <<postponed, settled>>
    /\ UNCHANGED <<fwd, poolStateVars, opened, clears, deaths>>

\* clearProxy, for one proxy or all of them.
ClearsProxy(S) ==
    /\ clears < MaxClears /\ clears' = clears + 1
    /\ idle' = idle \ {engine[p] : p \in S}
    /\ engine' = [p \in Socks |-> IF p \in S THEN 0 ELSE engine[p]]
    /\ cleared' = [p \in Socks |-> IF p \in S THEN made ELSE cleared[p]]
    /\ UNCHANGED <<fwd, slots, made, opened, postponed, ingested, settled, deaths>>

\* The client rejects what is pending; the messages that were answered for are in the file.
Dies ==
    /\ deaths < MaxDeaths /\ deaths' = deaths + 1
    /\ fwd' = [c \in Forwards |->
                 IF fwd[c].at = "unasked" THEN fwd[c] ELSE Ends(c, "lost", NoCause)[c]]
    /\ slots' = 0 /\ engine' = [p \in Socks |-> 0] /\ idle' = {} /\ opened' = FALSE
    /\ postponed' \in SUBSET postponed
    /\ \A m \in postponed : fwd[m.of].answer = "queued" => m \in postponed'
    /\ UNCHANGED <<made, ingested, settled, cleared, clears>>

ForwardInit ==
    /\ fwd = [c \in Forwards |-> Unasked]
    /\ slots = 0 /\ engine = [p \in Socks |-> 0] /\ made = 0 /\ idle = {}
    /\ opened = FALSE /\ postponed = {} /\ ingested = {} /\ settled = {}
    /\ cleared = [p \in Socks |-> 0] /\ clears = 0 /\ deaths = 0

ForwardNext ==
    \/ \E c \in Forwards :
           \/ AskForward(c) \/ AskFetch(c) \/ TakeSlot(c) \/ Connects(c) \/ DialFails(c)
           \/ PostFails(c) \/ PeerTakes(c) \/ Responds(c) \/ Postpones(c) \/ NotQueued(c)
           \/ CallerGivesUp(c)
    \/ QueueOpens \/ Dies
    \/ \E m \in postponed : QueueSends(m)
    \/ \E S \in {{p} : p \in Socks} \cup {Socks} : ClearsProxy(S)

ForwardSpec == ForwardInit /\ [][ForwardNext]_fwdVars

-----------------------------------------------------------------------------
(***************************************************************************)
(* A sender who is told something may rely on it, whatever timed out, died *)
(* or was flushed meanwhile: a forwarded message was taken and will not be *)
(* sent again, a queued one is in the queue or has left it, one that       *)
(* failed will not be sent after all.                                      *)
(***************************************************************************)
AnswersTrue ==
    LET InQueue == {m.of : m \in postponed}
        Taken == {m.of : m \in ingested}
    IN \A c \in {d \in Forwards : fwd[d].kind = "forward"} :
           /\ c \in Forwarded("forwarded") => c \in Taken \ InQueue
           /\ c \in Forwarded("queued") => c \in InQueue \cup settled
           /\ c \in Forwarded("failed") => c \notin InQueue \cup settled

(***************************************************************************)
(* A message that the peer took while its answer was lost is queued and    *)
(* sent again, and the peer knows it by its id.                            *)
(***************************************************************************)
OneCopy == \A m, n \in ingested : m.of = n.of => m = n

(***************************************************************************)
(* Every way out of a fetch gives its slot back, and a request that began  *)
(* after its proxy was cleared goes over no tunnel from before.            *)
(***************************************************************************)
FetchSound ==
    /\ slots = Cardinality(Holding)
    /\ \A c \in Holding : fwd[c].client > fwd[c].since

ForwardSound == ForwardTypeOK /\ AnswersTrue /\ OneCopy /\ FetchSound

(***************************************************************************)
(* A proxy that cannot be reached is told as such, which lets the renderer *)
(* degrade the runtime and synchronise its proxies.                        *)
(***************************************************************************)
ProxyFailureTold ==
    \A c \in Forwarded("failed") \cup Forwarded("queued") :
        fwd[c].cause = <<"proxy_connect", "refused">> => CodeOf(fwd[c].cause) = "proxy_unreachable"
=============================================================================
