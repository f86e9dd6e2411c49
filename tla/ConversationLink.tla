------------------------- MODULE ConversationLink --------------------------
(***************************************************************************)
(* The transport of one conversation (net/transportManager.ts) over the    *)
(* direct and the onion transport (net/directTransport.ts,                 *)
(* net/onionTransport.ts), with the messages that wait for it (db/repo.ts).*)
(*                                                                         *)
(* An attempt to connect closes the old transport, asks whether a direct   *)
(* connection is approved, and tries one or two transports; each of these  *)
(* is an await, and a disconnect, a send, a retry timer or a flush of the  *)
(* waiting messages may run meanwhile.  Nothing tells the conversation     *)
(* that its transport has broken: a send finds out.                        *)
(*                                                                         *)
(* Abstracted: the times of timers, back-offs and attempts (they pass in   *)
(* any order), the batch of a flush (all that is due), the handlers and    *)
(* the rate of received frames, the signalling below (module DirectLink).  *)
(***************************************************************************)
EXTENDS Integers, FiniteSets

CONSTANTS
    Payloads,       \* what is sent in the conversation
    MaxTakes,       \* bound: attempts to connect
    MaxLinkFaults,  \* bound: failing accesses to the database
    MaxLeaves       \* bound: disconnects

ASSUME LinkAssumption == {MaxTakes, MaxLinkFaults, MaxLeaves} \subseteq Nat

Takes == 1..MaxTakes
NoLink == <<0, 0>>
Links == (Takes \X {1, 2}) \cup {NoLink}
NoFlush == [via |-> NoLink, pc |-> "none", left |-> {}, sent |-> {}, failing |-> FALSE]

VARIABLES
    active,      \* the conversation is to be connected
    take,        \* where each attempt is
    pending,     \* connectPromise: the attempt later calls join, 0 for none
    inUse,        \* the transport of the conversation
    open,        \* transports that were made and not closed
    broken,      \* those of them that no longer carry anything
    linkStatus,
    retry,       \* the retry timer runs
    leaving,     \* a disconnect waits for the transport to close
    flush,       \* the flush that runs
    sends,       \* where the send of each payload is
    via,         \* its transport
    box,         \* the waiting payloads: "none", "due", "later", "expired"
    handed,      \* payloads that a transport has taken
    ever,        \* history: transports that have connected
    overtaken,   \* history: a disconnect met an attempt
    spoilt,      \* history: an access failed for this payload
    linkFaults, leaves

takeVars == <<active, take, pending, inUse, open, linkStatus, retry>>
boxVars == <<sends, via, box, handed>>
linkVars == <<takeVars, broken, ever, leaving, flush, boxVars, overtaken, spoilt, linkFaults,
              leaves>>
Steady == <<broken, ever, spoilt, linkFaults>>

LinkTypeOK ==
    /\ take \in [Takes -> {"none", "closing", "asking", "only", "first", "second", "done"}]
    /\ pending \in Takes \cup {0} /\ inUse \in Links /\ open \subseteq Links \ {NoLink}
    /\ flush.via \in Links /\ flush.sent \subseteq flush.left /\ flush.left \subseteq Payloads
    /\ box \in [Payloads -> {"none", "due", "later", "expired"}] /\ handed \subseteq Payloads

Attempting == {a \in Takes : take[a] \notin {"none", "done"}}
Carries(l) == l \in open \ broken

-----------------------------------------------------------------------------
\* connectConversation: a running attempt is joined, or the old transport is closed and left.
Joined == active' = TRUE /\ UNCHANGED <<take, pending, inUse, open, linkStatus, retry>>

KeepOldOpen == open
CloseOld == open \ {inUse}

AttemptStarts ==
    \E a \in Takes :
        /\ take[a] = "none" /\ \A b \in 1..a - 1 : take[b] # "none"
        /\ active' = TRUE /\ retry' = FALSE
        /\ take' = [take EXCEPT ![a] = "closing"] /\ pending' = a
        /\ linkStatus' = "connecting" /\ open' = CloseOld
        /\ UNCHANGED inUse

Reconnect == IF pending # 0 THEN Joined ELSE AttemptStarts

OpenConversation ==
    /\ Reconnect
    /\ UNCHANGED <<Steady, leaving, flush, boxVars, overtaken, leaves>>

RetryFires ==
    /\ retry
    /\ IF pending = 0 THEN AttemptStarts
       ELSE active' = TRUE /\ retry' = FALSE /\ UNCHANGED <<take, pending, inUse, open, linkStatus>>
    /\ UNCHANGED <<Steady, leaving, flush, boxVars, overtaken, leaves>>

OldClosed(a) ==
    /\ take[a] = "closing"
    /\ take' = [take EXCEPT ![a] = "asking"] /\ inUse' = NoLink
    /\ UNCHANGED <<active, pending, open, linkStatus, retry, Steady, leaving, flush, boxVars,
                   overtaken, leaves>>

\* One transport to try, or a direct one first and the onion after it.
Decided(a) ==
    /\ take[a] = "asking"
    /\ \E way \in {"only", "first"} : take' = [take EXCEPT ![a] = way]
    /\ open' = open \cup {<<a, 1>>}
    /\ UNCHANGED <<active, pending, inUse, linkStatus, retry, Steady, leaving, flush, boxVars,
                   overtaken, leaves>>

LinkOf(a) == IF take[a] = "second" THEN <<a, 2>> ELSE <<a, 1>>
Trying(a) == take[a] \in {"only", "first", "second"}

LinkUp(a) ==
    /\ Trying(a)
    /\ inUse' = LinkOf(a) /\ linkStatus' = "connected"
    /\ take' = [take EXCEPT ![a] = "done"] /\ pending' = 0
    /\ flush' = IF flush.pc = "none" THEN [NoFlush EXCEPT !.via = LinkOf(a), !.pc = "list"]
                ELSE flush
    /\ ever' = ever \cup {LinkOf(a)}
    /\ UNCHANGED <<active, open, retry, broken, leaving, boxVars, overtaken, spoilt, linkFaults,
                   leaves>>

\* scheduleRetry
Retried == retry' = (retry \/ active)

LinkFails(a) ==
    /\ Trying(a)
    /\ linkStatus' = "failed"
    /\ IF take[a] = "first"
       THEN /\ take' = [take EXCEPT ![a] = "second"] /\ open' = open \cup {<<a, 2>>}
            /\ UNCHANGED <<pending, retry>>
       ELSE /\ take' = [take EXCEPT ![a] = "done"] /\ pending' = 0
            /\ Retried
            /\ UNCHANGED open
    /\ UNCHANGED <<active, inUse, Steady, leaving, flush, boxVars, overtaken, leaves>>

\* disconnectConversation, up to the transport's close and after it.
LeaveBegins ==
    /\ leaves < MaxLeaves /\ ~leaving
    /\ leaves' = leaves + 1 /\ leaving' = TRUE
    /\ active' = FALSE /\ retry' = FALSE /\ open' = CloseOld
    /\ overtaken' = (overtaken \/ Attempting # {})
    /\ UNCHANGED <<take, pending, inUse, linkStatus, Steady, flush, boxVars>>

LeaveEnds ==
    /\ leaving
    /\ leaving' = FALSE
    /\ inUse' = NoLink /\ pending' = 0 /\ linkStatus' = "idle"
    /\ overtaken' = (overtaken \/ Attempting # {} \/ inUse \in open)
    /\ UNCHANGED <<active, take, open, retry, Steady, flush, boxVars, leaves>>

LinkBreaks ==
    /\ inUse \in open \ broken
    /\ broken' = broken \cup {inUse}
    /\ UNCHANGED <<takeVars, leaving, flush, boxVars, ever, overtaken, spoilt, linkFaults, leaves>>

-----------------------------------------------------------------------------
\* sendToConversation: over the transport, or into the outbox.
Send(m) ==
    /\ sends[m] = "none"
    /\ IF inUse = NoLink \/ linkStatus # "connected"
       THEN sends' = [sends EXCEPT ![m] = "queue"] /\ UNCHANGED via
       ELSE sends' = [sends EXCEPT ![m] = "send"] /\ via' = [via EXCEPT ![m] = inUse]
    /\ UNCHANGED <<takeVars, Steady, leaving, flush, box, handed, overtaken, leaves>>

SendTaken(m) ==
    /\ sends[m] = "send" /\ Carries(via[m])
    /\ sends' = [sends EXCEPT ![m] = "done"] /\ handed' = handed \cup {m}
    /\ via' = [via EXCEPT ![m] = NoLink]
    /\ UNCHANGED <<takeVars, Steady, leaving, flush, box, overtaken, leaves>>

SendRefused(m) ==
    /\ sends[m] = "send" /\ ~Carries(via[m])
    /\ sends' = [sends EXCEPT ![m] = "requeue"] /\ via' = [via EXCEPT ![m] = NoLink]
    /\ UNCHANGED <<takeVars, Steady, leaving, flush, box, handed, overtaken, leaves>>

\* enqueueOutbox, and what follows it: an attempt, or the retry timer.
PutAside(m) ==
    /\ sends[m] \in {"queue", "requeue"}
    /\ box' = [box EXCEPT ![m] = "due"] /\ sends' = [sends EXCEPT ![m] = "done"]
    /\ IF sends[m] = "queue" THEN Reconnect
       ELSE Retried /\ UNCHANGED <<active, take, pending, inUse, open, linkStatus>>
    /\ UNCHANGED <<Steady, leaving, flush, via, handed, overtaken, leaves>>

Fails(m) == /\ linkFaults < MaxLinkFaults
            /\ linkFaults' = linkFaults + 1 /\ spoilt' = spoilt \cup {m}

\* The vault is locked, or the database fails: the caller is told.
QueueFails(m) ==
    /\ sends[m] \in {"queue", "requeue"}
    /\ Fails(m)
    /\ sends' = [sends EXCEPT ![m] = "refused"]
    /\ UNCHANGED <<takeVars, broken, ever, leaving, flush, via, box, handed, overtaken, leaves>>

-----------------------------------------------------------------------------
\* flushConversationOutbox: what has expired is dropped, what is due is listed ...
FlushLists ==
    /\ flush.pc = "list"
    /\ \E old \in SUBSET {m \in Payloads : box[m] \in {"due", "later"}} :
          /\ box' = [m \in Payloads |-> IF m \in old THEN "expired" ELSE box[m]]
          /\ flush' = [flush EXCEPT !.pc = "send", !.left = {m \in Payloads : box'[m] = "due"}]
    /\ UNCHANGED <<takeVars, Steady, leaving, sends, via, handed, overtaken, leaves>>

\* ... and sent one by one: taken and removed, or left for later.
FlushSends(m) ==
    /\ flush.pc = "send" /\ flush.sent = {} /\ m \in flush.left /\ Carries(flush.via)
    /\ handed' = handed \cup {m}
    /\ flush' = [flush EXCEPT !.sent = {m}]
    /\ UNCHANGED <<takeVars, Steady, leaving, sends, via, box, overtaken, leaves>>

FlushRemoves(m) ==
    /\ m \in flush.sent
    /\ box' = [box EXCEPT ![m] = "none"]
    /\ flush' = [flush EXCEPT !.sent = {}, !.left = @ \ {m}]
    /\ UNCHANGED <<takeVars, Steady, leaving, sends, via, handed, overtaken, leaves>>

\* The removal is within the try of the send: if it fails, so has the send.
Postponed(m) ==
    /\ flush' = [flush EXCEPT !.sent = {}, !.left = @ \ {m}, !.failing = TRUE]
    /\ box' = [box EXCEPT ![m] = "later"]
    /\ UNCHANGED <<takeVars, broken, ever, leaving, sends, via, handed, overtaken, leaves>>

FlushRefused(m) ==
    /\ flush.pc = "send" /\ flush.sent = {} /\ m \in flush.left /\ ~Carries(flush.via)
    /\ Postponed(m) /\ UNCHANGED <<spoilt, linkFaults>>

RemovalFails(m) ==
    /\ m \in flush.sent
    /\ Fails(m) /\ Postponed(m)

FlushEnds ==
    /\ flush.pc = "send" /\ flush.left = {}
    /\ flush' = NoFlush
    /\ IF flush.failing THEN Retried ELSE UNCHANGED retry
    /\ UNCHANGED <<active, take, pending, inUse, open, linkStatus, Steady, leaving, boxVars,
                   overtaken, leaves>>

\* The listing or the mark of a postponed one fails: the flush is over, and no retry follows.
FlushBreaks(m) ==
    /\ \/ flush.pc = "list"
       \/ m \in flush.sent
       \/ flush.sent = {} /\ m \in flush.left /\ ~Carries(flush.via)
    /\ Fails(m)
    /\ flush' = NoFlush
    /\ UNCHANGED <<takeVars, broken, ever, leaving, boxVars, overtaken, leaves>>

PayloadDue(m) ==
    /\ box[m] = "later"
    /\ box' = [box EXCEPT ![m] = "due"]
    /\ UNCHANGED <<takeVars, Steady, leaving, flush, sends, via, handed, overtaken, leaves>>

-----------------------------------------------------------------------------
LinkInit ==
    /\ active = FALSE /\ take = [a \in Takes |-> "none"] /\ pending = 0
    /\ inUse = NoLink /\ open = {} /\ broken = {} /\ linkStatus = "idle" /\ retry = FALSE
    /\ leaving = FALSE /\ flush = NoFlush
    /\ sends = [m \in Payloads |-> "none"] /\ via = [m \in Payloads |-> NoLink]
    /\ box = [m \in Payloads |-> "none"] /\ handed = {}
    /\ ever = {} /\ overtaken = FALSE /\ spoilt = {} /\ linkFaults = 0 /\ leaves = 0

LinkNext ==
    \/ OpenConversation \/ RetryFires \/ LeaveBegins \/ LeaveEnds \/ LinkBreaks
    \/ FlushLists \/ FlushEnds
    \/ \E a \in Takes : OldClosed(a) \/ Decided(a) \/ LinkUp(a) \/ LinkFails(a)
    \/ \E m \in Payloads :
          \/ Send(m) \/ SendTaken(m) \/ SendRefused(m) \/ PutAside(m) \/ QueueFails(m)
          \/ FlushSends(m) \/ FlushRemoves(m) \/ FlushRefused(m) \/ RemovalFails(m)
          \/ FlushBreaks(m) \/ PayloadDue(m)

LinkSpec == LinkInit /\ [][LinkNext]_linkVars

-----------------------------------------------------------------------------
\* A payload whose send has returned was taken by a transport, waits, or has expired waiting.
NothingDropped ==
    \A m \in Payloads : sends[m] = "done" => m \in handed \/ box[m] # "none"

\* One that was taken waits to be sent again only while the flush removes it, or after a fault.
TwiceHasCause ==
    \A m \in Payloads : m \in handed /\ box[m] \in {"due", "later"} =>
                            m \in flush.sent \cup spoilt

\* A transport that connected and is not the conversation's was closed, unless a disconnect met
\* a running attempt; one that never connected is not closed at all.
OneLinkOpen == overtaken \/ open \cap ever \subseteq {inUse}

\* A conversation that failed to connect will try again, until it is left.
FailedIsRetried ==
    /\ retry => active
    /\ linkStatus = "failed" /\ active /\ Attempting = {} => retry \/ leaving

LinkSound == LinkTypeOK /\ NothingDropped /\ TwiceHasCause /\ OneLinkOpen /\ FailedIsRetried
=============================================================================
