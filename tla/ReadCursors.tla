---------------------------- MODULE ReadCursors -----------------------------
(***************************************************************************)
(* Read receipts of a conversation of two (ChatView.tsx, App.tsx           *)
(* handleSendReadReceipt, storage/receiptStore.ts, the receipts of         *)
(* syncEngine.ts and messageStore.ts).                                     *)
(*                                                                         *)
(* A message that comes into view puts the reader's own cursor and, not    *)
(* more often than the throttle allows, an envelope tells it to the peer,  *)
(* who puts the reader's cursor in turn: when it arrives, and again each   *)
(* time the peer's log is replayed.  A put reads the cursor, writes the    *)
(* greater one and then marks the message, in a transaction each, so that  *)
(* puts of one device may overlap.                                         *)
(*                                                                         *)
(* Abstracted: a message is its time stamp, and so is the envelope that    *)
(* tells it; how envelopes travel (Outbox, SyncFlow) and are opened        *)
(* (Conversation), which the reader cannot do with its own; window focus,  *)
(* scrolling and time, which may change between any two steps.  A receipt  *)
(* of a group, to which no message can be sent, is left out.               *)
(***************************************************************************)
EXTENDS Integers, FiniteSets

CONSTANTS
    MaxTs,      \* bound: messages of the peer, numbered by their time stamps
    Puts,       \* bound: puts of one device that may overlap
    MaxRestarts \* bound: restarts of the two devices

ASSUME ReadAssumption == MaxTs \in Nat /\ MaxRestarts \in Nat

VARIABLES
    newest,     \* latestIncoming at the reader
    receipts,   \* readReceiptsEnabled of the reader's view
    viewCursor, \* readCursors of the reader's view: its own cursor
    stored,     \* receipts: the reader's cursor
    read,       \* receipts: messages with a "read" receipt of the reader
    puts,       \* the calls of sendReceipt and of putReadCursor that are under way
    cooling,    \* whether less than READ_CURSOR_THROTTLE_MS have passed since the last send
    timer,      \* readCursorThrottleTimerRef
    pending,    \* pendingReadCursorRef, 0 for none
    sentTs,     \* lastReadCursorSentTsRef
    leaving,    \* calls of sendDirectEnvelope that are under way
    mailed,     \* envelopes in the reader's log, on their way from then on
    applied,    \* those in the peer's log
    heard,      \* the newest that the peer has applied since it started
    restarts

\* History: what has come into view; whether puts of the peer overlapped; why it may not be
\* told; what its restarts kept from being put.
VARIABLES viewed, raced, causes, cut

storedVars   == <<stored, read>>
throttleVars == <<cooling, timer, pending, sentTs>>
viewVars     == <<newest, receipts, viewCursor>>
travelVars   == <<mailed, applied, heard>>
historyVars  == <<viewed, raced, causes, cut>>
cursorVars   == <<viewVars, storedVars, puts, throttleVars, leaving, travelVars, restarts,
                  historyVars>>

Owners   == {"reader", "peer"}
Stamps   == 1..MaxTs
Greater(a, b) == IF a >= b THEN a ELSE b

\* Of a call: where it is, the message it is about, and the cursor it has read.
Stages == {"idle", "check", "open", "get", "put", "mark", "tell"}
Free   == [at |-> "idle", ts |-> 0, had |-> 0]
At(where, m, c) == [at |-> where, ts |-> m, had |-> c]
\* Call s of d is at a stage, about whatever.
Is(d, s, where) == puts[d][s].at = where
Becomes(d, s, call) == puts' = [puts EXCEPT ![d][s] = call]

CursorTypeOK ==
    /\ newest \in 0..MaxTs
    /\ receipts \in BOOLEAN /\ viewCursor \in 0..MaxTs
    /\ stored \in [Owners -> 0..MaxTs] /\ read \in [Owners -> SUBSET Stamps]
    /\ puts \in [Owners -> [Puts -> [at : Stages, ts : 0..MaxTs, had : 0..MaxTs]]]
    /\ cooling \in BOOLEAN /\ timer \in {"off", "set", "due"}
    /\ pending \in 0..MaxTs /\ sentTs \in 0..MaxTs
    /\ leaving \subseteq Stamps /\ mailed \subseteq Stamps /\ applied \subseteq Stamps
    /\ heard \in 0..MaxTs /\ restarts \in 0..MaxRestarts
    /\ viewed \subseteq Stamps /\ raced \in BOOLEAN
    /\ causes \subseteq {"failed", "restarted", "overtaken"} /\ cut \subseteq Stamps

CursorInit ==
    /\ newest = 0 /\ receipts = FALSE /\ viewCursor = 0
    /\ stored = [d \in Owners |-> 0] /\ read = [d \in Owners |-> {}]
    /\ puts = [d \in Owners |-> [s \in Puts |-> Free]]
    /\ cooling = FALSE /\ timer = "off" /\ pending = 0 /\ sentTs = 0
    /\ leaving = {} /\ mailed = {} /\ applied = {} /\ heard = 0
    /\ restarts = 0 /\ viewed = {} /\ raced = FALSE /\ causes = {} /\ cut = {}

-----------------------------------------------------------------------------
\* The reader's view.  A message arrives; the preference is set, which an event tells the
\* view; every two seconds the cursors are read.
MessageArrives ==
    /\ newest' \in (newest + 1)..MaxTs
    /\ UNCHANGED <<receipts, viewCursor, storedVars, puts, throttleVars, leaving, travelVars,
                   restarts, historyVars>>

SetPreference ==
    /\ receipts' = ~receipts
    /\ UNCHANGED <<newest, viewCursor, storedVars, puts, throttleVars, leaving, travelVars,
                   restarts, historyVars>>

RefreshReadCursors ==
    /\ viewCursor' = stored["reader"]
    /\ UNCHANGED <<newest, receipts, storedVars, puts, throttleVars, leaving, travelVars, restarts,
                   historyVars>>

\* The effect with which the newest message comes into view, in a window that is active.
ComesIntoView(s) ==
    /\ receipts /\ newest > 0 /\ Is("reader", s, "idle")
    /\ Becomes("reader", s, At("check", newest, viewCursor))
    /\ viewed' = viewed \cup {newest}
    /\ UNCHANGED <<viewVars, storedVars, throttleVars, leaving, travelVars, restarts, raced,
                   causes, cut>>

\* sendReceipt: nothing, where the message has a receipt or the view's cursor has reached it.
SendReceipt(s) ==
    /\ Is("reader", s, "check")
    /\ LET c == puts["reader"][s]
       IN  Becomes("reader", s, IF c.ts \in read["reader"] \/ c.had >= c.ts
                                THEN Free ELSE At("get", c.ts, 0))
    /\ UNCHANGED <<viewVars, storedVars, throttleVars, leaving, travelVars, restarts,
                   historyVars>>

-----------------------------------------------------------------------------
\* putReadCursor, of either side.
GetCursor(d, s) ==
    /\ Is(d, s, "get")
    /\ Becomes(d, s, At("put", puts[d][s].ts, stored[d]))
    /\ UNCHANGED <<viewVars, storedVars, throttleVars, leaving, travelVars, restarts,
                   historyVars>>

\* The mutant: the cursor is what came last.
LastCursor(c) == c.ts

NextCursor(c) == Greater(c.had, c.ts)

PutCursor(d, s) ==
    /\ Is(d, s, "put")
    /\ stored' = [stored EXCEPT ![d] = NextCursor(puts[d][s])]
    /\ Becomes(d, s, At("mark", puts[d][s].ts, 0))
    /\ raced' = (raced \/ (d = "peer" /\ \E t \in Puts \ {s} : Is(d, t, "put")))
    /\ cut' = IF d = "peer" THEN cut \ {puts[d][s].ts} ELSE cut
    /\ UNCHANGED <<viewVars, read, throttleVars, leaving, travelVars, restarts, viewed, causes>>

PutMark(d, s) ==
    /\ Is(d, s, "mark")
    /\ read' = [read EXCEPT ![d] = @ \cup {puts[d][s].ts}]
    /\ Becomes(d, s, IF d = "peer" THEN Free ELSE At("tell", puts[d][s].ts, 0))
    /\ UNCHANGED <<viewVars, stored, throttleVars, leaving, travelVars, restarts, historyVars>>

-----------------------------------------------------------------------------
\* sendNow: the time and the cursor are noted before the envelope is sent.
SendNow(m) ==
    /\ cooling' = TRUE /\ sentTs' = m
    /\ leaving' = leaving \cup {m}

\* The rest of handleSendReadReceipt, once the reader's own cursor has been put.
Throttle(s) ==
    /\ Is("reader", s, "tell") /\ Becomes("reader", s, Free)
    /\ LET m == puts["reader"][s].ts
       IN  \/ m <= sentTs /\ UNCHANGED <<throttleVars, leaving, causes>>
           \/ /\ m > sentTs /\ cooling
              /\ pending' = Greater(pending, m)
              /\ timer' = IF timer = "off" THEN "set" ELSE timer
              /\ UNCHANGED <<cooling, sentTs, leaving, causes>>
           \/ /\ m > sentTs /\ ~cooling
              /\ pending' = 0 /\ SendNow(m)
              /\ causes' = IF pending > m THEN causes \cup {"overtaken"} ELSE causes
              /\ UNCHANGED timer
    /\ UNCHANGED <<viewVars, storedVars, travelVars, restarts, viewed, raced, cut>>

\* The time of the throttle passes, and its timer is due.
Cool ==
    /\ cooling /\ cooling' = FALSE
    /\ timer' = IF timer = "set" THEN "due" ELSE timer
    /\ UNCHANGED <<viewVars, storedVars, puts, pending, sentTs, leaving, travelVars, restarts,
                   historyVars>>

TimerFires ==
    /\ timer = "due" /\ timer' = "off" /\ pending' = 0
    /\ IF pending > sentTs THEN SendNow(pending) ELSE UNCHANGED <<cooling, sentTs, leaving>>
    /\ UNCHANGED <<viewVars, storedVars, puts, travelVars, restarts, historyVars>>

\* sendDirectEnvelope saves the envelope and hands it to the outbox; a failure is logged.
SendEnvelope(m) ==
    /\ m \in leaving /\ leaving' = leaving \ {m}
    /\ \/ mailed' = mailed \cup {m} /\ UNCHANGED causes
       \/ causes' = causes \cup {"failed"} /\ UNCHANGED mailed
    /\ UNCHANGED <<viewVars, storedVars, puts, throttleVars, applied, heard, restarts, viewed,
                   raced, cut>>

-----------------------------------------------------------------------------
\* handleIncoming of the peer.  What is not newer than the newest one heard of is dropped,
\* and what is in the log is not applied again.
ReceiveReceipt(s, m) ==
    /\ m \in mailed /\ m > heard /\ Is("peer", s, "idle")
    /\ IF m \in applied THEN heard' = m /\ UNCHANGED puts
       ELSE Becomes("peer", s, At("open", m, 0)) /\ UNCHANGED heard
    /\ UNCHANGED <<viewVars, storedVars, throttleVars, leaving, mailed, applied, restarts,
                   historyVars>>

\* It is opened, kept in the log and applied; or it cannot be opened.
OpenReceipt(s) ==
    /\ Is("peer", s, "open")
    /\ LET m == puts["peer"][s].ts
       IN  \/ /\ applied' = applied \cup {m} /\ heard' = Greater(heard, m)
              /\ Becomes("peer", s, At("get", m, 0))
           \/ Becomes("peer", s, Free) /\ UNCHANGED <<applied, heard>>
    /\ UNCHANGED <<viewVars, storedVars, throttleVars, leaving, mailed, restarts, historyVars>>

\* handleBody of loadConversationMessages: a hydration goes through the whole log again.
ReplayReceipt(s, m) ==
    /\ m \in applied /\ Is("peer", s, "idle")
    /\ Becomes("peer", s, At("get", m, 0))
    /\ UNCHANGED <<viewVars, storedVars, throttleVars, leaving, travelVars, restarts,
                   historyVars>>

-----------------------------------------------------------------------------
\* What is in memory is gone after a restart.
CallsAt(d, stages) == {s \in Puts : puts[d][s].at \in stages}

Restarts(d) ==
    /\ restarts < MaxRestarts /\ restarts' = restarts + 1
    /\ puts' = [puts EXCEPT ![d] = [s \in Puts |-> Free]]
    /\ UNCHANGED <<newest, receipts, storedVars, mailed, applied, viewed, raced>>

ReaderRestarts ==
    /\ Restarts("reader") /\ viewCursor' = 0
    /\ cooling' = FALSE /\ timer' = "off" /\ pending' = 0 /\ sentTs' = 0 /\ leaving' = {}
    /\ causes' = IF pending # 0 \/ leaving # {} \/ CallsAt("reader", {"mark", "tell"}) # {}
                 THEN causes \cup {"restarted"} ELSE causes
    /\ UNCHANGED <<heard, cut>>

PeerRestarts ==
    /\ Restarts("peer") /\ heard' = 0
    /\ cut' = cut \cup {puts["peer"][s].ts : s \in CallsAt("peer", {"get", "put"})}
    /\ UNCHANGED <<viewCursor, throttleVars, leaving, causes>>

\* What happens at the reader, and what at the peer; what is mailed is all they share.
ReaderNext ==
    \/ MessageArrives \/ SetPreference \/ RefreshReadCursors \/ Cool \/ TimerFires
    \/ \E s \in Puts : \/ ComesIntoView(s) \/ SendReceipt(s) \/ Throttle(s)
                        \/ GetCursor("reader", s) \/ PutCursor("reader", s)
                        \/ PutMark("reader", s)
    \/ \E m \in Stamps : SendEnvelope(m)
    \/ ReaderRestarts

PeerNext ==
    \/ \E s \in Puts : \/ OpenReceipt(s) \/ GetCursor("peer", s) \/ PutCursor("peer", s)
                        \/ PutMark("peer", s)
                        \/ \E m \in Stamps : ReceiveReceipt(s, m) \/ ReplayReceipt(s, m)
    \/ PeerRestarts

CursorNext == ReaderNext \/ PeerNext
CursorSpec == CursorInit /\ [][CursorNext]_cursorVars

-----------------------------------------------------------------------------
\* What the reader's device takes for read.
OwnRead == read["reader"] \cup ({stored["reader"]} \ {0})

\* The messages that the peer's view shows as read once it has refreshed, with read receipts
\* on: those with a receipt, and those up to the cursor (resolveMessageDeliveryStatus).
ShownAsRead == read["peer"] \cup 1..stored["peer"]

\* The peer is never told of, and never shown as read, what did not come into view of the
\* reader while read receipts were on, or is older (ChatView.tsx's effect, sendNow with a
\* cursor that has waited, the replay of the log).
OnlyWhatWasViewed ==
    /\ OwnRead \cup leaving \cup mailed \subseteq viewed
    /\ \A m \in ShownAsRead : \E v \in viewed : m <= v

\* When the reader's device is at rest, the envelope of what it takes for read, or of
\* something newer, has been mailed, or there is a cause: it could not be sent, which is not
\* tried again; the program ended in between; a call for an older message came last
\* (lastReadCursorSentTsRef is set before the send, pendingReadCursorRef is not kept).
ReaderRests ==
    /\ CallsAt("reader", {"mark", "tell"}) = {} /\ leaving = {}
    /\ timer = "off"
ReadIsTold ==
    ReaderRests /\ causes = {} => \A m \in OwnRead : \E c \in mailed : m <= c

\* What the peer has applied counts: its cursor of the reader has reached it, unless the put
\* is under way or was cut off by a restart, which a replay of the log makes good, or puts
\* overlapped, of which the last to write may have read before the others wrote.
LogIsCounted ==
    \A c \in applied : \/ c <= stored["peer"] \/ c \in cut \/ raced
                       \/ \E s \in CallsAt("peer", {"get", "put"}) : puts["peer"][s].ts = c

CursorsSound == CursorTypeOK /\ OnlyWhatWasViewed /\ ReadIsTold /\ LogIsCounted
=============================================================================
