----------------------------- MODULE OnionInbox -----------------------------
(***************************************************************************)
(* The inboxes of the onion controller (main/onionController.ts) and the   *)
(* poller that empties the inbox of this installation's own device         *)
(* (net/onionInboxClient.ts, adapters/transports/onionRouterTransport.ts). *)
(*                                                                         *)
(* The controller is single-threaded: a request handler runs from its last *)
(* await to its answer in one step, and so does the cleanup timer.  What   *)
(* interleaves is the order of requests and answers: the poller abandons a *)
(* request on a timeout or on stop(), and the controller may still handle  *)
(* it afterwards, in any order with the later ones.                        *)
(*                                                                         *)
(* Abstracted: the envelope (only its length counts), clocks (an item      *)
(* expires at any time, and items expire in any order, since /onion/send   *)
(* chooses a ttlMs), delays, backoff and traces, the rate limit of         *)
(* /onion/ingest (an ingest it refuses changes nothing of the inboxes).    *)
(***************************************************************************)
EXTENDS Integers, Sequences, FiniteSets, SequencesExt

CONSTANTS
    Devices,         \* device ids
    Own,             \* the device the local poller asks for
    Ids,             \* message ids
    SizeOf,          \* getItemBytes of a message
    MaxItems,        \* MAX_INBOX_ITEMS
    MaxDeviceItems,  \* MAX_DEVICE_INBOX_ITEMS
    MaxBytes,        \* MAX_INBOX_BYTES
    MaxDeviceBytes,  \* MAX_DEVICE_INBOX_BYTES
    PageLimit,       \* the limit of a poll, 50 in the code
    SeenLimit,       \* MAX_SEEN_IDS
    NoCursor,        \* the cursor of a poller that has read nothing (null)
    MaxArrivals,     \* bound: items accepted for Own
    MaxOthers,       \* bound: items accepted for another device, no more than that
    MaxLate          \* bound: abandoned requests on their way

ASSUME DevicesAssumption == Own \in Devices
ASSUME SizesAssumption == SizeOf \in [Ids -> Nat \ {0}]
ASSUME LimitsAssumption ==
    /\ MaxItems \in Nat /\ MaxDeviceItems \in Nat
    /\ MaxBytes \in Nat /\ MaxDeviceBytes \in Nat
    /\ PageLimit \in Nat \ {0} /\ SeenLimit \in Nat
ASSUME NullsAssumption == NoCursor \notin Nat
ASSUME BoundsAssumption ==
    MaxArrivals \in Nat /\ MaxOthers \in 0..MaxArrivals /\ MaxLate \in Nat

\* An item; n is its rank among the items ever accepted for its device, a
\* history field no action reads.  fresh is expiresAt > now.
Item       == [id : Ids, n : Nat, fresh : BOOLEAN]
InboxState == [baseIndex : Nat, items : Seq(Item)]
Cursor     == Nat \cup {NoCursor}
Page       == [items : Seq(Item), nextAfter : Cursor]

VARIABLES
    inbox,      \* the map from a device to its InboxState; a device without an
                \* entry has the state that every lookup falls back to, NewInbox
    bytes,      \* the bytes field of each state
    inboxBytes, inboxItems,   \* the totals over all devices
    poller,     \* what the shared poller is doing
    cursor,     \* its cursor
    answer,     \* the page its request has been answered with
    late,       \* how many abandoned requests of each cursor are on their way
    seen,       \* seenOrder of the transport: the last ids it has handled
    arrivals,   \* history: items accepted for each device
    shown,      \* history: items of Own (their n) handed to the subscribers
    expired,    \* history: items of Own removed by cleanup
    handled,    \* history: items handed to the handlers since start()
    resets      \* history: how often cleanup deleted the inbox of Own

controllerVars == <<inbox, bytes, inboxBytes, inboxItems>>
pollerVars     == <<poller, cursor, answer, late, seen>>
ghostVars      == <<arrivals, shown, expired, handled, resets>>
vars == <<controllerVars, pollerVars, ghostVars>>

NewInbox == [baseIndex |-> 0, items |-> <<>>]
NoPage   == [items |-> <<>>, nextAfter |-> NoCursor]

AtMost(a, b)  == IF a <= b THEN a ELSE b
AtLeast(a, b) == IF a >= b THEN a ELSE b

Bytes(items) == MapThenSumSet(LAMBDA p : SizeOf[items[p].id], DOMAIN items)
Ranks(items) == {items[p].n : p \in DOMAIN items}

TypeOK ==
    /\ inbox \in [Devices -> InboxState]
    /\ bytes \in [Devices -> 0..MaxDeviceBytes]
    /\ inboxBytes \in 0..MaxBytes
    /\ inboxItems \in 0..MaxItems
    /\ poller \in {"off", "timer", "sent", "answered"}
    /\ cursor \in Cursor
    /\ answer \in Page
    /\ late \in [0..MaxArrivals \cup {NoCursor} -> 0..MaxLate]
    /\ seen \in Seq(Ids)
    /\ arrivals \in [Devices -> 0..MaxArrivals]
    /\ shown \subseteq 0..MaxArrivals
    /\ expired \subseteq 0..MaxArrivals
    /\ handled \in Seq([id : Ids, n : Nat])
    /\ resets \in Nat

-----------------------------------------------------------------------------
(***************************************************************************)
(* The controller.                                                         *)
(***************************************************************************)

\* enqueue finds no room.
FullBefore(d, size) ==
    \/ inboxItems >= MaxItems
    \/ Len(inbox[d].items) >= MaxDeviceItems
    \/ inboxBytes >= MaxBytes
    \/ bytes[d] + size > MaxDeviceBytes

Full(d, size) ==
    \/ inboxItems >= MaxItems
    \/ Len(inbox[d].items) >= MaxDeviceItems
    \/ inboxBytes + size > MaxBytes
    \/ bytes[d] + size > MaxDeviceBytes

Present(d, id) == \E p \in DOMAIN inbox[d].items : inbox[d].items[p].id = id

PushFront(items, item) == <<item>> \o items
Push(items, item) == Append(items, item)

\* enqueue stores an item it does not hold yet, if there is room.
Store(d, id) ==
    /\ ~Present(d, id)
    /\ ~Full(d, SizeOf[id])
    /\ arrivals[d] < IF d = Own THEN MaxArrivals ELSE MaxOthers
    /\ inbox' = [inbox EXCEPT ![d] =
           [baseIndex |-> @.baseIndex,
            items     |-> Push(@.items, [id |-> id, n |-> arrivals[d], fresh |-> TRUE])]]
    /\ bytes' = [bytes EXCEPT ![d] = @ + SizeOf[id]]
    /\ inboxBytes' = inboxBytes + SizeOf[id]
    /\ inboxItems' = inboxItems + 1
    /\ arrivals' = [arrivals EXCEPT ![d] = @ + 1]
    /\ UNCHANGED <<pollerVars, shown, expired, handled, resets>>

\* POST /onion/ingest: the peer names the message and may repeat it.  An id the
\* inbox holds is acknowledged, and one without room refused, without a change.
Ingest(d, id) == Store(d, id)

\* POST /onion/send without a route: only to oneself, under an id of its own.
SendToSelf(id) == Store(Own, id)

\* removeItems: the front of the items goes, and its length from the counts.
Removed(state, count) ==
    [baseIndex |-> state.baseIndex + count,
     items     |-> SubSeq(state.items, count + 1, Len(state.items))]

KeepBytes(total, items) == total
WithoutBytes(total, items) == AtLeast(0, total - Bytes(items))

\* How many items a poll with this cursor confirms.
OneTooMany(state, after) ==
    IF after \in Nat /\ after >= state.baseIndex
      THEN AtMost(Len(state.items), after - state.baseIndex + 2) ELSE 0

Confirmed(state, after) ==
    IF after \in Nat /\ after >= state.baseIndex
      THEN AtMost(Len(state.items), after - state.baseIndex + 1) ELSE 0

\* GET /onion/inbox removes what the cursor confirms ...
Confirm(after) ==
    LET count == Confirmed(inbox[Own], after)
        read  == SubSeq(inbox[Own].items, 1, count)
    IN  /\ inbox' = [inbox EXCEPT ![Own] = Removed(@, count)]
        /\ bytes' = [bytes EXCEPT ![Own] = WithoutBytes(@, read)]
        /\ inboxBytes' = WithoutBytes(inboxBytes, read)
        /\ inboxItems' = AtLeast(0, inboxItems - count)

StuckAfter(state, page, after) == after

\* ... and answers with the head of what is left.
NextAfter(state, page, after) ==
    IF page = <<>> THEN after ELSE state.baseIndex + Len(page) - 1

PageAfter(after) ==
    LET state == Removed(inbox[Own], Confirmed(inbox[Own], after))
        page  == SubSeq(state.items, 1, AtMost(PageLimit, Len(state.items)))
    IN  [items |-> page, nextAfter |-> NextAfter(state, page, after)]

\* The controller handles the request the poller is waiting for.
Serve ==
    /\ poller = "sent"
    /\ Confirm(cursor)
    /\ answer' = PageAfter(cursor)
    /\ poller' = "answered"
    /\ UNCHANGED <<cursor, late, seen, ghostVars>>

\* It handles a request the poller has abandoned; nobody reads the answer.
ServeLate(after) ==
    /\ late[after] > 0
    /\ late' = [late EXCEPT ![after] = @ - 1]
    /\ Confirm(after)
    /\ UNCHANGED <<poller, cursor, answer, seen, ghostVars>>

\* A deadline passes.
Stale(item) == [id |-> item.id, n |-> item.n, fresh |-> FALSE]

Aged(state, p) ==
    [baseIndex |-> state.baseIndex, items |-> [state.items EXCEPT ![p] = Stale(@)]]

Expire(d, p) ==
    /\ p \in DOMAIN inbox[d].items
    /\ inbox[d].items[p].fresh
    /\ inbox' = [inbox EXCEPT ![d] = Aged(@, p)]
    /\ UNCHANGED <<bytes, inboxBytes, inboxItems, pollerVars, ghostVars>>

\* items.findIndex: the expired items before the first one that is not.
ExpiredCount(items) ==
    Min({p \in DOMAIN items : items[p].fresh} \cup {Len(items) + 1}) - 1

\* The timer's callback.  A device whose items have all expired, or that has
\* none, leaves the map, and its baseIndex with it.
Cleaned(state) ==
    IF ExpiredCount(state.items) = Len(state.items) THEN NewInbox
    ELSE Removed(state, ExpiredCount(state.items))

Gone(d) == SubSeq(inbox[d].items, 1, ExpiredCount(inbox[d].items))

Cleanup ==
    /\ inbox' = [d \in Devices |-> Cleaned(inbox[d])]
    /\ bytes' = [d \in Devices |->
           IF inbox'[d] = NewInbox THEN 0 ELSE WithoutBytes(bytes[d], Gone(d))]
    /\ inboxBytes' = AtLeast(0, inboxBytes - MapThenSumSet(LAMBDA d : Bytes(Gone(d)), Devices))
    /\ inboxItems' = AtLeast(0, inboxItems - MapThenSumSet(LAMBDA d : Len(Gone(d)), Devices))
    /\ expired' = expired \cup Ranks(Gone(Own))
    /\ resets' = IF inbox[Own] # NewInbox /\ inbox'[Own] = NewInbox
                   THEN resets + 1 ELSE resets
    /\ UNCHANGED <<pollerVars, arrivals, shown, handled>>

-----------------------------------------------------------------------------
(***************************************************************************)
(* The poller and the transport that subscribes to it.                     *)
(***************************************************************************)

\* start(): a new poller begins without a cursor.
Start ==
    /\ poller = "off"
    /\ poller' = "timer"
    /\ cursor' = NoCursor
    /\ handled' = <<>>
    /\ UNCHANGED <<controllerVars, answer, late, seen, arrivals, shown, expired, resets>>

\* tick(): one request at a time.
Poll ==
    /\ poller = "timer"
    /\ poller' = "sent"
    /\ UNCHANGED <<controllerVars, cursor, answer, late, seen, ghostVars>>

\* What becomes of a request nobody waits for any more: it is still on its way,
\* or it never gets there, or its answer is dropped.
LeaveRequest ==
    \/ /\ poller = "sent"
       /\ MapThenSumSet(LAMBDA after : late[after], DOMAIN late) < MaxLate
       /\ late' = [late EXCEPT ![cursor] = @ + 1]
       /\ UNCHANGED answer
    \/ poller \in {"timer", "sent"} /\ UNCHANGED <<late, answer>>
    \/ poller = "answered" /\ answer' = NoPage /\ UNCHANGED late

\* The request fails or its time is up: back off and try again.
PollFails ==
    /\ poller \in {"sent", "answered"}
    /\ LeaveRequest
    /\ poller' = "timer"
    /\ UNCHANGED <<controllerVars, cursor, seen, ghostVars>>

ForgetId(ids) == <<>>

\* rememberId keeps the last MAX_SEEN_IDS ids ...
Newest(ids) == SubSeq(ids, AtLeast(1, Len(ids) - SeenLimit + 1), Len(ids))

\* ... and lets an item pass when its id is not among them.
Remember(acc, item) ==
    IF Contains(acc.seen, item.id) THEN acc
    ELSE [seen    |-> Newest(Append(acc.seen, item.id)),
          handled |-> Append(acc.handled, [id |-> item.id, n |-> item.n])]

\* The answer arrives: the cursor moves, then every item is handed on.
Receive ==
    /\ poller = "answered"
    /\ poller' = "timer"
    /\ cursor' = answer.nextAfter
    /\ answer' = NoPage
    /\ LET result == FoldLeft(Remember, [seen |-> seen, handled |-> handled], answer.items)
       IN  seen' = result.seen /\ handled' = result.handled
    /\ shown' = shown \cup Ranks(answer.items)
    /\ UNCHANGED <<controllerVars, late, arrivals, expired, resets>>

\* stop(): the request is aborted, what the transport has seen is forgotten.
Stop ==
    /\ poller # "off"
    /\ LeaveRequest
    /\ poller' = "off"
    /\ seen' = <<>>
    /\ UNCHANGED <<controllerVars, cursor, ghostVars>>

-----------------------------------------------------------------------------
Init ==
    /\ inbox = [d \in Devices |-> NewInbox]
    /\ bytes = [d \in Devices |-> 0]
    /\ inboxBytes = 0 /\ inboxItems = 0
    /\ poller = "off"
    /\ cursor = NoCursor
    /\ answer = NoPage
    /\ late = [after \in 0..MaxArrivals \cup {NoCursor} |-> 0]
    /\ seen = <<>>
    /\ arrivals = [d \in Devices |-> 0]
    /\ shown = {} /\ expired = {} /\ handled = <<>> /\ resets = 0

Next ==
    \/ \E d \in Devices, id \in Ids : Ingest(d, id)
    \/ \E id \in Ids : SendToSelf(id)
    \/ \E after \in DOMAIN late : ServeLate(after)
    \/ \E d \in Devices, p \in 1..MaxDeviceItems : Expire(d, p)
    \/ Serve \/ Cleanup
    \/ Start \/ Poll \/ PollFails \/ Receive \/ Stop

Spec == Init /\ [][Next]_vars

\* The timer of tick() fires, the controller handles what reaches it, and not
\* every request fails for ever.
Fairness ==
    /\ WF_vars(Poll)
    /\ SF_vars(Serve)
    /\ SF_vars(Receive)

FairSpec == Spec /\ Fairness

-----------------------------------------------------------------------------
(***************************************************************************)
(* Properties.                                                             *)
(***************************************************************************)

\* The totals that guard the capacities are what the inboxes hold: no order of
\* ingests, polls and clean-ups leaks room or counts it twice, and the clamps at
\* zero in removeItems never act.
TotalsExact ==
    /\ \A d \in Devices : bytes[d] = Bytes(inbox[d].items)
    /\ inboxBytes = MapThenSumSet(LAMBDA d : bytes[d], Devices)
    /\ inboxItems = MapThenSumSet(LAMBDA d : Len(inbox[d].items), Devices)

Stored == Ranks(inbox[Own].items)

\* An item a sender was told is accepted is in the inbox, has expired, or has been handed
\* to the poller's subscribers.
NothingDroppedUnread == 0..arrivals[Own] - 1 \subseteq Stored \cup expired \cup shown

\* As long as cleanup has not deleted the inbox (and so restarted its numbering
\* under a poller that keeps its cursor), no lost answer, abandoned or late
\* request, restart of the poller or expiry loses an unread item.
UnreadLostOnlyByReset == resets = 0 => NothingDroppedUnread

\* Between start() and stop() the handlers get items in the order they came.
InArrivalOrder ==
    \A p, q \in DOMAIN handled : p < q => handled[p].n < handled[q].n

\* A sender whose answer was lost sends again, and the copy may be accepted after
\* the first one has left the inbox: between start() and stop() the handlers get
\* an id once, when no more ids are about than the transport remembers.
HandledOnce ==
    Cardinality(Ids) <= SeenLimit =>
        \A p, q \in DOMAIN handled : p # q => handled[p].id # handled[q].id

\* While the inbox is not deleted and a poller runs on, what is stored is shown
\* to it or expires, whatever number of requests fails.
StoredIsShown ==
    [](resets = 0) /\ <>[](poller # "off") =>
        \A n \in 0..MaxArrivals - 1 : n \in Stored ~> n \in shown \cup expired

\* The totals that guard the capacities never drift, and what the poller hands to its
\* subscribers comes in the order of its arrival, once.
InboxSound == TypeOK /\ TotalsExact /\ InArrivalOrder /\ HandledOnce
=============================================================================
