------------------------------ MODULE SyncFlow ------------------------------
(***************************************************************************)
(* How a log is synchronised between two devices (sync/syncEngine.ts): the *)
(* author numbers and stores its events (buildContactEvents), answers a    *)
(* SYNC_REQ with what is newer than the reader has seen, in chunks of a   *)
(* session with a window, acknowledgements and retries, and the reader     *)
(* applies the frames it gets.                                            *)
(*                                                                         *)
(* Frames are lost, late and out of order, and either device may end and   *)
(* start again.  A frame is applied in one step: what its awaits allow is  *)
(* the subject of Conversation.  A chunk has one event here (16 in the     *)
(* program); events are in the order of their time, and an event is named  *)
(* by its place in the author's log.                                       *)
(***************************************************************************)
EXTENDS Naturals, Sequences, SequencesExt, FiniteSetsExt

CONSTANTS
    MaxEvents,    \* bound: events of the author
    MaxEmits,     \* bound: how often the author emits some
    MaxRequests,  \* bound: SYNC_REQs of the reader
    Window,       \* chunks in flight (2)
    MaxChunkAttempts,  \* sends of a chunk (3)
    MaxSyncEnds       \* bound: ends of either device

ASSUME SyncAssumption ==
    /\ MaxEvents \in Nat /\ MaxEmits \in Nat /\ MaxRequests \in Nat /\ MaxSyncEnds \in Nat
    /\ Window \in Nat \ {0} /\ MaxChunkAttempts \in Nat \ {0}

VARIABLES
    log,        \* the author's event log: the lamport of each event
    counter,    \* perAuthorLamportSeen of the author for itself; it is not stored
    session,    \* outgoingFlowSessions: the chunks, the next one, those in flight
    syncSeen,   \* perConvLamportSeen of the reader for the author; it is not stored
    known,      \* the reader's event log
    syncFrames, \* frames under way
    emits, requests, syncEnds,
    dropped,    \* history: events dropped as replays that the reader did not have
    syncHandled \* history: the chunks the reader has acknowledged

syncVars == <<log, counter, session, syncSeen, known, syncFrames, emits, requests, syncEnds,
              dropped, syncHandled>>

NoSession == [id |-> 0]

-----------------------------------------------------------------------------
\* buildNextMap, of some events of the log
NextMap(events) == Max({0} \cup {log[e] : e \in events})

\* createSyncResponseFrames: one frame, or chunks of which the last has the map.
NextOfAny(next, final) == next
NextOfFinal(next, final) == IF final THEN next ELSE 0
Chunks(events, next, id) ==
    [k \in DOMAIN events |->
        [type |-> "SYNC_RES", session |-> id, chunk |-> k, events |-> <<events[k]>>,
         next |-> NextOfFinal(next, k = Len(events))]]
Plain(events, next) ==
    [type |-> "SYNC_RES", session |-> 0, chunk |-> 0, events |-> events, next |-> next]

\* buildContactEvents, buildConversationEvents: all contacts, or all conversations, as events.
Built(n) == log \o [k \in 1..n |-> counter + k]

\* syncContactsNow, syncConversationsNow; their request is Ask.
Emit ==
    /\ emits < MaxEmits /\ emits' = emits + 1
    /\ \E n \in 1..(MaxEvents - Len(log)) :
        /\ counter' = counter + n
        /\ log' = Built(n)
        /\ syncFrames' = syncFrames \cup {Plain([k \in 1..n |-> Len(log) + k], counter + n)}
    /\ UNCHANGED <<session, syncSeen, known, requests, syncEnds, dropped, syncHandled>>

\* getSinceMap, with the lamports seen, whether or not they were of stored events.
SinceMap == syncSeen

\* syncConversation, syncContactsNow, connectConversation
Ask ==
    /\ requests < MaxRequests
    /\ requests' = requests + 1
    /\ syncFrames' = syncFrames \cup
           {[type |-> "SYNC_REQ", since |-> SinceMap, id |-> requests + 1]}
    /\ UNCHANGED <<log, counter, session, syncSeen, known, emits, syncEnds, dropped, syncHandled>>

\* pumpFlowSession: what is sent next.
EndlessRoom(s) == Len(s.chunks)
Room(s) == Window - Cardinality(DOMAIN s.inFlight)
Pumped(s) ==
    LET sending == {k \in DOMAIN s.chunks : s.next <= k /\ k < s.next + Room(s)}
    IN  [s EXCEPT !.next = @ + Cardinality(sending),
                  !.inFlight = [k \in DOMAIN @ \cup sending |->
                                   IF k \in sending THEN 1 ELSE @[k]]]
Done(s) == s.next > Len(s.chunks) /\ DOMAIN s.inFlight = {}
SentNow(old, new) == {new.chunks[k] : k \in DOMAIN new.inFlight \ DOMAIN old.inFlight}

\* What the author has that is newer, in the order of its log (sortEventsDeterministic).
NewerThan(since) == {e \in DOMAIN log : log[e] > since}
InOrder(S) ==
    {f \in [1..Cardinality(S) -> S] :
        Range(f) = S /\ \A i, j \in DOMAIN f : i < j => f[i] < f[j]}

\* sendSyncResponseFrames, with the map of the whole log.
Respond(frame, events) ==
    LET next == NextMap(DOMAIN log)
        empty == [id |-> frame.id, chunks |-> Chunks(events, next, frame.id), next |-> 1,
                  inFlight |-> <<>>]
    IN  IF Len(events) <= 1
        THEN syncFrames' = (syncFrames \ {frame}) \cup {Plain(events, next)} /\ UNCHANGED session
        ELSE /\ session' = Pumped(empty)
             /\ syncFrames' = (syncFrames \ {frame}) \cup SentNow(empty, Pumped(empty))

\* handleSyncReq; of several sessions the model has one at a time.
HandleReq(frame) ==
    /\ frame.type = "SYNC_REQ" /\ session = NoSession
    /\ \E events \in InOrder(NewerThan(frame.since)) : Respond(frame, events)
    /\ UNCHANGED <<log, counter, syncSeen, known, emits, requests, syncEnds, dropped, syncHandled>>

\* The timer of scheduleFlowRetry, armed when sendFrame has returned.
KeepTrying(attempts) == FALSE
GivesUp(attempts) == attempts >= MaxChunkAttempts
RetryTimer(k) ==
    /\ IF GivesUp(session.inFlight[k])
       THEN session' = NoSession /\ UNCHANGED syncFrames
       ELSE /\ session' = [session EXCEPT !.inFlight[k] = Min({@ + 1, MaxChunkAttempts})]
            /\ syncFrames' = syncFrames \cup {session.chunks[k]}
    /\ UNCHANGED <<log, counter, syncSeen, known, emits, requests, syncEnds, dropped, syncHandled>>

\* handleSyncFlowAck
FlowAck(frame) ==
    LET acked == [session EXCEPT !.inFlight = [k \in DOMAIN @ \ {frame.chunk} |-> @[k]]]
    IN  /\ frame.type = "SYNC_FLOW_ACK"
        /\ IF session = NoSession \/ session.id # frame.session
           THEN syncFrames' = syncFrames \ {frame} /\ UNCHANGED session
           ELSE /\ session' = IF Done(Pumped(acked)) THEN NoSession ELSE Pumped(acked)
                /\ syncFrames' = (syncFrames \ {frame}) \cup SentNow(acked, Pumped(acked))
        /\ UNCHANGED <<log, counter, syncSeen, known, emits, requests, syncEnds, dropped,
                       syncHandled>>

-----------------------------------------------------------------------------
(***************************************************************************)
(* The reader: handleSyncRes.                                              *)
(***************************************************************************)

\* applyEnvelopeEvents: what is not newer than the newest event seen so far is a replay.
Replays(events) == {events[k] : k \in {j \in DOMAIN events :
                       log[events[j]] <= Max({syncSeen} \cup {log[events[i]] : i \in 1..(j - 1)})}}

\* A chunk is acknowledged, whatever became of its events; the map of the last one counts.
TakeFrame(frame) ==
    /\ frame.type = "SYNC_RES"
    /\ known' = known \cup (Range(frame.events) \ Replays(frame.events))
    /\ dropped' = dropped \cup (Replays(frame.events) \ known)
    /\ syncSeen' = Max({syncSeen, frame.next} \cup {log[e] : e \in Range(frame.events)})
    /\ IF frame.session = 0 THEN syncFrames' = syncFrames \ {frame} /\ UNCHANGED syncHandled
       ELSE /\ syncFrames' = (syncFrames \ {frame}) \cup
                   {[type |-> "SYNC_FLOW_ACK", session |-> frame.session, chunk |-> frame.chunk]}
            /\ syncHandled' = syncHandled \cup {<<frame.session, frame.chunk>>}
    /\ UNCHANGED <<log, counter, session, emits, requests, syncEnds>>

AuthorEnds ==
    /\ syncEnds < MaxSyncEnds /\ syncEnds' = syncEnds + 1
    /\ counter' = 0 /\ session' = NoSession
    /\ UNCHANGED <<log, syncSeen, known, syncFrames, emits, requests, dropped, syncHandled>>

ReaderEnds ==
    /\ syncEnds < MaxSyncEnds /\ syncEnds' = syncEnds + 1
    /\ syncSeen' = 0
    /\ UNCHANGED <<log, counter, session, known, syncFrames, emits, requests, dropped, syncHandled>>

SyncInit ==
    /\ log = <<>> /\ counter = 0 /\ session = NoSession
    /\ syncSeen = 0 /\ known = {} /\ syncFrames = {}
    /\ emits = 0 /\ requests = 0 /\ syncEnds = 0 /\ dropped = {} /\ syncHandled = {}

InFlight == IF session = NoSession THEN {} ELSE DOMAIN session.inFlight
SyncNext ==
    \/ Emit \/ Ask \/ AuthorEnds \/ ReaderEnds
    \/ \E frame \in syncFrames : HandleReq(frame) \/ FlowAck(frame) \/ TakeFrame(frame)
    \/ \E k \in InFlight : RetryTimer(k)

\* Sends return, and timers fire.
SyncFairness == WF_syncVars(\E k \in InFlight : RetryTimer(k))
SyncSpec == SyncInit /\ [][SyncNext]_syncVars /\ SyncFairness

-----------------------------------------------------------------------------
\* A session comes to an end, whatever is lost: its chunks are acknowledged or given up.
FlowEnds == session # NoSession ~> session = NoSession

\* The window bounds what may be overtaken: of the chunks before one the reader has
\* handled, all but Window - 1 have been handled.
FewOvertaken ==
    \A c \in syncHandled :
        Cardinality({k \in 1..(c[2] - 1) : <<c[1], k>> \notin syncHandled}) < Window

\* An event that the reader does not have is dropped as a replay only because a newer one
\* has overtaken it, or because the author has started again and counts from one.
DroppedHasCause ==
    \A event \in dropped : (\E newer \in known : newer > event) \/ syncEnds > 0

\* An event is dropped only for one of the two reasons the protocol has, and the window bounds
\* how many a chunk may overtake.
FlowSound == FewOvertaken /\ DroppedHasCause
=============================================================================
