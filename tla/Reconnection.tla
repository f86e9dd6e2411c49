---------------------------- MODULE Reconnection ----------------------------
(***************************************************************************)
(* The ConnectionManager of sync/connectionManager.ts: one connection of a *)
(* conversation, opened, kept alive by pings, and opened again while its   *)
(* outbox has something to send.                                           *)
(*                                                                         *)
(* Opening is a chain of awaits (`opening`: the connection, then the flush *)
(* of the outbox), deciding about a reconnection awaits the outbox, and    *)
(* start, stop, send and the events of the connection come in between.     *)
(* Both connections of the source close and send without waiting, so that  *)
(* these are no interleaving points here.                                  *)
(*                                                                         *)
(* Abstracted: data, delays, and whether a ping is due.                    *)
(***************************************************************************)
EXTENDS Naturals

CONSTANTS
    MaxConns,   \* bound: connections of a behaviour
    MaxStarts   \* bound: calls of start and stop

ASSUME ReconnectAssumption == MaxConns \in Nat /\ MaxStarts \in Nat

VARIABLES
    conState,   \* state
    conClosed,  \* closed
    conn,       \* connection, 0 for none
    open,       \* the connections that are open, wherever they are held
    opening,    \* openConnectionOnce: "no", "connect", "flush", "decide"
    deciding,   \* reconnectScheduling: the outbox is asked for records
    reconnect,  \* reconnectTimer is set
    heartbeat,  \* heartbeatTimer is set
    ping,       \* a ping awaits its pong, with pongTimer set
    neglected,  \* history: an open was asked for while another was only flushing, or the
                \* outbox could not be read
    conns, starts  \* bounds

conVars == <<conState, conClosed, conn, open, opening, deciding, reconnect, heartbeat, ping,
             neglected, conns, starts>>

Connections == 1..MaxConns

ReconnectTypeOK ==
    /\ conState \in {"idle", "connecting", "connected", "reconnecting", "closed"}
    /\ conClosed \in BOOLEAN /\ deciding \in BOOLEAN /\ reconnect \in BOOLEAN
    /\ heartbeat \in BOOLEAN /\ ping \in BOOLEAN /\ neglected \in BOOLEAN
    /\ conn \in 0..MaxConns /\ open \subseteq Connections
    /\ opening \in {"no", "connect", "flush", "decide"}
    /\ conns \in 0..MaxConns /\ starts \in 0..MaxStarts

-----------------------------------------------------------------------------
\* openConnection: an open in flight is shared, also by one that comes too late for it.
OpenConnection ==
    /\ opening' = IF opening = "no" THEN "connect" ELSE opening
    /\ conState' = IF opening = "no" THEN "connecting" ELSE conState
    /\ neglected' = (neglected \/ opening \in {"flush", "decide"})

\* stopHeartbeat and detachConnection.
Detach ==
    /\ heartbeat' = FALSE /\ ping' = FALSE
    /\ conn' = 0
    /\ open' = open \ {conn}

\* scheduleReconnectIfNeeded up to its await.
Schedules == ~conClosed /\ ~reconnect
NoReconnect == UNCHANGED deciding
ScheduleReconnect == deciding' = (deciding \/ Schedules)

\* handleConnectionLost, for the connection that is current.
Lose ==
    /\ Detach
    /\ ScheduleReconnect
    /\ UNCHANGED <<conState, conClosed, opening, reconnect, neglected, conns, starts>>

StartConnection ==
    /\ starts < MaxStarts
    /\ starts' = starts + 1
    /\ conClosed' = FALSE
    /\ IF conn # 0 /\ conState = "connected" THEN UNCHANGED <<opening, conState, neglected>>
                                             ELSE OpenConnection
    /\ UNCHANGED <<conn, open, deciding, reconnect, heartbeat, ping, conns>>

StopConnection ==
    /\ starts < MaxStarts
    /\ starts' = starts + 1
    /\ conClosed' = TRUE /\ conState' = "closed"
    /\ reconnect' = FALSE
    /\ Detach
    /\ UNCHANGED <<opening, deciding, neglected, conns>>

ReconnectTimer ==
    /\ reconnect
    /\ reconnect' = FALSE
    /\ OpenConnection
    /\ UNCHANGED <<conClosed, conn, open, deciding, heartbeat, ping, conns, starts>>

-----------------------------------------------------------------------------
\* The connection is there: a stopped manager closes it, any other takes it instead of
\* the one it still has.
NeverUnwanted == FALSE
Unwanted == conClosed

Connected ==
    /\ opening = "connect"
    /\ conns < MaxConns
    /\ conns' = conns + 1
    /\ IF Unwanted
       THEN opening' = "no" /\ UNCHANGED <<conn, open, conState, heartbeat, ping>>
       ELSE /\ conn' = conns' /\ open' = (open \ {conn}) \cup {conns'}
            /\ conState' = "connected"
            /\ heartbeat' = TRUE /\ ping' = FALSE
            /\ opening' = "flush"
    /\ UNCHANGED <<conClosed, deciding, reconnect, neglected, starts>>

\* The connection or the flush of the outbox fails.
OpenFails ==
    /\ opening \in {"connect", "flush"}
    /\ Detach
    /\ ScheduleReconnect
    /\ opening' = IF deciding' /\ Schedules THEN "decide" ELSE "no"
    /\ UNCHANGED <<conState, conClosed, reconnect, neglected, conns, starts>>

Flushed ==
    /\ opening = "flush"
    /\ opening' = "no"
    /\ UNCHANGED <<conState, conClosed, conn, open, deciding, reconnect, heartbeat, ping,
                   neglected, conns, starts>>

\* The rest of scheduleReconnectIfNeeded, for all that wait for it; the outbox has
\* records or has none.
Swapped(pending) == conState' = "retry_in" /\ reconnect' = pending
NoTimer(pending) == conState' = (IF pending THEN "reconnecting" ELSE "idle") /\ UNCHANGED reconnect
Outcome(pending) ==
    IF pending THEN conState' = "reconnecting" /\ reconnect' = TRUE
               ELSE conState' = "idle" /\ UNCHANGED reconnect

Decided(pending) ==
    /\ deciding
    /\ deciding' = FALSE
    /\ opening' = IF opening = "decide" THEN "no" ELSE opening
    /\ IF Schedules THEN Outcome(pending) ELSE UNCHANGED <<conState, reconnect>>
    /\ UNCHANGED <<conClosed, conn, open, heartbeat, ping, neglected, conns, starts>>

\* The outbox cannot be read: nothing is decided.
DecisionFails ==
    /\ deciding
    /\ deciding' = FALSE
    /\ opening' = IF opening = "decide" THEN "no" ELSE opening
    /\ neglected' = TRUE
    /\ UNCHANGED <<conState, conClosed, conn, open, reconnect, heartbeat, ping, conns, starts>>

-----------------------------------------------------------------------------
\* send() without a connection asks for one; a failing one loses its connection.
SendUnconnected ==
    /\ conn = 0 \/ conState # "connected"
    /\ Schedules /\ ~deciding
    /\ deciding' = TRUE
    /\ UNCHANGED <<conState, conClosed, conn, open, opening, reconnect, heartbeat, ping,
                   neglected, conns, starts>>

\* The peer closes, a send fails, or no pong comes in time.
ConnectionLost ==
    /\ conn # 0 /\ ~conClosed
    /\ Lose

SendPing ==
    /\ heartbeat /\ conn # 0 /\ conState = "connected" /\ ~ping
    /\ ping' = TRUE
    /\ UNCHANGED <<conState, conClosed, conn, open, opening, deciding, reconnect, heartbeat,
                   neglected, conns, starts>>

PongArrives ==
    /\ ping
    /\ ping' = FALSE
    /\ UNCHANGED <<conState, conClosed, conn, open, opening, deciding, reconnect, heartbeat,
                   neglected, conns, starts>>

ReconnectInit ==
    /\ conState = "idle" /\ conClosed = FALSE /\ conn = 0 /\ open = {} /\ opening = "no"
    /\ deciding = FALSE /\ reconnect = FALSE /\ heartbeat = FALSE /\ ping = FALSE
    /\ neglected = FALSE /\ conns = 0 /\ starts = 0

OpenEnds == Connected \/ OpenFails \/ Flushed
Decides == \E pending \in BOOLEAN : Decided(pending)

ReconnectNext ==
    \/ StartConnection \/ StopConnection \/ ReconnectTimer
    \/ OpenEnds \/ Decides \/ DecisionFails
    \/ SendUnconnected \/ ConnectionLost \/ SendPing \/ PongArrives

\* Timers fire, reads of the outbox end, and so do connecting (with its timeout) and
\* flushing.
ReconnectFairness == WF_conVars(ReconnectTimer) /\ WF_conVars(OpenEnds) /\ WF_conVars(Decides)

ReconnectSpec == ReconnectInit /\ [][ReconnectNext]_conVars /\ ReconnectFairness

-----------------------------------------------------------------------------
\* No connection is left behind: what is open is the manager's connection, whichever
\* opens, stops and losses overlap, and a stopped manager has none and plans none.
NoConnectionLeft ==
    /\ open \subseteq {conn} \ {0}
    /\ conClosed => conn = 0 /\ ~reconnect /\ ~heartbeat /\ ~ping

\* A connection that is said to be there is watched, or its loss is being dealt with: by
\* a decision, by the timer of a reconnection, or by an open that has not ended.
WatchedOrRecovering ==
    conState \in {"connected", "connecting", "reconnecting"} =>
        (conn # 0 /\ heartbeat) \/ deciding \/ reconnect \/ opening # "no" \/ neglected

\* "reconnecting" comes to an end, unless the timer fired while an open that had already
\* lost its connection was still flushing (then it opened nothing, and only the next
\* send or start goes on), or the outbox could not be read.
ReconnectingEnds ==
    (conState = "reconnecting") ~> (conState # "reconnecting" \/ neglected \/ conns = MaxConns)

\* A connection that is not wanted any more is closed, and one that is wanted is watched by a
\* heartbeat or being taken up again.
ReconnectSound == ReconnectTypeOK /\ NoConnectionLeft /\ WatchedOrRecovering
=============================================================================
