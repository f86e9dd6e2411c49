------------------------------- MODULE Outbox -------------------------------
(***************************************************************************)
(* The renderer's outbox: the delivery scheduler                           *)
(* (delivery/deliveryScheduler.ts, net/outboxScheduler.ts), the records    *)
(* (storage/outboxStore.ts), the handler of acknowledgements               *)
(* (policies/deliveryPolicy.ts), the first sending of a message            *)
(* (sendCiphertext in net/router.ts) and the worker's choice of records    *)
(* (planSchedule in native/nkc-worker/scheduler.go).                       *)
(*                                                                         *)
(* All of it runs on one thread, but every access to the database is an    *)
(* await, so the scheduler's tick, the sendings and the acknowledgements   *)
(* interleave between any two accesses.  One access is one action.         *)
(*                                                                         *)
(* Abstracted: the ciphertext and the routing data of a record, clocks (a  *)
(* record becomes due, overdue or expired at any time; `stale` are the ids *)
(* whose expiresAtMs has passed), the order of a plan and the limits of    *)
(* 80 candidates and 20 picks, the transports (a send succeeds, with an    *)
(* acknowledgement, or not), the media cursor, whose failure is ignored.   *)
(* Left out: the user's clearing of the queue in the settings, and a stop  *)
(* of the scheduler, which nothing calls.                                  *)
(***************************************************************************)
EXTENDS Naturals, FiniteSets

CONSTANTS
    Queued,       \* message ids
    MaxAttempts,  \* MaxAttempts of the mode's retry policy
    CleanAt,      \* minAttempts of deleteFailedOutbox, 12 in the code
    MaxTries,     \* transports sendCiphertext tries for a message
    NoRecord,     \* the outbox has no such record
    NoId,         \* the scheduler is not sending
    MaxFaults,    \* bound: failing accesses to the database
    MaxReloads    \* bound: reloads of the renderer

ASSUME AttemptsAssumption ==
    MaxAttempts \in Nat \ {0} /\ CleanAt \in Nat \ {0} /\ MaxTries \in Nat \ {0}
ASSUME OutboxBoundsAssumption == MaxFaults \in Nat /\ MaxReloads \in Nat

\* attempts also counts what sendCiphertext tried, beyond the policy's maximum.
Record == [status    : {"pending", "in_flight", "acked"},
           transient : BOOLEAN,   \* its retention: deleted when acknowledged
           attempts  : Nat,
           due       : BOOLEAN,   \* nextAttemptAtMs has passed
           overdue   : BOOLEAN]   \* ackDeadlineMs has passed
Pick   == [id : Queued, attempts : Nat]   \* a record of a plan, as it was listed

ASSUME OutboxNullsAssumption == NoRecord \notin Record /\ NoId \notin Queued

VARIABLES
    outbox,    \* the table of records
    receipts,  \* ids with a "delivered" receipt
    stale,     \* ids past their expiry
    pc,        \* where the scheduler is
    listed,    \* ids the last query of sweep, clean or timeouts has returned
    plan,      \* what is left of the plan
    inFlight,  \* the scheduler's set of that name
    current,   \* the record it is sending
    sender,    \* where sendCiphertext is for each message
    tries,     \* its record.attempts
    transient, \* its payload.outboxRetention
    heard, found, noted,   \* handlers of acknowledgements, by how far they are
    confirmed, \* history: ids a transport has acknowledged
    picks,     \* history: how often the scheduler has picked a record up
    faults, reloads

schedulerVars == <<pc, listed, plan, inFlight, current>>
senderVars    == <<sender, tries, transient>>
ackVars       == <<heard, found, noted>>
boundVars     == <<faults, reloads>>
outboxVars == <<outbox, receipts, stale, schedulerVars, senderVars, ackVars,
          confirmed, picks, boundVars>>

OutboxTypeOK ==
    /\ outbox \in [Queued -> Record \cup {NoRecord}]
    /\ receipts \subseteq Queued /\ stale \subseteq Queued
    /\ pc \in {"closed", "clean", "idle", "sweep", "swept", "demote", "pick", "send", "mark",
              "stopped"}
    /\ listed \subseteq Queued
    /\ plan \subseteq Pick
    /\ inFlight \subseteq Queued
    /\ current \in Queued \cup {NoId}
    /\ transient \in [Queued -> BOOLEAN]
    /\ sender \in [Queued -> {"new", "starting", "sending", "done"}]
    /\ tries \in [Queued -> 0..MaxTries]
    /\ heard \in [Queued -> Nat] /\ found \in [Queued -> Nat] /\ noted \in [Queued -> Nat]
    /\ confirmed \subseteq Queued
    /\ picks \in [Queued -> Nat]
    /\ faults \in 0..MaxFaults /\ reloads \in 0..MaxReloads

-----------------------------------------------------------------------------
InStore == {id \in Queued : outbox[id] # NoRecord}
In(status) == {id \in InStore : outbox[id].status = status}

\* An update of a record that is not there does nothing.
Update(id, record) ==
    outbox' = [outbox EXCEPT ![id] = IF @ = NoRecord THEN NoRecord ELSE record]
Delete(ids) == outbox' = [id \in Queued |-> IF id \in ids THEN NoRecord ELSE outbox[id]]
Put(id, isTransient, attempts) ==
    outbox' = [outbox EXCEPT ![id] =
        [status |-> "pending", transient |-> isTransient, attempts |-> attempts,
         due |-> TRUE, overdue |-> FALSE]]

\* A transport reports a packet as sent, and its acknowledgement in the same breath.
Acknowledge(id) ==
    /\ heard' = [heard EXCEPT ![id] = @ + 1]
    /\ confirmed' = confirmed \cup {id}

Fault == faults < MaxFaults /\ faults' = faults + 1

-----------------------------------------------------------------------------
(***************************************************************************)
(* sendCiphertext.                                                         *)
(***************************************************************************)

\* The message is stored; when the route is not ready that is all.
SendCiphertext(id, isTransient) ==
    /\ pc # "closed"
    /\ sender[id] = "new"
    /\ transient' = [transient EXCEPT ![id] = isTransient]
    /\ Put(id, isTransient, 0)
    /\ sender' = [sender EXCEPT ![id] = "starting"] \/ sender' = [sender EXCEPT ![id] = "done"]
    /\ UNCHANGED <<receipts, stale, schedulerVars, tries, ackVars, confirmed, picks, boundVars>>

\* The transport has started, and the record is written again as it was at first,
\* whatever has become of it.
Rewrite(id) ==
    /\ sender[id] = "starting"
    /\ tries' = [tries EXCEPT ![id] = @ + 1]
    /\ Put(id, transient[id], tries'[id])
    /\ sender' = [sender EXCEPT ![id] = "sending"]
    /\ UNCHANGED <<receipts, stale, schedulerVars, transient, ackVars, confirmed, picks,
                   boundVars>>

FirstSent(id) ==
    /\ sender[id] = "sending"
    /\ Acknowledge(id)
    /\ sender' = [sender EXCEPT ![id] = "done"]
    /\ UNCHANGED <<outbox, receipts, stale, schedulerVars, tries, transient, found, noted, picks,
                   boundVars>>

FirstFailsOn(id) ==
    /\ sender[id] \in {"starting", "sending"}
    /\ sender' = [sender EXCEPT ![id] = "starting"]
    /\ UNCHANGED <<outbox, receipts, stale, schedulerVars, tries, transient, ackVars, confirmed,
                   picks, boundVars>>

\* The transport does not start, or the send fails; another transport may be tried.
FirstFails(id) ==
    /\ sender[id] \in {"starting", "sending"}
    /\ \/ sender' = [sender EXCEPT ![id] = "done"]
       \/ tries[id] < MaxTries /\ sender' = [sender EXCEPT ![id] = "starting"]
    /\ UNCHANGED <<outbox, receipts, stale, schedulerVars, tries, transient, ackVars, confirmed,
                   picks, boundVars>>

\* The write of Rewrite fails; the attempt is counted all the same.
RewriteFails(id) ==
    /\ Fault
    /\ sender[id] = "starting"
    /\ tries' = [tries EXCEPT ![id] = @ + 1]
    /\ \/ sender' = [sender EXCEPT ![id] = "done"]
       \/ tries'[id] < MaxTries /\ UNCHANGED sender
    /\ UNCHANGED <<outbox, receipts, stale, schedulerVars, transient, ackVars, confirmed, picks,
                   reloads>>

-----------------------------------------------------------------------------
(***************************************************************************)
(* onAckReceived.                                                          *)
(***************************************************************************)

ReadForAck(id) ==
    /\ heard[id] > 0
    /\ heard' = [heard EXCEPT ![id] = @ - 1]
    /\ found' = IF id \in InStore THEN [found EXCEPT ![id] = @ + 1] ELSE found
    /\ UNCHANGED <<outbox, receipts, stale, schedulerVars, senderVars, noted, confirmed, picks,
                   boundVars>>

NoReceiptIfKept(id) == noted' = IF transient[id] THEN [noted EXCEPT ![id] = @ + 1] ELSE noted
ReceiptNext(id) == noted' = [noted EXCEPT ![id] = @ + 1]

ApplyAck(id) ==
    /\ found[id] > 0
    /\ found' = [found EXCEPT ![id] = @ - 1]
    /\ ReceiptNext(id)
    /\ IF transient[id] THEN Delete({id}) ELSE Update(id, [outbox[id] EXCEPT !.status = "acked"])
    /\ UNCHANGED <<receipts, stale, schedulerVars, senderVars, heard, confirmed, picks, boundVars>>

PutReceipt(id) ==
    /\ noted[id] > 0
    /\ noted' = [noted EXCEPT ![id] = @ - 1]
    /\ receipts' = receipts \cup {id}
    /\ UNCHANGED <<outbox, stale, schedulerVars, senderVars, heard, found, confirmed, picks,
                   boundVars>>

\* The handler catches its error and gives up.
AckFails(id) ==
    /\ Fault
    /\ \/ heard[id] > 0 /\ heard' = [heard EXCEPT ![id] = @ - 1] /\ UNCHANGED <<found, noted>>
       \/ found[id] > 0 /\ found' = [found EXCEPT ![id] = @ - 1] /\ UNCHANGED <<heard, noted>>
       \/ noted[id] > 0 /\ noted' = [noted EXCEPT ![id] = @ - 1] /\ UNCHANGED <<heard, found>>
    /\ UNCHANGED <<outbox, receipts, stale, schedulerVars, senderVars, confirmed, picks, reloads>>

-----------------------------------------------------------------------------
(***************************************************************************)
(* startOutboxScheduler and the tick.                                      *)
(***************************************************************************)

\* The renderer starts: records that were tried too often are looked up ...
Launch ==
    /\ pc = "closed"
    /\ listed' = {id \in In("pending") : outbox[id].attempts >= CleanAt}
    /\ pc' = "clean"
    /\ UNCHANGED <<outbox, receipts, stale, plan, inFlight, current, senderVars, ackVars,
                   confirmed, picks, boundVars>>

\* ... and deleted, and the scheduler starts.
DeleteFailed ==
    /\ pc = "clean"
    /\ Delete(listed)
    /\ listed' = {}
    /\ pc' = "idle"
    /\ UNCHANGED <<receipts, stale, plan, inFlight, current, senderVars, ackVars, confirmed,
                   picks, boundVars>>

\* A tick begins with deleteExpiredOutbox, a query and a deletion.
AnyAge == In("pending") \cup In("in_flight")
Expired == {id \in In("pending") \cup In("in_flight") : id \in stale}

FindExpired ==
    /\ pc = "idle"
    /\ listed' = Expired
    /\ pc' = "sweep"
    /\ UNCHANGED <<outbox, receipts, stale, plan, inFlight, current, senderVars, ackVars,
                   confirmed, picks, boundVars>>

DeleteExpired ==
    /\ pc = "sweep"
    /\ Delete(listed)
    /\ listed' = {}
    /\ pc' = "swept"
    /\ UNCHANGED <<receipts, stale, plan, inFlight, current, senderVars, ackVars, confirmed,
                   picks, boundVars>>

NeverTimedOut == {}
TimedOut == {id \in In("in_flight") \ stale : outbox[id].overdue}

FindTimedOut ==
    /\ pc = "swept"
    /\ listed' = TimedOut
    /\ pc' = "demote"
    /\ UNCHANGED <<outbox, receipts, stale, plan, inFlight, current, senderVars, ackVars,
                   confirmed, picks, boundVars>>

\* The record is made pending, whatever it has become since it was listed.
Demote(id) ==
    /\ pc = "demote"
    /\ id \in listed
    /\ listed' = listed \ {id}
    /\ Update(id, [outbox[id] EXCEPT !.status = "pending", !.due = TRUE, !.overdue = FALSE])
    /\ UNCHANGED <<receipts, stale, pc, plan, inFlight, current, senderVars, ackVars, confirmed,
                   picks, boundVars>>

\* planSchedule picks from what listRetryableOutbox has found, and counts.
NotCounted(record) == record.attempts
Counted(record) == record.attempts + 1

Planned ==
    {[id |-> id, attempts |-> Counted(outbox[id])] :
        id \in {i \in In("pending") \ stale : outbox[i].due /\ outbox[i].attempts < MaxAttempts}}

\* Without an answer of the worker there is no plan.
MakePlan(planned) ==
    /\ pc = "demote"
    /\ listed = {}
    /\ plan' = planned
    /\ pc' = "pick"
    /\ UNCHANGED <<outbox, receipts, stale, listed, inFlight, current, senderVars, ackVars,
                   confirmed, picks, boundVars>>

Skip(pick) ==
    /\ pc = "pick"
    /\ pick \in plan /\ pick.id \in inFlight
    /\ plan' = plan \ {pick}
    /\ UNCHANGED <<outbox, receipts, stale, pc, listed, inFlight, current, senderVars, ackVars,
                   confirmed, picks, boundVars>>

PickUp(pick) ==
    /\ pc = "pick"
    /\ pick \in plan /\ pick.id \notin inFlight
    /\ plan' = plan \ {pick}
    /\ inFlight' = inFlight \cup {pick.id}
    /\ current' = pick.id
    /\ Update(pick.id, [outbox[pick.id] EXCEPT !.attempts = pick.attempts, !.due = FALSE])
    /\ picks' = [picks EXCEPT ![pick.id] = @ + 1]
    /\ pc' = "send"
    /\ UNCHANGED <<receipts, stale, listed, senderVars, ackVars, confirmed, boundVars>>

EndTick ==
    /\ pc = "pick"
    /\ plan = {}
    /\ pc' = "idle"
    /\ UNCHANGED <<outbox, receipts, stale, listed, plan, inFlight, current, senderVars, ackVars,
                   confirmed, picks, boundVars>>

SendOk ==
    /\ pc = "send"
    /\ Acknowledge(current)
    /\ pc' = "mark"
    /\ UNCHANGED <<outbox, receipts, stale, listed, plan, inFlight, current, senderVars, found,
                   noted, picks, boundVars>>

\* Routes blocked, transports failed, destination unknown, or an exception.
NextRecord == pc' = "pick" /\ inFlight' = inFlight \ {current} /\ current' = NoId

SendFails ==
    /\ pc = "send"
    /\ NextRecord
    /\ UNCHANGED <<outbox, receipts, stale, listed, plan, senderVars, ackVars,
                   confirmed, picks, boundVars>>

\* markOutboxInFlightUnlessAcked, one transaction.
MarkUnlessAcked(id) ==
    IF id \in In("acked") THEN UNCHANGED outbox
    ELSE Update(id, [outbox[id] EXCEPT !.status = "in_flight", !.overdue = FALSE])

Mark ==
    /\ pc = "mark"
    /\ MarkUnlessAcked(current)
    /\ NextRecord
    /\ UNCHANGED <<receipts, stale, listed, plan, senderVars, ackVars, confirmed, picks,
                   boundVars>>

\* Accesses of the tick that fail.  In a send or after one the tick goes on; in
\* PickUp the id has entered inFlight and stays there.
TickFails ==
    /\ Fault
    /\ \/ /\ pc = "mark" /\ NextRecord /\ UNCHANGED <<listed, plan>>
       \/ /\ pc \in {"idle", "sweep", "swept", "demote"}
          /\ pc' = "idle" /\ listed' = {} /\ UNCHANGED <<plan, inFlight, current>>
       \/ /\ pc = "pick"
          /\ \E pick \in plan :
                 pick.id \notin inFlight /\ inFlight' = inFlight \cup {pick.id}
          /\ pc' = "idle" /\ plan' = {} /\ UNCHANGED <<listed, current>>
    /\ UNCHANGED <<outbox, receipts, stale, senderVars, ackVars, confirmed, picks,
                   reloads>>

\* When the cleaning fails the scheduler is not started, and not again before a reload.
StartFails ==
    /\ Fault
    /\ pc \in {"closed", "clean"}
    /\ pc' = "stopped" /\ listed' = {}
    /\ UNCHANGED <<outbox, receipts, stale, plan, inFlight, current, senderVars, ackVars,
                   confirmed, picks, reloads>>

\* The renderer is reloaded; only the database stays.
Reload ==
    /\ pc # "closed"
    /\ reloads < MaxReloads
    /\ reloads' = reloads + 1
    /\ pc' = "closed"
    /\ listed' = {} /\ plan' = {} /\ inFlight' = {} /\ current' = NoId
    /\ heard' = [id \in Queued |-> 0] /\ found' = heard' /\ noted' = heard'
    /\ sender' = [id \in Queued |-> IF sender[id] = "new" THEN "new" ELSE "done"]
    /\ UNCHANGED <<outbox, receipts, stale, tries, transient, confirmed, picks, faults>>

-----------------------------------------------------------------------------
\* Time passes for a record.
BecomesDue(id) ==
    /\ id \in InStore
    /\ ~outbox[id].due
    /\ outbox' = [outbox EXCEPT ![id].due = TRUE]
    /\ UNCHANGED <<receipts, stale, schedulerVars, senderVars, ackVars, confirmed, picks,
                   boundVars>>

BecomesOverdue(id) ==
    /\ id \in In("in_flight")
    /\ ~outbox[id].overdue
    /\ outbox' = [outbox EXCEPT ![id].overdue = TRUE]
    /\ UNCHANGED <<receipts, stale, schedulerVars, senderVars, ackVars, confirmed, picks,
                   boundVars>>

Expires(id) ==
    /\ id \in InStore
    /\ stale' = stale \cup {id}
    /\ UNCHANGED <<outbox, receipts, schedulerVars, senderVars, ackVars, confirmed, picks,
                   boundVars>>

OutboxInit ==
    /\ outbox = [id \in Queued |-> NoRecord]
    /\ receipts = {} /\ stale = {} /\ confirmed = {}
    /\ pc = "closed" /\ listed = {} /\ plan = {} /\ inFlight = {} /\ current = NoId
    /\ sender = [id \in Queued |-> "new"] /\ transient = [id \in Queued |-> FALSE]
    /\ tries = [id \in Queued |-> 0] /\ picks = tries
    /\ heard = tries /\ found = tries /\ noted = tries
    /\ faults = 0 /\ reloads = 0

Sending(id) == Rewrite(id) \/ FirstSent(id) \/ FirstFails(id)
AckStep(id) == ReadForAck(id) \/ ApplyAck(id) \/ PutReceipt(id)
Starting == Launch \/ DeleteFailed
Sweeping ==
    \/ FindExpired \/ DeleteExpired \/ FindTimedOut
    \/ \E id \in listed : Demote(id)
    \/ \E pick \in plan : Skip(pick) \/ PickUp(pick)
    \/ EndTick \/ Mark
Sent == SendOk \/ SendFails

OutboxNext ==
    \/ \E id \in Queued : \/ \E isTransient \in BOOLEAN : SendCiphertext(id, isTransient)
                    \/ Sending(id) \/ RewriteFails(id)
                    \/ AckStep(id) \/ AckFails(id)
    \/ Starting \/ Sweeping \/ MakePlan(Planned) \/ MakePlan({}) \/ Sent
    \/ StartFails \/ TickFails \/ Reload
    \/ \E id \in Queued : BecomesDue(id) \/ BecomesOverdue(id) \/ Expires(id)

OutboxSpec == OutboxInit /\ [][OutboxNext]_outboxVars

\* The interval fires, accesses to the database and sends come to an end, deadlines
\* pass, and the worker does not fail to plan for ever.
OutboxFairness ==
    /\ WF_outboxVars(Starting) /\ WF_outboxVars(Sweeping) /\ WF_outboxVars(Sent)
    /\ SF_outboxVars(MakePlan(Planned))
    /\ \A id \in Queued : /\ WF_outboxVars(Sending(id)) /\ WF_outboxVars(AckStep(id))
                          /\ WF_outboxVars(BecomesDue(id)) /\ WF_outboxVars(BecomesOverdue(id))

OutboxFairSpec == OutboxSpec /\ OutboxFairness

-----------------------------------------------------------------------------
(***************************************************************************)
(* Properties.                                                             *)
(***************************************************************************)

\* A message that was stored and is no longer there was acknowledged by a transport,
\* has expired, or was tried CleanAt times: no interleaving of queries and deletions,
\* no failing access and no reload loses another one.
LeavesForCause ==
    \A id \in Queued \ InStore :
        sender[id] = "new" \/ id \in confirmed \cup stale \/ picks[id] + tries[id] >= CleanAt

\* The policy's maximum bounds the pickups of a message, and starts anew only when
\* sendCiphertext writes the record again: also over reloads, and although a plan
\* counts on from a record that may have changed since it was listed.
RetryCap == \A id \in Queued : picks[id] <= MaxAttempts * (tries[id] + 1)

\* A message that the outbox calls acked gets its receipt: it has one, or a handler
\* is about to write it, unless an access failed or the renderer was reloaded.
ReceiptFollows ==
    \A id \in In("acked") :
        id \in receipts \/ noted[id] > 0 \/ faults + reloads > 0

\* Without failing accesses a pending record does not stay: it is acknowledged,
\* deleted, or has used up its attempts.
Settled(id) ==
    id \notin InStore \/ id \in In("acked") \/ outbox[id].attempts >= MaxAttempts

EveryRecordSettles ==
    [](faults = 0) => \A id \in Queued : id \in InStore ~> Settled(id)

\* A record is picked up no more often than the policy allows, over every rewriting of its
\* attempts, and an acknowledged one gets its receipt.
OutboxSound == OutboxTypeOK /\ RetryCap /\ ReceiptFollows
=============================================================================
