---------------------------- MODULE OutboxProofs ----------------------------
(***************************************************************************)
(* Theorems about Outbox, TorRuntime and FriendCode, proved by TLAPS; the  *)
(* last is about the specification of the run (MCOutbox).                  *)
(*                                                                         *)
(* Outbox: the attempts in a record and the history of pickups bound each  *)
(* other, but a plan writes back a count it read earlier, and              *)
(* sendCiphertext may have written the record in between.  So the          *)
(* invariant speaks of the records (RecordInv) and of the entries of the   *)
(* plan (PlanInv) alike.  That receipts follow is inductive as it stands:  *)
(* of all that write to the table only onAckReceived marks a record as     *)
(* acknowledged.                                                           *)
(*                                                                         *)
(* TorRuntime: the start that callers share has to be one under way        *)
(* (SharedRuns).  FriendCode: what a refresher has read is still what the  *)
(* renderer has, and what is in a request was once the service's           *)
(* (OnceTheService).                                                       *)
(***************************************************************************)
EXTENDS MCOutbox, FiniteSetTheorems, SequenceTheorems, TLAPS

USE AttemptsAssumption, OutboxBoundsAssumption, OutboxNullsAssumption

\* How often a message may have been picked up before sendCiphertext wrote it last.
Before(t) == MaxAttempts * t

NewInv ==
    \A id \in Queued :
        /\ sender[id] = "new" => outbox[id] = NoRecord /\ tries[id] = 0 /\ picks[id] = 0
        /\ sender[id] = "starting" => tries[id] < MaxTries

RecordInv ==
    \A id \in InStore :
        /\ outbox[id].attempts <= picks[id] + tries[id]
        /\ picks[id] <= Before(tries[id]) + outbox[id].attempts

PlanInv ==
    \A pick \in plan :
        /\ sender[pick.id] # "new"
        /\ pick.attempts <= MaxAttempts
        /\ pick.attempts <= picks[pick.id] + tries[pick.id] + 1
        /\ picks[pick.id] + 1 <= Before(tries[pick.id]) + pick.attempts
        /\ \A other \in plan : other.id = pick.id => other = pick

CapInv == \A id \in Queued : picks[id] <= Before(tries[id]) + MaxAttempts

CountInv == NewInv /\ RecordInv /\ PlanInv /\ CapInv

\* What is about to be deleted has a cause.
CauseInv ==
    /\ \A id \in Queued : heard[id] > 0 \/ found[id] > 0 => id \in confirmed
    /\ pc = "sweep" => listed \subseteq stale
    /\ pc = "clean" => \A id \in listed : picks[id] + tries[id] >= CleanAt

-----------------------------------------------------------------------------
LEMMA BeforeStep ==
    ASSUME NEW t \in Nat
    PROVE  Before(t) \in Nat /\ Before(t + 1) = Before(t) + MaxAttempts
  BY DEF Before

LEMMA BeforeZero == Before(0) = 0
  BY DEF Before

-----------------------------------------------------------------------------
(***************************************************************************)
(* Types and counts.                                                       *)
(***************************************************************************)

SendInv == pc \in {"send", "mark"} => current \in Queued

TypeInv == OutboxTypeOK /\ SendInv /\ CountInv

\* What a write does to the table.
LEMMA Writes ==
    ASSUME OutboxTypeOK, NEW id \in Queued
    PROVE  /\ \A r \in Record : Update(id, r) =>
                 /\ outbox' \in [Queued -> Record \cup {NoRecord}]
                 /\ InStore' = InStore
                 /\ id \in InStore => outbox'[id] = r
                 /\ \A o \in Queued \ {id} : outbox'[o] = outbox[o]
           /\ \A ids \in SUBSET Queued : Delete(ids) =>
                 /\ outbox' \in [Queued -> Record \cup {NoRecord}]
                 /\ InStore' = InStore \ ids
                 /\ \A o \in InStore' : outbox'[o] = outbox[o]
           /\ \A isTransient \in BOOLEAN, attempts \in Nat : Put(id, isTransient, attempts) =>
                 /\ outbox' \in [Queued -> Record \cup {NoRecord}]
                 /\ InStore' = InStore \cup {id}
                 /\ outbox'[id].attempts = attempts
                 /\ \A o \in Queued \ {id} : outbox'[o] = outbox[o]
  <1>1. ASSUME NEW r \in Record, Update(id, r)
        PROVE  /\ outbox' \in [Queued -> Record \cup {NoRecord}]
               /\ InStore' = InStore
               /\ id \in InStore => outbox'[id] = r
               /\ \A o \in Queued \ {id} : outbox'[o] = outbox[o]
    BY <1>1 DEF OutboxTypeOK, Update, InStore
  <1>2. ASSUME NEW ids \in SUBSET Queued, Delete(ids)
        PROVE  /\ outbox' \in [Queued -> Record \cup {NoRecord}]
               /\ InStore' = InStore \ ids
               /\ \A o \in InStore' : outbox'[o] = outbox[o]
    BY <1>2 DEF OutboxTypeOK, Delete, InStore
  <1>3. ASSUME NEW isTransient \in BOOLEAN, NEW attempts \in Nat,
               Put(id, isTransient, attempts)
        PROVE  /\ outbox' \in [Queued -> Record \cup {NoRecord}]
               /\ InStore' = InStore \cup {id}
               /\ outbox'[id].attempts = attempts
               /\ \A o \in Queued \ {id} : outbox'[o] = outbox[o]
    <2> DEFINE r == [status |-> "pending", transient |-> isTransient, attempts |-> attempts,
                     due |-> TRUE, overdue |-> FALSE]
    <2>1. r \in Record
      BY DEF Record
    <2>2. outbox' = [outbox EXCEPT ![id] = r]
      BY <1>3 DEF Put
    <2>3. r.attempts = attempts
      OBVIOUS
    <2> HIDE DEF r
    <2>4. QED
      BY <2>1, <2>2, <2>3 DEF OutboxTypeOK, InStore
  <1>4. QED
    BY <1>1, <1>2, <1>3

\* Replacing fields of a stored record gives a record, with its attempts.
LEMMA Fields ==
    ASSUME OutboxTypeOK, NEW id \in InStore, NEW s \in {"pending", "in_flight", "acked"},
           NEW n \in Nat, NEW b \in BOOLEAN
    PROVE  /\ outbox[id] \in Record
           /\ [outbox[id] EXCEPT !.status = s] \in Record
           /\ [outbox[id] EXCEPT !.status = s].attempts = outbox[id].attempts
           /\ [outbox[id] EXCEPT !.status = s, !.overdue = b] \in Record
           /\ [outbox[id] EXCEPT !.status = s, !.overdue = b].attempts = outbox[id].attempts
           /\ [outbox[id] EXCEPT !.status = s, !.due = TRUE, !.overdue = b] \in Record
           /\ [outbox[id] EXCEPT !.status = s, !.due = TRUE, !.overdue = b].attempts
                 = outbox[id].attempts
           /\ [outbox[id] EXCEPT !.attempts = n, !.due = FALSE] \in Record
           /\ [outbox[id] EXCEPT !.attempts = n, !.due = FALSE].attempts = n
           /\ [outbox[id] EXCEPT !.due = b] \in Record
           /\ [outbox[id] EXCEPT !.due = b].attempts = outbox[id].attempts
           /\ [outbox[id] EXCEPT !.overdue = b] \in Record
           /\ [outbox[id] EXCEPT !.overdue = b].attempts = outbox[id].attempts
  <1>1. outbox[id] \in Record
    BY DEF OutboxTypeOK, InStore
  <1>2. ASSUME NEW r \in Record
        PROVE  /\ [r EXCEPT !.status = s] \in Record
               /\ [r EXCEPT !.status = s].attempts = r.attempts
               /\ [r EXCEPT !.status = s, !.overdue = b] \in Record
               /\ [r EXCEPT !.status = s, !.overdue = b].attempts = r.attempts
               /\ [r EXCEPT !.status = s, !.due = TRUE, !.overdue = b] \in Record
               /\ [r EXCEPT !.status = s, !.due = TRUE, !.overdue = b].attempts = r.attempts
    BY DEF Record
  <1>3. ASSUME NEW r \in Record
        PROVE  /\ [r EXCEPT !.attempts = n, !.due = FALSE] \in Record
               /\ [r EXCEPT !.attempts = n, !.due = FALSE].attempts = n
               /\ [r EXCEPT !.due = b] \in Record
               /\ [r EXCEPT !.due = b].attempts = r.attempts
               /\ [r EXCEPT !.overdue = b] \in Record
               /\ [r EXCEPT !.overdue = b].attempts = r.attempts
    BY DEF Record
  <1>4. QED
    BY <1>1, <1>2, <1>3

\* A step that writes no counter keeps the counts.
LEMMA CountsKept ==
    ASSUME OutboxTypeOK, CountInv, UNCHANGED <<tries, picks>>,
           plan' \subseteq plan, InStore' \subseteq InStore,
           \A id \in InStore' : outbox'[id].attempts = outbox[id].attempts,
           \A id \in Queued : /\ sender'[id] = "new" => sender[id] = "new"
                              /\ sender'[id] = "starting" =>
                                     sender[id] = "starting" \/ tries[id] < MaxTries
    PROVE  CountInv'
  <1>1. NewInv'
    BY DEF CountInv, NewInv, InStore
  <1>2. RecordInv'
    BY DEF CountInv, RecordInv
  <1>3. PlanInv'
    BY DEF CountInv, PlanInv, OutboxTypeOK, Pick
  <1>4. CapInv'
    BY DEF CountInv, CapInv
  <1>5. QED
    BY <1>1, <1>2, <1>3, <1>4 DEF CountInv

\* An update that keeps the attempts, of a record or of none.
LEMMA Touched ==
    ASSUME OutboxTypeOK, NEW id \in Queued
    PROVE  \A r : (id \in InStore => r \in Record /\ r.attempts = outbox[id].attempts)
                  /\ Update(id, r)
               => /\ outbox' \in [Queued -> Record \cup {NoRecord}]
                  /\ InStore' = InStore
                  /\ \A o \in InStore' : outbox'[o].attempts = outbox[o].attempts
  <1> TAKE r
  <1> HAVE (id \in InStore => r \in Record /\ r.attempts = outbox[id].attempts) /\ Update(id, r)
  <1>1. CASE id \in InStore
    <2>1. /\ outbox' \in [Queued -> Record \cup {NoRecord}]
          /\ InStore' = InStore
          /\ outbox'[id] = r
          /\ \A o \in Queued \ {id} : outbox'[o] = outbox[o]
      BY <1>1, Writes
    <2>2. \A o \in InStore : outbox'[o].attempts = outbox[o].attempts
      BY <1>1, <2>1 DEF InStore
    <2>3. QED
      BY <2>1, <2>2
  <1>2. CASE id \notin InStore
    <2>1. outbox' = outbox
      BY <1>2 DEF Update, InStore, OutboxTypeOK
    <2>2. QED
      BY <2>1 DEF OutboxTypeOK, InStore
  <1>3. QED
    BY <1>1, <1>2

LEMMA Deleted ==
    ASSUME OutboxTypeOK, NEW ids \in SUBSET Queued, Delete(ids)
    PROVE  /\ outbox' \in [Queued -> Record \cup {NoRecord}]
           /\ InStore' \subseteq InStore
           /\ \A o \in InStore' : outbox'[o].attempts = outbox[o].attempts
  BY DEF OutboxTypeOK, Delete, InStore

LEMMA TypeInit == OutboxInit => TypeInv
  <1>1. OutboxInit => OutboxTypeOK
    BY DEF OutboxInit, OutboxTypeOK
  <1>2. OutboxInit => CountInv
    BY BeforeZero DEF OutboxInit, CountInv, NewInv, RecordInv, PlanInv, CapInv, InStore
  <1>3. OutboxInit => SendInv
    BY DEF OutboxInit, SendInv
  <1>4. QED
    BY <1>1, <1>2, <1>3 DEF TypeInv

\* The steps of sendCiphertext.
LEMMA SendingTypes ==
    ASSUME TypeInv, NEW id \in Queued,
           \/ \E isTransient \in BOOLEAN : SendCiphertext(id, isTransient)
           \/ Sending(id) \/ RewriteFails(id)
    PROVE  TypeInv'
  <1> USE DEF TypeInv
  <1>1. ASSUME NEW isTransient \in BOOLEAN, SendCiphertext(id, isTransient)
        PROVE  TypeInv'
    <2>1. /\ outbox' \in [Queued -> Record \cup {NoRecord}]
          /\ InStore' = InStore \cup {id}
          /\ outbox'[id].attempts = 0
          /\ \A o \in Queued \ {id} : outbox'[o] = outbox[o]
      BY <1>1, Writes DEF SendCiphertext
    <2>2. OutboxTypeOK'
      BY <1>1, <2>1 DEF OutboxTypeOK, SendCiphertext, schedulerVars, ackVars, boundVars
    <2>3. /\ sender[id] = "new" /\ tries[id] = 0 /\ picks[id] = 0
          /\ UNCHANGED <<plan, tries, picks>>
          /\ sender' \in [Queued -> {"new", "starting", "sending", "done"}]
          /\ sender'[id] # "new" /\ \A o \in Queued \ {id} : sender'[o] = sender[o]
      BY <1>1 DEF SendCiphertext, schedulerVars, CountInv, NewInv, OutboxTypeOK
    <2>4. NewInv'
      BY <2>1, <2>3 DEF CountInv, NewInv, OutboxTypeOK
    <2>5. RecordInv'
      <3>1. outbox'[id].attempts = 0 /\ picks'[id] = 0 /\ tries'[id] = 0
        BY <2>1, <2>3
      <3>2. \A o \in InStore' \ {id} : /\ o \in InStore /\ outbox'[o] = outbox[o]
                                       /\ picks'[o] = picks[o] /\ tries'[o] = tries[o]
        BY <2>1, <2>3 DEF InStore
      <3>3. QED
        BY <3>1, <3>2, BeforeZero DEF CountInv, RecordInv
    <2>6. PlanInv' /\ CapInv'
      BY <2>3 DEF CountInv, PlanInv, CapInv, OutboxTypeOK, Pick
    <2>7. SendInv'
      BY <1>1 DEF SendInv, SendCiphertext, schedulerVars
    <2>8. QED
      BY <2>2, <2>4, <2>5, <2>6, <2>7 DEF CountInv
  <1>2. CASE Rewrite(id)
    <2> DEFINE t == tries[id]
    <2>1. /\ tries' = [tries EXCEPT ![id] = t + 1] /\ t \in Nat /\ t < MaxTries
          /\ sender' = [sender EXCEPT ![id] = "sending"] /\ sender[id] = "starting"
          /\ UNCHANGED <<plan, picks>>
      BY <1>2 DEF Rewrite, CountInv, NewInv, OutboxTypeOK, schedulerVars
    <2>2. /\ outbox' \in [Queued -> Record \cup {NoRecord}]
          /\ InStore' = InStore \cup {id}
          /\ outbox'[id].attempts = t + 1
          /\ \A o \in Queued \ {id} : outbox'[o] = outbox[o]
      <3>1. Put(id, transient[id], t + 1)
        BY <1>2, <2>1 DEF Rewrite, OutboxTypeOK
      <3>2. QED
        BY <2>1, <3>1, Writes DEF OutboxTypeOK
    <2>3. OutboxTypeOK'
      <3>1. /\ t + 1 \in 0..MaxTries /\ tries' \in [Queued -> 0..MaxTries]
            /\ sender' \in [Queued -> {"new", "starting", "sending", "done"}]
        BY <2>1 DEF OutboxTypeOK
      <3>2. QED
        BY <1>2, <2>2, <3>1 DEF OutboxTypeOK, Rewrite, schedulerVars, ackVars, boundVars
    <2>4. /\ Before(t + 1) = Before(t) + MaxAttempts /\ Before(t) \in Nat
          /\ tries'[id] = t + 1 /\ \A o \in Queued \ {id} : tries'[o] = tries[o]
          /\ \A o \in Queued : picks'[o] = picks[o] /\ picks[o] \in Nat /\ tries[o] \in Nat
      BY <2>1, BeforeStep DEF OutboxTypeOK
    <2>5. NewInv'
      BY <2>1, <2>2, <2>4 DEF CountInv, NewInv, OutboxTypeOK
    <2>6. CapInv'
      BY <2>4 DEF CountInv, CapInv
    <2>7. RecordInv'
      <3>1. \A o \in InStore' \ {id} : /\ o \in InStore /\ outbox'[o] = outbox[o]
                                       /\ picks'[o] = picks[o] /\ tries'[o] = tries[o]
        BY <2>2, <2>4 DEF InStore
      <3>2. picks[id] <= Before(t) + MaxAttempts
        BY DEF CountInv, CapInv
      <3>3. /\ t + 1 <= picks'[id] + tries'[id]
            /\ picks'[id] <= Before(tries'[id]) + (t + 1)
        BY <2>1, <2>4, <3>2
      <3>4. QED
        BY <2>2, <3>1, <3>3 DEF CountInv, RecordInv
    <2>8. PlanInv'
      <3>1. \A pick \in plan : pick.id \in Queued /\ pick.attempts \in Nat
        BY DEF OutboxTypeOK, Pick
      <3>2. sender'[id] # "new" /\ \A o \in Queued \ {id} : sender'[o] = sender[o]
        BY <2>1 DEF OutboxTypeOK
      <3>3. QED
        BY <2>1, <2>4, <3>1, <3>2 DEF CountInv, PlanInv
    <2>9. SendInv'
      BY <1>2 DEF SendInv, Rewrite, schedulerVars
    <2>10. QED
      BY <2>3, <2>5, <2>6, <2>7, <2>8, <2>9 DEF CountInv
  <1>3. CASE FirstSent(id) \/ FirstFails(id)
    <2>1. OutboxTypeOK'
      BY <1>3 DEF OutboxTypeOK, FirstSent, FirstFails, Acknowledge, schedulerVars, ackVars, boundVars
    <2>2. /\ UNCHANGED <<tries, picks, plan, outbox>>
          /\ \A o \in Queued : /\ sender'[o] = "new" => sender[o] = "new"
                               /\ sender'[o] = "starting" =>
                                      sender[o] = "starting" \/ tries[o] < MaxTries
      BY <1>3 DEF OutboxTypeOK, FirstSent, FirstFails, schedulerVars
    <2>3. SendInv'
      BY <1>3 DEF SendInv, FirstSent, FirstFails, schedulerVars
    <2>4. QED
      BY <2>1, <2>2, <2>3, CountsKept DEF InStore
  <1>4. CASE RewriteFails(id)
    <2> DEFINE t == tries[id]
    <2>1. /\ tries' = [tries EXCEPT ![id] = t + 1] /\ t \in Nat /\ t < MaxTries
          /\ sender' \in [Queued -> {"new", "starting", "sending", "done"}]
          /\ \A o \in Queued : sender'[o] = "new" <=> sender[o] = "new"
          /\ \A o \in Queued : sender'[o] = "starting" =>
                                sender[o] = "starting" /\ tries'[o] < MaxTries
          /\ sender[id] = "starting"
          /\ UNCHANGED <<plan, picks, outbox>>
      BY <1>4 DEF RewriteFails, CountInv, NewInv, OutboxTypeOK, schedulerVars
    <2>2. t + 1 \in 0..MaxTries /\ tries' \in [Queued -> 0..MaxTries]
      BY <2>1 DEF OutboxTypeOK
    <2>3. OutboxTypeOK' /\ SendInv'
      BY <1>4, <2>1, <2>2 DEF OutboxTypeOK, SendInv, RewriteFails, Fault, schedulerVars, ackVars
    <2>4. /\ \A o \in Queued : /\ picks'[o] = picks[o] /\ picks[o] \in Nat
                               /\ tries[o] \in Nat /\ tries'[o] \in Nat /\ tries[o] <= tries'[o]
                               /\ Before(tries[o]) \in Nat /\ Before(tries'[o]) \in Nat
                               /\ Before(tries[o]) <= Before(tries'[o])
          /\ \A o \in Queued \ {id} : tries'[o] = tries[o]
      <3>1. Before(t + 1) = Before(t) + MaxAttempts /\ Before(t) \in Nat
        BY <2>1, BeforeStep
      <3>2. tries'[id] = t + 1 /\ \A o \in Queued \ {id} : tries'[o] = tries[o]
        BY <2>1 DEF OutboxTypeOK
      <3>3. \A o \in Queued : picks[o] \in Nat /\ tries[o] \in Nat /\ Before(tries[o]) \in Nat
        BY BeforeStep DEF OutboxTypeOK
      <3>4. Before(tries'[id]) = Before(t) + MaxAttempts
        BY <3>1, <3>2
      <3>5. QED
        BY <2>1, <3>1, <3>2, <3>3, <3>4
    <2>5. NewInv'
      BY <2>1, <2>4 DEF CountInv, NewInv
    <2>6. RecordInv'
      <3>1. \A o \in InStore : outbox[o].attempts \in Nat /\ o \in Queued
        BY DEF InStore, OutboxTypeOK, Record
      <3>2. InStore' = InStore
        BY <2>1 DEF InStore
      <3>3. QED
        BY <2>1, <2>4, <3>1, <3>2 DEF CountInv, RecordInv
    <2>7. PlanInv'
      <3>1. \A pick \in plan : pick.id \in Queued /\ pick.attempts \in Nat
        BY DEF OutboxTypeOK, Pick
      <3>2. QED
        BY <2>1, <2>4, <3>1 DEF CountInv, PlanInv
    <2>8. CapInv'
      BY <2>4 DEF CountInv, CapInv
    <2>9. QED
      BY <2>3, <2>5, <2>6, <2>7, <2>8 DEF CountInv
  <1>5. QED
    BY <1>1, <1>2, <1>3, <1>4 DEF Sending

\* The handler of acknowledgements.
LEMMA AckTypes ==
    ASSUME TypeInv, NEW id \in Queued, AckStep(id) \/ AckFails(id)
    PROVE  TypeInv'
  <1> USE DEF TypeInv
  <1>1. UNCHANGED <<tries, picks, plan, sender>>
    BY DEF AckStep, AckFails, ReadForAck, ApplyAck, PutReceipt, schedulerVars, senderVars
  <1>2. /\ outbox' \in [Queued -> Record \cup {NoRecord}]
        /\ InStore' \subseteq InStore
        /\ \A o \in InStore' : outbox'[o].attempts = outbox[o].attempts
    <2>1. CASE UNCHANGED outbox
      BY <2>1 DEF OutboxTypeOK, InStore
    <2>2. CASE ApplyAck(id)
      <3>1. CASE transient[id]
        BY <2>2, <3>1, Deleted DEF ApplyAck
      <3>2. CASE ~transient[id]
        BY <2>2, <3>2, Touched, Fields DEF ApplyAck
      <3>3. QED
        BY <3>1, <3>2
    <2>3. QED
      BY <2>1, <2>2 DEF AckStep, AckFails, ReadForAck, PutReceipt
  <1>3. OutboxTypeOK'
    <2>1. /\ heard' \in [Queued -> Nat] /\ found' \in [Queued -> Nat] /\ noted' \in [Queued -> Nat]
          /\ receipts' \subseteq Queued /\ faults' \in 0..MaxFaults
      BY DEF OutboxTypeOK, AckStep, AckFails, ReadForAck, ApplyAck, ReceiptNext, PutReceipt, Fault,
             boundVars
    <2>2. QED
      BY <1>1, <1>2, <2>1 DEF OutboxTypeOK, AckStep, AckFails, ReadForAck, ApplyAck, PutReceipt,
                              schedulerVars, senderVars, boundVars
  <1>4. SendInv'
    BY DEF SendInv, AckStep, AckFails, ReadForAck, ApplyAck, PutReceipt, schedulerVars
  <1>5. QED
    BY <1>1, <1>2, <1>3, <1>4, CountsKept

\* The scheduler, but for making a plan and picking a record up.
LEMMA TickTypes ==
    ASSUME TypeInv,
           \/ Starting \/ FindExpired \/ DeleteExpired \/ FindTimedOut
           \/ \E id \in listed : Demote(id)
           \/ \E pick \in plan : Skip(pick)
           \/ EndTick \/ Mark \/ Sent \/ TickFails \/ StartFails
    PROVE  TypeInv'
  <1> USE DEF TypeInv
  <1>1. UNCHANGED <<tries, picks, sender>> /\ plan' \subseteq plan
    BY DEF Starting, Launch, DeleteFailed, FindExpired, DeleteExpired, FindTimedOut, Demote, Skip,
           EndTick, Mark, Sent, SendOk, SendFails, StartFails, TickFails, senderVars
  <1>2. /\ outbox' \in [Queued -> Record \cup {NoRecord}]
        /\ InStore' \subseteq InStore
        /\ \A o \in InStore' : outbox'[o].attempts = outbox[o].attempts
    <2>1. CASE UNCHANGED outbox
      BY <2>1 DEF OutboxTypeOK, InStore
    <2>2. CASE DeleteFailed \/ DeleteExpired
      BY <2>2, Deleted DEF DeleteFailed, DeleteExpired, OutboxTypeOK
    <2>3. ASSUME NEW id \in listed, Demote(id)
          PROVE  <1>2!1 /\ <1>2!2 /\ <1>2!3
      <3> DEFINE r == [outbox[id] EXCEPT !.status = "pending", !.due = TRUE, !.overdue = FALSE]
      <3>1. id \in Queued /\ Update(id, r)
        BY <2>3 DEF Demote, OutboxTypeOK
      <3>2. id \in InStore => r \in Record /\ r.attempts = outbox[id].attempts
        BY Fields
      <3> HIDE DEF r
      <3>3. QED
        BY <3>1, <3>2, Touched
    <2>4. CASE Mark
      <3>1. current \in Queued
        BY <2>4 DEF Mark, SendInv
      <3>2. CASE current \notin In("acked")
        BY <2>4, <3>1, <3>2, Touched, Fields DEF Mark, MarkUnlessAcked
      <3>3. CASE current \in In("acked")
        BY <2>1, <2>4, <3>3 DEF Mark, MarkUnlessAcked
      <3>4. QED
        BY <3>2, <3>3
    <2>5. QED
      BY <2>1, <2>2, <2>3, <2>4
      DEF Starting, Launch, FindExpired, FindTimedOut, Skip, EndTick, Sent, SendOk, SendFails,
          StartFails, TickFails
  <1>3. OutboxTypeOK'
    <2>1. /\ listed' \subseteq Queued /\ plan' \subseteq Pick /\ inFlight' \subseteq Queued
          /\ current' \in Queued \cup {NoId}
          /\ pc' \in {"closed", "clean", "idle", "sweep", "swept", "demote", "pick", "send", "mark",
                    "stopped"}
      BY <1>1 DEF OutboxTypeOK, Starting, Launch, DeleteFailed, FindExpired, DeleteExpired, FindTimedOut,
                  Demote, Skip, EndTick, Mark, Sent, SendOk, SendFails, NextRecord, StartFails,
                  TickFails, In,
                  InStore, Expired, TimedOut, Pick
    <2>2. heard' \in [Queued -> Nat] /\ confirmed' \subseteq Queued /\ faults' \in 0..MaxFaults
      <3>1. CASE SendOk
        BY <3>1 DEF SendInv, SendOk, Acknowledge, OutboxTypeOK, boundVars
      <3>2. CASE TickFails \/ StartFails
        BY <3>2 DEF TickFails, StartFails, Fault, OutboxTypeOK, ackVars
      <3>3. CASE UNCHANGED <<heard, confirmed, faults>>
        BY <3>3 DEF OutboxTypeOK
      <3>4. QED
        BY <3>1, <3>2, <3>3
        DEF Starting, Launch, DeleteFailed, FindExpired, DeleteExpired, FindTimedOut, Demote, Skip,
            EndTick, Mark, Sent, SendFails, ackVars, boundVars
    <2>3. UNCHANGED <<receipts, stale, senderVars, found, noted, picks, reloads>>
      BY DEF Starting, Launch, DeleteFailed, FindExpired, DeleteExpired, FindTimedOut,
             Demote, Skip, EndTick, Mark, Sent, SendOk, SendFails, StartFails, TickFails,
             ackVars, boundVars
    <2>4. QED
      BY <1>2, <2>1, <2>2, <2>3 DEF OutboxTypeOK, senderVars
  <1>4. SendInv'
    BY DEF SendInv, Starting, Launch, DeleteFailed, FindExpired, DeleteExpired, FindTimedOut,
           Demote,
           Skip, EndTick, Mark, Sent, SendOk, SendFails, NextRecord, StartFails, TickFails
  <1>5. QED
    BY <1>1, <1>2, <1>3, <1>4, CountsKept

\* What is planned fits the counts of the records it was made from.
LEMMA PlanTypes ==
    ASSUME TypeInv, MakePlan(Planned) \/ MakePlan({})
    PROVE  TypeInv'
  <1> USE DEF TypeInv
  <1>1. /\ UNCHANGED <<outbox, tries, picks, sender>>
        /\ plan' = Planned \/ plan' = {}
    BY DEF MakePlan, senderVars
  <1>2. ASSUME NEW pick \in Planned
        PROVE  \E id \in InStore : /\ pick = [id |-> id, attempts |-> outbox[id].attempts + 1]
                                   /\ outbox[id].attempts < MaxAttempts
                                   /\ outbox[id].attempts \in Nat
    BY DEF Planned, Counted, In, InStore, OutboxTypeOK, Record
  <1>3. ASSUME NEW pick \in Planned
        PROVE  /\ pick \in Pick
               /\ sender[pick.id] # "new"
               /\ pick.attempts <= MaxAttempts
               /\ pick.attempts <= picks[pick.id] + tries[pick.id] + 1
               /\ picks[pick.id] + 1 <= Before(tries[pick.id]) + pick.attempts
               /\ pick.attempts = outbox[pick.id].attempts + 1
    <2>1. PICK id \in InStore : /\ pick = [id |-> id, attempts |-> outbox[id].attempts + 1]
                                /\ outbox[id].attempts < MaxAttempts
                                /\ outbox[id].attempts \in Nat
      BY <1>2
    <2>2. pick \in Pick /\ pick.id = id /\ pick.attempts = outbox[id].attempts + 1
      BY <2>1 DEF Pick, InStore
    <2>3. sender[id] # "new"
      BY DEF CountInv, NewInv, InStore
    <2>4. /\ outbox[id].attempts <= picks[id] + tries[id]
          /\ picks[id] <= Before(tries[id]) + outbox[id].attempts
      BY DEF CountInv, RecordInv
    <2>5. picks[id] \in Nat /\ tries[id] \in Nat /\ Before(tries[id]) \in Nat
      BY BeforeStep DEF OutboxTypeOK, InStore
    <2>6. QED
      BY <2>1, <2>2, <2>3, <2>4, <2>5
  <1>4. ASSUME NEW pick \in Planned, NEW other \in Planned, other.id = pick.id
        PROVE  other = pick
    <2>1. /\ other = [id |-> other.id, attempts |-> outbox[other.id].attempts + 1]
          /\ pick = [id |-> pick.id, attempts |-> outbox[pick.id].attempts + 1]
      BY <1>2
    <2>2. QED
      BY <1>4, <2>1
  <1>5. PlanInv'
    BY <1>1, <1>3, <1>4 DEF PlanInv
  <1>6. NewInv' /\ RecordInv' /\ CapInv'
    BY <1>1 DEF CountInv, NewInv, RecordInv, CapInv, InStore
  <1>7. OutboxTypeOK'
    <2>1. plan' \subseteq Pick
      BY <1>1, <1>3
    <2>2. QED
      BY <2>1 DEF OutboxTypeOK, MakePlan, senderVars, ackVars, boundVars
  <1>8. SendInv'
    BY DEF SendInv, MakePlan
  <1>9. QED
    BY <1>5, <1>6, <1>7, <1>8 DEF CountInv

\* The count that a pickup writes is of the plan; the record may have changed since.
LEMMA PickTypes ==
    ASSUME TypeInv, NEW pick \in plan, PickUp(pick)
    PROVE  TypeInv'
  <1> USE DEF TypeInv
  <1> DEFINE id == pick.id
  <1>1. /\ id \in Queued /\ pick.attempts \in Nat
        /\ plan' = plan \ {pick}
        /\ picks' = [picks EXCEPT ![id] = @ + 1]
        /\ UNCHANGED <<tries, sender>>
    BY DEF PickUp, OutboxTypeOK, Pick, senderVars
  <1>2. /\ picks'[id] = picks[id] + 1 /\ \A o \in Queued \ {id} : picks'[o] = picks[o]
        /\ \A o \in Queued : /\ picks[o] \in Nat /\ tries[o] \in Nat /\ Before(tries[o]) \in Nat
                             /\ tries'[o] = tries[o]
    BY <1>1, BeforeStep DEF OutboxTypeOK
  <1>3. /\ outbox' \in [Queued -> Record \cup {NoRecord}]
        /\ InStore' \subseteq InStore
        /\ id \in InStore => outbox'[id].attempts = pick.attempts
        /\ \A o \in Queued \ {id} : outbox'[o] = outbox[o]
    <2>1. CASE id \in InStore
      <3> DEFINE r == [outbox[id] EXCEPT !.attempts = pick.attempts, !.due = FALSE]
      <3>1. r \in Record /\ r.attempts = pick.attempts
        BY <1>1, <2>1, Fields
      <3>2. Update(id, r)
        BY DEF PickUp
      <3> HIDE DEF r
      <3>3. QED
        BY <1>1, <2>1, <3>1, <3>2, Writes
    <2>2. CASE id \notin InStore
      <3>1. outbox' = outbox
        BY <1>1, <2>2 DEF PickUp, Update, InStore, OutboxTypeOK
      <3>2. QED
        BY <2>2, <3>1 DEF OutboxTypeOK, InStore
    <2>3. QED
      BY <2>1, <2>2
  <1>4. /\ sender[id] # "new"
        /\ pick.attempts <= MaxAttempts
        /\ pick.attempts <= picks[id] + tries[id] + 1
        /\ picks[id] + 1 <= Before(tries[id]) + pick.attempts
        /\ \A other \in plan : other.id = id => other = pick
    BY DEF CountInv, PlanInv
  <1>5. NewInv'
    BY <1>1, <1>2, <1>3, <1>4 DEF CountInv, NewInv, InStore
  <1>6. RecordInv'
    <2>1. \A o \in InStore' \ {id} : /\ o \in InStore /\ outbox'[o] = outbox[o] /\ o \in Queued
                                     /\ picks'[o] = picks[o] /\ tries'[o] = tries[o]
      BY <1>2, <1>3 DEF InStore
    <2>2. id \in InStore' => /\ outbox'[id].attempts <= picks'[id] + tries'[id]
                             /\ picks'[id] <= Before(tries'[id]) + outbox'[id].attempts
      BY <1>1, <1>2, <1>3, <1>4
    <2>3. QED
      BY <2>1, <2>2 DEF CountInv, RecordInv
  <1>7. CapInv'
    <2>1. picks'[id] <= Before(tries'[id]) + MaxAttempts
      BY <1>1, <1>2, <1>4
    <2>2. QED
      BY <1>2, <2>1 DEF CountInv, CapInv
  <1>8. PlanInv'
    <2>1. \A p \in plan' : p \in plan /\ p.id \in Queued \ {id}
      BY <1>1, <1>4 DEF OutboxTypeOK, Pick
    <2>2. QED
      BY <1>1, <1>2, <2>1 DEF CountInv, PlanInv
  <1>9. OutboxTypeOK' /\ SendInv'
    <2>1. plan' \subseteq Pick /\ picks' \in [Queued -> Nat]
      BY <1>1 DEF OutboxTypeOK
    <2>2. QED
      BY <1>1, <1>3, <2>1 DEF OutboxTypeOK, SendInv, PickUp, senderVars, ackVars, boundVars
  <1>10. QED
    BY <1>5, <1>6, <1>7, <1>8, <1>9 DEF CountInv

\* Reloads, and the passing of time.
LEMMA WorldTypes ==
    ASSUME TypeInv,
           \/ Reload
           \/ \E id \in Queued : BecomesDue(id) \/ BecomesOverdue(id) \/ Expires(id)
           \/ UNCHANGED outboxVars
    PROVE  TypeInv'
  <1> USE DEF TypeInv
  <1>1. CASE Reload
    <2>1. OutboxTypeOK' /\ SendInv'
      BY <1>1 DEF Reload, OutboxTypeOK, SendInv
    <2>2. /\ UNCHANGED <<tries, picks, outbox>> /\ plan' \subseteq plan
          /\ \A id \in Queued : /\ sender'[id] = "new" => sender[id] = "new"
                                /\ sender'[id] # "starting"
      BY <1>1 DEF Reload
    <2>3. QED
      BY <2>1, <2>2, CountsKept DEF InStore
  <1>2. ASSUME NEW id \in Queued, BecomesDue(id) \/ BecomesOverdue(id)
        PROVE  TypeInv'
    <2>1. PICK r \in Record : /\ outbox' = [outbox EXCEPT ![id] = r]
                              /\ r.attempts = outbox[id].attempts
      <3>1. CASE BecomesDue(id)
        <4>1. [outbox[id] EXCEPT !.due = TRUE] \in Record
              /\ [outbox[id] EXCEPT !.due = TRUE].attempts = outbox[id].attempts
          BY <3>1, Fields DEF BecomesDue
        <4>2. QED
          BY <3>1, <4>1 DEF BecomesDue
      <3>2. CASE BecomesOverdue(id)
        <4>1. [outbox[id] EXCEPT !.overdue = TRUE] \in Record
              /\ [outbox[id] EXCEPT !.overdue = TRUE].attempts = outbox[id].attempts
          BY <3>2, Fields DEF BecomesOverdue, In
        <4>2. QED
          BY <3>2, <4>1 DEF BecomesOverdue
      <3>3. QED
        BY <1>2, <3>1, <3>2
    <2>2. /\ id \in InStore
          /\ outbox' \in [Queued -> Record \cup {NoRecord}]
          /\ InStore' \subseteq InStore
          /\ \A o \in InStore' : outbox'[o].attempts = outbox[o].attempts
      BY <1>2, <2>1 DEF BecomesDue, BecomesOverdue, In, InStore, OutboxTypeOK
    <2>3. OutboxTypeOK' /\ SendInv' /\ UNCHANGED <<plan, tries, picks, sender>>
      BY <1>2, <2>2 DEF OutboxTypeOK, SendInv, BecomesDue, BecomesOverdue, schedulerVars, senderVars,
                        ackVars, boundVars
    <2>4. QED
      BY <2>2, <2>3, CountsKept
  <1>3. CASE UNCHANGED outboxVars \/ \E id \in Queued : Expires(id)
    <2>1. OutboxTypeOK' /\ SendInv' /\ UNCHANGED <<plan, tries, picks, sender, outbox>>
      BY <1>3 DEF OutboxTypeOK, SendInv, Expires, outboxVars, schedulerVars, senderVars, ackVars, boundVars
    <2>2. QED
      BY <2>1, CountsKept DEF InStore
  <1>4. QED
    BY <1>1, <1>2, <1>3

LEMMA TypeStep == TypeInv /\ [OutboxNext]_outboxVars => TypeInv'
  <1> SUFFICES ASSUME TypeInv, [OutboxNext]_outboxVars PROVE TypeInv'
    OBVIOUS
  <1>1. CASE \E id \in Queued : \/ \E isTransient \in BOOLEAN : SendCiphertext(id, isTransient)
                                \/ Sending(id) \/ RewriteFails(id)
                                \/ AckStep(id) \/ AckFails(id)
    BY <1>1, SendingTypes, AckTypes
  <1>2. CASE Starting \/ Sent \/ TickFails \/ StartFails
    BY <1>2, TickTypes
  <1>3. CASE Sweeping
    BY <1>3, TickTypes, PickTypes DEF Sweeping
  <1>4. CASE MakePlan(Planned) \/ MakePlan({})
    BY <1>4, PlanTypes
  <1>5. CASE \/ Reload \/ UNCHANGED outboxVars
             \/ \E id \in Queued : BecomesDue(id) \/ BecomesOverdue(id) \/ Expires(id)
    BY <1>5, WorldTypes
  <1>6. QED
    BY <1>1, <1>2, <1>3, <1>4, <1>5 DEF OutboxNext

\* The bound of the retry policy on pickups (deliveryScheduler.ts and scheduler.go).
LEMMA CapFollows == TypeInv => RetryCap
  <1> SUFFICES ASSUME TypeInv, NEW id \in Queued
               PROVE  picks[id] <= MaxAttempts * (tries[id] + 1)
    BY DEF RetryCap
  <1>1. picks[id] <= Before(tries[id]) + MaxAttempts
    BY DEF TypeInv, CountInv, CapInv
  <1>2. Before(tries[id] + 1) = Before(tries[id]) + MaxAttempts
    BY BeforeStep DEF TypeInv, OutboxTypeOK
  <1>3. QED
    BY <1>1, <1>2 DEF Before

-----------------------------------------------------------------------------
(***************************************************************************)
(* Why messages leave.                                                     *)
(***************************************************************************)

\* What has been said of an id before its record goes.
Cause(id) == id \in confirmed \cup stale \/ picks[id] + tries[id] >= CleanAt

LeaveInv == LeavesForCause /\ CauseInv

LEMMA LeaveInit == OutboxInit => LeaveInv
  BY DEF OutboxInit, LeaveInv, LeavesForCause, CauseInv

\* The history and the expired ids only grow, and so do causes.
LEMMA CausesStay ==
    ASSUME TypeInv, [OutboxNext]_outboxVars
    PROVE  /\ confirmed \subseteq confirmed' /\ stale \subseteq stale'
           /\ \A id \in Queued : picks[id] <= picks'[id] /\ tries[id] <= tries'[id]
  <1> USE DEF TypeInv
  <1>1. \A id \in Queued : picks[id] \in Nat /\ tries[id] \in Nat
    BY DEF OutboxTypeOK
  <1>2. ASSUME NEW id \in Queued, Rewrite(id) \/ RewriteFails(id)
        PROVE  /\ UNCHANGED <<confirmed, stale, picks>>
               /\ tries' = [tries EXCEPT ![id] = @ + 1]
    BY <1>2 DEF Rewrite, RewriteFails
  <1>3. ASSUME NEW pick \in plan, PickUp(pick)
        PROVE  /\ UNCHANGED <<confirmed, stale, tries>>
               /\ picks' = [picks EXCEPT ![pick.id] = @ + 1]
    BY <1>3 DEF PickUp, senderVars
  <1> DEFINE NoCount == /\ UNCHANGED <<picks, tries>>
                        /\ confirmed \subseteq confirmed' /\ stale \subseteq stale'
             Writing == \E id \in Queued : Rewrite(id) \/ RewriteFails(id)
             Picking == \E pick \in plan : PickUp(pick)
  <1>4. CASE NoCount
    BY <1>1, <1>4
  <1>5. CASE Writing
    BY <1>1, <1>2, <1>5 DEF OutboxTypeOK
  <1>6. CASE Picking
    BY <1>1, <1>3, <1>6 DEF OutboxTypeOK
  <1>7. NoCount \/ Writing \/ Picking
    <2>1. CASE \E id \in Queued : \/ \E isTransient \in BOOLEAN : SendCiphertext(id, isTransient)
                                  \/ Sending(id) \/ RewriteFails(id)
                                  \/ AckStep(id) \/ AckFails(id)
      BY <2>1 DEF SendCiphertext, Sending, FirstSent, FirstFails, Acknowledge, AckStep, AckFails,
                  ReadForAck, ApplyAck, PutReceipt, senderVars
    <2>2. CASE Starting \/ Sent \/ TickFails \/ StartFails \/ MakePlan(Planned) \/ MakePlan({})
      BY <2>2 DEF Starting, Launch, DeleteFailed, Sent, SendOk, SendFails, Acknowledge,
                  StartFails, TickFails,
                  MakePlan, senderVars
    <2>3. CASE Sweeping
      BY <2>3 DEF Sweeping, FindExpired, DeleteExpired, FindTimedOut, Demote, Skip, EndTick, Mark,
                  senderVars
    <2>4. CASE \/ Reload \/ UNCHANGED outboxVars
               \/ \E id \in Queued : BecomesDue(id) \/ BecomesOverdue(id) \/ Expires(id)
      BY <2>4 DEF Reload, BecomesDue, BecomesOverdue, Expires, outboxVars, senderVars
    <2>5. QED
      BY <2>1, <2>2, <2>3, <2>4 DEF OutboxNext
  <1>8. QED
    BY <1>4, <1>5, <1>6, <1>7

\* Three actions delete, and each has a cause.
LEMMA Removed ==
    ASSUME TypeInv, LeaveInv, [OutboxNext]_outboxVars, NEW gone \in InStore \ InStore'
    PROVE  Cause(gone)
  <1> USE DEF TypeInv
  <1>1. CASE InStore \subseteq InStore'
    BY <1>1
  <1>2. ASSUME NEW id \in Queued,
               \/ \E isTransient \in BOOLEAN : SendCiphertext(id, isTransient)
               \/ Sending(id) \/ RewriteFails(id)
               \/ AckStep(id) \/ AckFails(id)
        PROVE  Cause(gone)
    <2>1. CASE \E isTransient \in BOOLEAN : SendCiphertext(id, isTransient)
      BY <1>1, <2>1, Writes DEF SendCiphertext
    <2>2. CASE Rewrite(id)
      <3>1. tries'[id] \in Nat
        BY <2>2, TypeStep DEF OutboxTypeOK
      <3>2. QED
        BY <1>1, <2>2, <3>1, Writes DEF Rewrite, OutboxTypeOK
    <2>3. CASE ApplyAck(id)
      <3>1. id \in confirmed
        BY <2>3 DEF ApplyAck, LeaveInv, CauseInv
      <3>2. CASE transient[id]
        BY <2>3, <3>1, <3>2 DEF ApplyAck, Delete, InStore, Cause
      <3>3. CASE ~transient[id]
        BY <1>1, <2>3, <3>3, Touched, Fields DEF ApplyAck
      <3>4. QED
        BY <3>2, <3>3
    <2>4. CASE UNCHANGED outbox
      BY <1>1, <2>4 DEF InStore
    <2>5. QED
      BY <1>2, <2>1, <2>2, <2>3, <2>4
      DEF Sending, RewriteFails, FirstSent, FirstFails, AckStep, ReadForAck, PutReceipt, AckFails
  <1>3. CASE DeleteFailed \/ DeleteExpired
    BY <1>3 DEF DeleteFailed, DeleteExpired, Delete, InStore, LeaveInv, CauseInv, Cause
  <1>4. ASSUME NEW id \in listed, Demote(id)
        PROVE  Cause(gone)
    <2> DEFINE r == [outbox[id] EXCEPT !.status = "pending", !.due = TRUE, !.overdue = FALSE]
    <2>1. id \in Queued /\ Update(id, r)
      BY <1>4 DEF Demote, OutboxTypeOK
    <2>2. id \in InStore => r \in Record /\ r.attempts = outbox[id].attempts
      BY Fields
    <2> HIDE DEF r
    <2>3. QED
      BY <1>1, <2>1, <2>2, Touched
  <1>5. ASSUME NEW pick \in plan, PickUp(pick)
        PROVE  Cause(gone)
    <2> DEFINE r == [outbox[pick.id] EXCEPT !.attempts = pick.attempts, !.due = FALSE]
    <2>1. pick.id \in Queued /\ pick.attempts \in Nat /\ Update(pick.id, r)
      BY <1>5 DEF PickUp, OutboxTypeOK, Pick
    <2>2. pick.id \in InStore => r \in Record
      BY <2>1, Fields
    <2> HIDE DEF r
    <2>3. CASE pick.id \in InStore
      BY <1>1, <2>1, <2>2, <2>3, Writes
    <2>4. CASE pick.id \notin InStore
      BY <2>1, <2>4 DEF Update, InStore, OutboxTypeOK
    <2>5. QED
      BY <2>3, <2>4
  <1>6. CASE Mark
    <2>1. current \in Queued
      BY <1>6 DEF Mark, SendInv
    <2>2. CASE current \notin In("acked")
      BY <1>1, <1>6, <2>1, <2>2, Touched, Fields DEF Mark, MarkUnlessAcked
    <2>3. CASE current \in In("acked")
      BY <1>6, <2>3 DEF Mark, MarkUnlessAcked, InStore
    <2>4. QED
      BY <2>2, <2>3
  <1>7. ASSUME NEW id \in Queued, BecomesDue(id) \/ BecomesOverdue(id)
        PROVE  Cause(gone)
    <2>1. PICK r \in Record : outbox' = [outbox EXCEPT ![id] = r]
      <3>1. CASE BecomesDue(id)
        BY <3>1, Fields DEF BecomesDue
      <3>2. CASE BecomesOverdue(id)
        BY <3>2, Fields DEF BecomesOverdue, In
      <3>3. QED
        BY <1>7, <3>1, <3>2
    <2>2. QED
      BY <1>1, <2>1 DEF InStore, OutboxTypeOK
  <1>8. CASE UNCHANGED outbox
    BY <1>1, <1>8 DEF InStore
  <1>9. QED
    BY <1>2, <1>3, <1>4, <1>5, <1>6, <1>7, <1>8
    DEF OutboxNext, Starting, Launch, Sweeping, FindExpired, FindTimedOut, Skip, EndTick, MakePlan, Sent,
        SendOk, SendFails, StartFails, TickFails, Reload, Expires, outboxVars

\* Acknowledgements on their way were given, and lists hold what they were made for.
LEMMA CauseStep ==
    ASSUME TypeInv, LeaveInv, [OutboxNext]_outboxVars
    PROVE  CauseInv'
  <1> USE DEF TypeInv
  <1> DEFINE Heard == \A id \in Queued : heard[id] > 0 \/ found[id] > 0 => id \in confirmed
             Swept == pc = "sweep" => listed \subseteq stale
             Clean == pc = "clean" => \A id \in listed : picks[id] + tries[id] >= CleanAt
  <1>1. Heard /\ Swept /\ Clean
    BY DEF LeaveInv, CauseInv
  <1>2. /\ confirmed \subseteq confirmed' /\ stale \subseteq stale'
        /\ \A id \in Queued : /\ picks[id] <= picks'[id] /\ tries[id] <= tries'[id]
                              /\ picks[id] \in Nat /\ tries[id] \in Nat
                              /\ picks'[id] \in Nat /\ tries'[id] \in Nat
    BY CausesStay, TypeStep DEF OutboxTypeOK
  <1>3. Heard'
    <2>1. CASE \A id \in Queued : heard'[id] <= heard[id] /\ found'[id] <= found[id]
      BY <1>1, <1>2, <2>1, TypeStep DEF OutboxTypeOK
    <2>2. ASSUME NEW id \in Queued, Acknowledge(id), UNCHANGED found
          PROVE  Heard'
      BY <1>1, <2>2 DEF Acknowledge, OutboxTypeOK
    <2>3. ASSUME NEW id \in Queued, ReadForAck(id)
          PROVE  Heard'
      BY <1>1, <2>3 DEF ReadForAck, OutboxTypeOK
    <2>4. ASSUME NEW id \in Queued, ApplyAck(id) \/ AckFails(id)
          PROVE  \A o \in Queued : heard'[o] <= heard[o] /\ found'[o] <= found[o]
      BY <2>4 DEF ApplyAck, AckFails, OutboxTypeOK
    <2>5. CASE SendOk
      BY <2>2, <2>5 DEF SendOk, SendInv
    <2>6. CASE Reload
      BY <2>1, <2>6 DEF Reload, OutboxTypeOK
    <2>7. CASE UNCHANGED <<heard, found>>
      BY <2>1, <2>7 DEF OutboxTypeOK
    <2>8. QED
      BY <2>1, <2>2, <2>3, <2>4, <2>5, <2>6, <2>7
      DEF OutboxNext, SendCiphertext, Sending, Rewrite, RewriteFails, FirstSent, FirstFails, AckStep,
          PutReceipt,
          Starting, Launch, DeleteFailed, Sweeping, FindExpired, DeleteExpired, FindTimedOut,
          Demote, Skip, PickUp, EndTick, Mark, MakePlan, Sent, SendFails, StartFails, TickFails,
          BecomesDue,
          BecomesOverdue, Expires, outboxVars, ackVars
  <1>4. Swept'
    <2>1. CASE FindExpired
      BY <2>1 DEF FindExpired, Expired
    <2>2. CASE pc' # "sweep"
      BY <2>2
    <2>3. CASE UNCHANGED <<pc, listed>>
      BY <1>1, <1>2, <2>3
    <2>4. QED
      BY <2>1, <2>2, <2>3
      DEF OutboxNext, SendCiphertext, Sending, Rewrite, RewriteFails, FirstSent, FirstFails, AckStep,
          ReadForAck,
          ApplyAck, PutReceipt, AckFails, Starting, Launch, DeleteFailed, Sweeping, DeleteExpired,
          FindTimedOut, Demote, Skip, PickUp, EndTick, Mark, NextRecord, MakePlan, Sent, SendOk,
          SendFails, StartFails, TickFails, Reload, BecomesDue, BecomesOverdue, Expires, outboxVars,
          schedulerVars
  <1>5. Clean'
    <2>1. CASE Launch
      <3>1. ASSUME NEW id \in listed'
            PROVE  picks'[id] + tries'[id] >= CleanAt
        <4>1. id \in InStore /\ outbox[id].attempts >= CleanAt
          BY <2>1, <3>1 DEF Launch, In
        <4>2. outbox[id].attempts \in Nat
          BY <4>1 DEF InStore, OutboxTypeOK, Record
        <4>3. outbox[id].attempts <= picks[id] + tries[id]
          BY <4>1 DEF CountInv, RecordInv
        <4>4. QED
          BY <1>2, <4>1, <4>2, <4>3 DEF InStore
      <3>2. QED
        BY <3>1
    <2>2. CASE pc' # "clean"
      BY <2>2
    <2>3. CASE UNCHANGED <<pc, listed>>
      BY <1>1, <1>2, <2>3 DEF OutboxTypeOK
    <2>4. QED
      BY <2>1, <2>2, <2>3
      DEF OutboxNext, SendCiphertext, Sending, Rewrite, RewriteFails, FirstSent, FirstFails, AckStep,
          ReadForAck,
          ApplyAck, PutReceipt, AckFails, Starting, DeleteFailed, Sweeping, FindExpired,
          DeleteExpired, FindTimedOut, Demote, Skip, PickUp, EndTick, Mark, NextRecord, MakePlan,
          Sent, SendOk, SendFails, StartFails, TickFails, Reload, BecomesDue, BecomesOverdue,
          Expires, outboxVars,
          schedulerVars
  <1>6. QED
    BY <1>3, <1>4, <1>5 DEF CauseInv

LEMMA LeaveStep == TypeInv /\ LeaveInv /\ [OutboxNext]_outboxVars => LeaveInv'
  <1> SUFFICES ASSUME TypeInv, LeaveInv, [OutboxNext]_outboxVars PROVE LeaveInv'
    OBVIOUS
  <1>1. ASSUME NEW id \in Queued \ InStore', sender'[id] # "new"
        PROVE  Cause(id)'
    <2>1. Cause(id) => Cause(id)'
      BY CausesStay, TypeStep DEF Cause, TypeInv, OutboxTypeOK
    <2>2. CASE id \in InStore
      BY <2>1, <2>2, Removed
    <2>3. CASE id \notin InStore /\ sender[id] # "new"
      BY <2>1, <2>3 DEF LeaveInv, LeavesForCause, Cause
    <2>4. CASE sender[id] = "new"
      <3>1. CASE \E isTransient \in BOOLEAN : SendCiphertext(id, isTransient)
        BY <1>1, <3>1, Writes DEF SendCiphertext, TypeInv
      <3>2. CASE sender'[id] = sender[id]
        BY <1>1, <2>4, <3>2
      <3>3. CASE \E o \in Queued : \/ \E isTransient \in BOOLEAN : SendCiphertext(o, isTransient)
                                   \/ Sending(o) \/ RewriteFails(o)
        BY <2>4, <3>1, <3>2, <3>3
        DEF SendCiphertext, Sending, Rewrite, RewriteFails, FirstSent, FirstFails, TypeInv, OutboxTypeOK
      <3>4. QED
        BY <2>4, <3>2, <3>3
        DEF OutboxNext, AckStep, ReadForAck, ApplyAck, PutReceipt, AckFails, Starting, Launch,
            DeleteFailed, Sweeping, FindExpired, DeleteExpired, FindTimedOut, Demote, Skip, PickUp,
            EndTick, Mark, MakePlan, Sent, SendOk, SendFails, StartFails, TickFails, Reload,
            BecomesDue,
            BecomesOverdue, Expires, outboxVars, senderVars, TypeInv, OutboxTypeOK
    <2>5. QED
      BY <2>2, <2>3, <2>4
  <1>2. LeavesForCause'
    BY <1>1 DEF LeavesForCause, Cause
  <1>3. QED
    BY <1>2, CauseStep DEF LeaveInv

\* No message leaves the outbox without a cause, for any number of messages, faults and
\* reloads: what deleteExpiredOutbox, deleteFailedOutbox and onAckReceived delete after
\* an await still deserves it.
THEOREM LeavingHasACause == OutboxSpec => []LeavesForCause
  <1>1. LeaveInv => LeavesForCause
    BY DEF LeaveInv
  <1>2. QED
    BY TypeInit, TypeStep, LeaveInit, LeaveStep, <1>1, PTL DEF OutboxSpec
-----------------------------------------------------------------------------
(***************************************************************************)
(* Receipts.                                                               *)
(***************************************************************************)
LEMMA NotAcked ==
    ASSUME OutboxTypeOK, NEW id \in Queued, NEW r,
           \/ Update(id, r) \/ outbox' = [outbox EXCEPT ![id] = r],
           r.status # "acked" \/ (id \in InStore /\ r.status = outbox[id].status)
    PROVE  In("acked")' \subseteq In("acked")
  BY DEF OutboxTypeOK, Update, In, InStore

\* Only onAckReceived marks a record as acknowledged.
LEMMA OnlyApplied ==
    ASSUME TypeInv, [OutboxNext]_outboxVars
    PROVE  \/ In("acked")' \subseteq In("acked")
           \/ \E id \in Queued : ApplyAck(id) /\ In("acked")' \subseteq In("acked") \cup {id}
  <1> USE DEF TypeInv
  <1> DEFINE Goal == \/ In("acked")' \subseteq In("acked")
                     \/ \E id \in Queued : /\ ApplyAck(id)
                                           /\ In("acked")' \subseteq In("acked") \cup {id}
  <1>1. CASE UNCHANGED outbox
    BY <1>1 DEF In, InStore
  <1>2. ASSUME NEW ids, Delete(ids) PROVE In("acked")' \subseteq In("acked")
    BY <1>2 DEF Delete, In, InStore, OutboxTypeOK
  <1>3. ASSUME NEW id \in Queued, NEW isTransient, NEW attempts, Put(id, isTransient, attempts)
        PROVE  In("acked")' \subseteq In("acked")
    <2> DEFINE r == [status |-> "pending", transient |-> isTransient, attempts |-> attempts,
                     due |-> TRUE, overdue |-> FALSE]
    <2>1. outbox' = [outbox EXCEPT ![id] = r] /\ r.status = "pending"
      BY <1>3 DEF Put
    <2> HIDE DEF r
    <2>2. QED
      BY <2>1, NotAcked
  <1>4. ASSUME NEW id \in Queued, ApplyAck(id) PROVE Goal
    <2>1. CASE transient[id]
      BY <1>2, <1>4, <2>1 DEF ApplyAck
    <2>2. CASE ~transient[id]
      BY <1>4, <2>2 DEF ApplyAck, Update, In, InStore, OutboxTypeOK
    <2>3. QED
      BY <2>1, <2>2
  <1>5. ASSUME NEW id \in listed, Demote(id) PROVE In("acked")' \subseteq In("acked")
    <2> DEFINE r == [outbox[id] EXCEPT !.status = "pending", !.due = TRUE, !.overdue = FALSE]
    <2>1. id \in Queued /\ Update(id, r)
      BY <1>5 DEF Demote, OutboxTypeOK
    <2>2. id \in InStore => r.status = "pending"
      BY DEF InStore, OutboxTypeOK, Record
    <2> HIDE DEF r
    <2>3. QED
      BY <2>1, <2>2 DEF Update, In, InStore, OutboxTypeOK
  <1>6. ASSUME NEW pick \in plan, PickUp(pick) PROVE In("acked")' \subseteq In("acked")
    <2> DEFINE r == [outbox[pick.id] EXCEPT !.attempts = pick.attempts, !.due = FALSE]
    <2>1. pick.id \in Queued /\ Update(pick.id, r)
      BY <1>6 DEF PickUp, OutboxTypeOK, Pick
    <2>2. pick.id \in InStore => r.status = outbox[pick.id].status
      BY DEF InStore, OutboxTypeOK, Record
    <2> HIDE DEF r
    <2>3. QED
      BY <2>1, <2>2 DEF Update, In, InStore, OutboxTypeOK
  <1>7. ASSUME Mark PROVE In("acked")' \subseteq In("acked")
    <2> DEFINE r == [outbox[current] EXCEPT !.status = "in_flight", !.overdue = FALSE]
    <2>1. current \in Queued /\ (UNCHANGED outbox \/ Update(current, r))
      BY <1>7 DEF Mark, MarkUnlessAcked, SendInv
    <2>2. current \in InStore => r.status = "in_flight"
      BY DEF InStore, OutboxTypeOK, Record
    <2> HIDE DEF r
    <2>3. QED
      BY <1>1, <2>1, <2>2 DEF Update, In, InStore, OutboxTypeOK
  <1>8. ASSUME NEW id \in Queued, BecomesDue(id) \/ BecomesOverdue(id)
        PROVE  In("acked")' \subseteq In("acked")
    <2>1. id \in InStore
      BY <1>8 DEF BecomesDue, BecomesOverdue, In
    <2>2. PICK r : outbox' = [outbox EXCEPT ![id] = r] /\ r.status = outbox[id].status
      <3>1. /\ [outbox[id] EXCEPT !.due = TRUE].status = outbox[id].status
            /\ [outbox[id] EXCEPT !.overdue = TRUE].status = outbox[id].status
        BY <2>1 DEF InStore, OutboxTypeOK, Record
      <3>2. CASE BecomesDue(id)
        BY <3>1, <3>2 DEF BecomesDue
      <3>3. CASE BecomesOverdue(id)
        BY <3>1, <3>3 DEF BecomesOverdue
      <3>4. QED
        BY <1>8, <3>2, <3>3
    <2>3. QED
      BY <2>1, <2>2, NotAcked
  <1>9. QED
    <2>1. CASE \E id \in Queued : \/ \E isTransient \in BOOLEAN : SendCiphertext(id, isTransient)
                                  \/ Sending(id) \/ RewriteFails(id)
                                  \/ AckStep(id) \/ AckFails(id)
      BY <1>1, <1>3, <1>4, <2>1 DEF SendCiphertext, Sending, Rewrite, FirstSent, FirstFails,
           RewriteFails, AckStep, ReadForAck, PutReceipt, AckFails
    <2>2. CASE Starting \/ Sweeping \/ Sent
      BY <1>1, <1>2, <1>5, <1>6, <1>7, <2>2 DEF Starting, Launch, DeleteFailed, Sweeping,
           FindExpired, DeleteExpired, FindTimedOut, Skip, EndTick, Sent, SendOk, SendFails
    <2>3. CASE \/ MakePlan(Planned) \/ MakePlan({}) \/ StartFails \/ TickFails \/ Reload
               \/ \E id \in Queued : BecomesDue(id) \/ BecomesOverdue(id) \/ Expires(id)
               \/ UNCHANGED outboxVars
      BY <1>1, <1>8, <2>3 DEF MakePlan, StartFails, TickFails, Reload, Expires, outboxVars
    <2>4. QED
      BY <2>1, <2>2, <2>3 DEF OutboxNext

\* A receipt on its way arrives, unless an access fails or the renderer is reloaded.
LEMMA ReceiptsArrive ==
    ASSUME TypeInv, [OutboxNext]_outboxVars, faults' = 0, reloads' = 0, NEW id \in Queued
    PROVE  /\ faults + reloads = 0
           /\ id \in receipts => id \in receipts'
           /\ noted[id] > 0 => noted'[id] > 0 \/ id \in receipts'
  <1> USE DEF TypeInv
  <1>1. /\ faults \in Nat /\ reloads \in Nat /\ noted \in [Queued -> Nat]
        /\ faults' \in Nat /\ reloads' \in Nat
    BY TypeStep DEF OutboxTypeOK
  <1>3. ~Fault /\ ~Reload
    BY <1>1 DEF Fault, Reload
  <1>4. CASE UNCHANGED <<receipts, noted, faults, reloads>>
    BY <1>1, <1>4
  <1>5. ASSUME NEW o \in Queued, AckStep(o) \/ AckFails(o)
        PROVE  UNCHANGED <<receipts, noted, faults, reloads>> \/ PutReceipt(o) \/ ApplyAck(o)
    BY <1>3, <1>5 DEF AckStep, AckFails, ReadForAck, boundVars
  <1>6. ASSUME NEW o \in Queued, PutReceipt(o)
        PROVE  /\ faults + reloads = 0
               /\ id \in receipts => id \in receipts'
               /\ noted[id] > 0 => noted'[id] > 0 \/ id \in receipts'
    BY <1>1, <1>6 DEF PutReceipt, boundVars
  <1>7. ASSUME NEW o \in Queued, ApplyAck(o)
        PROVE  /\ faults + reloads = 0
               /\ id \in receipts => id \in receipts'
               /\ noted[id] > 0 => noted'[id] > 0 \/ id \in receipts'
    BY <1>1, <1>7 DEF ApplyAck, ReceiptNext, boundVars
  <1>8. QED
    <2>1. CASE \E o \in Queued : AckStep(o) \/ AckFails(o)
      BY <1>4, <1>5, <1>6, <1>7, <2>1
    <2>2. CASE \E o \in Queued : \/ \E isTransient \in BOOLEAN : SendCiphertext(o, isTransient)
                                  \/ Sending(o) \/ RewriteFails(o)
      BY <1>3, <1>4, <2>2 DEF SendCiphertext, Sending, Rewrite, FirstSent, FirstFails, Acknowledge,
           RewriteFails, ackVars, boundVars
    <2>3. CASE Starting \/ Sweeping \/ Sent
      BY <1>4, <2>3 DEF Starting, Launch, DeleteFailed, Sweeping, Demote, PickUp, Mark,
           FindExpired, DeleteExpired, FindTimedOut, Skip, EndTick, Sent, SendOk, SendFails,
           Acknowledge, ackVars, boundVars
    <2>4. CASE \/ MakePlan(Planned) \/ MakePlan({}) \/ StartFails \/ TickFails \/ Reload
               \/ \E o \in Queued : BecomesDue(o) \/ BecomesOverdue(o) \/ Expires(o)
               \/ UNCHANGED outboxVars
      BY <1>3, <1>4, <2>4 DEF MakePlan, StartFails, TickFails, BecomesDue, BecomesOverdue, Expires,
           outboxVars, ackVars, boundVars
    <2>5. QED
      BY <2>1, <2>2, <2>3, <2>4 DEF OutboxNext

LEMMA ReceiptStep ==
    ASSUME TypeInv, ReceiptFollows, [OutboxNext]_outboxVars
    PROVE  ReceiptFollows'
  <1> SUFFICES ASSUME NEW id \in In("acked")', faults' = 0, reloads' = 0
               PROVE  id \in receipts' \/ noted'[id] > 0
    <2>1. faults' \in Nat /\ reloads' \in Nat
      BY TypeStep DEF TypeInv, OutboxTypeOK
    <2>2. \A m, n \in Nat : (m = 0 /\ n = 0) \/ m + n > 0
      OBVIOUS
    <2>3. (faults' = 0 /\ reloads' = 0) \/ faults' + reloads' > 0
      BY <2>1, <2>2, Zenon
    <2>4. QED
      BY <2>3 DEF ReceiptFollows
  <1>1. id \in Queued
    BY DEF In, InStore
  <1>2. CASE id \in In("acked")
    BY <1>1, <1>2, ReceiptsArrive DEF ReceiptFollows, TypeInv, OutboxTypeOK
  <1>3. CASE id \notin In("acked")
    <2>1. ApplyAck(id)
      BY <1>3, OnlyApplied
    <2>2. noted'[id] = noted[id] + 1 /\ noted[id] \in Nat
      BY <1>1, <2>1 DEF ApplyAck, ReceiptNext, TypeInv, OutboxTypeOK
    <2>3. QED
      BY <2>2
  <1>4. QED
    BY <1>2, <1>3

\* The scheduler picks a message up no more often than the policy allows for each writing of
\* its record, and a record that onAckReceived has marked gets its receipt, unless an access to
\* the database fails or the renderer is reloaded in between.
THEOREM AttemptsAndReceipts == OutboxSpec => []OutboxSound
  <1>1. OutboxInit => ReceiptFollows
    BY DEF OutboxInit, ReceiptFollows, In, InStore
  <1>2. TypeInv => OutboxTypeOK /\ RetryCap
    BY CapFollows DEF TypeInv
  <1>3. OutboxTypeOK /\ RetryCap /\ ReceiptFollows => OutboxSound
    BY DEF OutboxSound
  <1>4. QED
    BY TypeInit, TypeStep, ReceiptStep, <1>1, <1>2, <1>3, PTL DEF OutboxSpec

-----------------------------------------------------------------------------
(***************************************************************************)
(* The runtime of Tor (TorRuntime).                                        *)
(***************************************************************************)
Runs   == {"none", "look", "adopt", "adopted", "boot", "poll", "reboot", "repoll"}
Places == {"idle", "stop", "held", "joined", "wait", "sync", "set", "call", "sent"}

RuntimeTypes ==
    /\ rt \in {"STOPPED", "STARTING", "BOOTSTRAPPING", "READY", "DEGRADED", "STOPPING"}
    /\ torProc \in {"off", "booting", "up"} /\ stopStep \in {"none", "kill", "unset"}
    /\ run \in [Starters -> Runs] /\ at \in [Starters -> Places]
    /\ waitsFor \in [Starters -> Starters] /\ startOf \in Starters \cup {Nobody}
    /\ rtSocks \in BOOLEAN /\ torn \in BOOLEAN /\ crowded \in BOOLEAN /\ rejected \in BOOLEAN

\* The start that is shared is under way, and so is what a caller waits for; unless several had
\* waited for the same stop, it is the only one.
SharedRuns ==
    /\ startOf # Nobody => run[startOf] # "none"
    /\ \A c \in Starters : at[c] = "joined" => run[waitsFor[c]] # "none"
    /\ ~crowded => \A c \in Starters : run[c] # "none" => startOf = c

\* What a start has adopted is there, unless a stop took it away.
AdoptedIsThere == \A c \in Starters : run[c] \in {"adopt", "adopted"} => rtSocks \/ torn

RuntimeInv ==
    RuntimeTypes /\ SharedRuns /\ AdoptedIsThere /\ StartingHasStarter /\ ReadyHasProxy

LEMMA RuntimeStarts == ASSUME RuntimeInit PROVE RuntimeInv
  BY DEF RuntimeInit, RuntimeInv, RuntimeTypes, SharedRuns, AdoptedIsThere, StartingHasStarter,
         ReadyHasProxy, Runs, Places

\* A caller begins a start, joins one, waits for the stop or finds the runtime ready.
LEMMA StartCalling ==
    ASSUME RuntimeInv, NEW c \in Starters, run[c] = "none", NEW ready \in {"sync", "idle"},
           StartCalled(c, ready) \/ HeldStarts(c),
           UNCHANGED <<rtSocks, torProc, stopStep, rejected, torn>>,
           HeldStarts(c) \/ UNCHANGED crowded
    PROVE  RuntimeInv'
<1>1. CASE /\ at' = [at EXCEPT ![c] = ready] \/ at' = [at EXCEPT ![c] = "held"]
           /\ UNCHANGED <<rt, run, startOf, waitsFor, crowded>>
  <2>1. /\ at' \in [Starters -> Places]
        /\ \A d \in Starters : at'[d] = "joined" => at[d] = "joined"
    BY <1>1 DEF RuntimeInv, RuntimeTypes, Places
  <2> QED
    BY <1>1, <2>1 DEF RuntimeInv, RuntimeTypes, SharedRuns, AdoptedIsThere, StartingHasStarter,
                      ReadyHasProxy
<1>2. CASE /\ startOf # Nobody /\ at' = [at EXCEPT ![c] = "joined"]
           /\ waitsFor' = [waitsFor EXCEPT ![c] = startOf]
           /\ UNCHANGED <<rt, run, startOf, crowded>>
  <2>1. /\ at' \in [Starters -> Places] /\ waitsFor' \in [Starters -> Starters]
        /\ \A d \in Starters : at'[d] = "joined" /\ d # c
                                   => at[d] = "joined" /\ waitsFor'[d] = waitsFor[d]
        /\ waitsFor'[c] = startOf
    BY <1>2 DEF RuntimeInv, RuntimeTypes, Places
  <2>2. SharedRuns'  BY <1>2, <2>1 DEF RuntimeInv, SharedRuns
  <2> QED
    BY <1>2, <2>1, <2>2 DEF RuntimeInv, RuntimeTypes, AdoptedIsThere, StartingHasStarter,
                            ReadyHasProxy
<1>3. CASE /\ at' = [at EXCEPT ![c] = "joined"] /\ waitsFor' = [waitsFor EXCEPT ![c] = c]
           /\ startOf' = c /\ run' = [run EXCEPT ![c] = "look"] /\ rt' = "STARTING"
           /\ \/ startOf = Nobody /\ crowded' = crowded
              \/ crowded' = (crowded \/ \E o \in Starters \ {c} : run[o] # "none")
  <2>1. /\ at' \in [Starters -> Places] /\ waitsFor' \in [Starters -> Starters]
        /\ run' \in [Starters -> Runs] /\ run'[c] = "look" /\ waitsFor'[c] = c
        /\ \A d \in Starters : run'[d] # run[d] => d = c
        /\ \A d \in Starters : at'[d] = "joined" /\ d # c
                                   => at[d] = "joined" /\ waitsFor'[d] = waitsFor[d]
        /\ c # Nobody
    BY <1>3, RuntimeAssumption DEF RuntimeInv, RuntimeTypes, Places, Runs
  <2>2. crowded' \in BOOLEAN /\ (crowded => crowded')
    BY <1>3 DEF RuntimeInv, RuntimeTypes
  <2>3. ~crowded' => \A d \in Starters : run'[d] # "none" => d = c
    <3>1. CASE startOf = Nobody /\ crowded' = crowded
      <4>1. \A d \in Starters : d # Nobody  BY RuntimeAssumption
      <4> QED  BY <2>1, <3>1, <4>1 DEF RuntimeInv, SharedRuns
    <3>2. CASE crowded' = (crowded \/ \E o \in Starters \ {c} : run[o] # "none")
      <4>1. ~crowded' => \A o \in Starters \ {c} : run[o] = "none"  BY <3>2
      <4> QED  BY <2>1, <4>1
    <3> QED  BY <1>3, <3>1, <3>2
  <2>4. SharedRuns'
    <3>1. \A d \in Starters : at'[d] = "joined" => run'[waitsFor'[d]] # "none"
      BY <2>1 DEF RuntimeInv, SharedRuns, RuntimeTypes
    <3> QED  BY <1>3, <2>1, <2>3, <3>1 DEF SharedRuns
  <2>5. AdoptedIsThere'  BY <1>3, <2>1 DEF RuntimeInv, AdoptedIsThere
  <2>6. StartingHasStarter' /\ ReadyHasProxy'
    BY <1>3, <2>1 DEF StartingHasStarter, ReadyHasProxy
  <2> QED  BY <1>3, <2>1, <2>2, <2>4, <2>5, <2>6 DEF RuntimeInv, RuntimeTypes
<1> QED  BY <1>1, <1>2, <1>3 DEF StartCalled, HeldStarts

\* A start goes on, and nothing is shared but what it may have adopted.
LEMMA RunGoesOn ==
    ASSUME RuntimeInv, NEW c \in Starters, run[c] # "none", NEW step \in Runs \ {"none"},
           run' = [run EXCEPT ![c] = step],
           step \in {"adopt", "adopted"} => rtSocks' \/ torn,
           rtSocks => rtSocks', rtSocks' \in BOOLEAN, torProc' \in {"off", "booting", "up"},
           rt' \in {rt, "BOOTSTRAPPING"},
           UNCHANGED <<startOf, at, waitsFor, stopStep, rejected, torn, crowded>>
    PROVE  RuntimeInv'
<1>1. /\ run' \in [Starters -> Runs] /\ run'[c] = step
      /\ \A d \in Starters : run'[d] # run[d] => d = c
  BY DEF RuntimeInv, RuntimeTypes
<1>2. \A d \in Starters : run'[d] # "none" <=> run[d] # "none"  BY <1>1
<1>3. SharedRuns'  BY <1>2 DEF RuntimeInv, SharedRuns, RuntimeTypes
<1>4. AdoptedIsThere'  BY <1>1 DEF RuntimeInv, AdoptedIsThere
<1>5. StartingHasStarter'  BY <1>1 DEF StartingHasStarter
<1>6. ReadyHasProxy'  BY DEF RuntimeInv, ReadyHasProxy
<1> QED  BY <1>1, <1>3, <1>4, <1>5, <1>6 DEF RuntimeInv, RuntimeTypes

LEMMA RunIsOver ==
    ASSUME RuntimeInv, NEW c \in Starters, run[c] # "none", NEW ok \in BOOLEAN, RunEnds(c, ok),
           \/ rt' = "DEGRADED" /\ rejected' = rejected
           \/ rt' = rt /\ rejected' = TRUE
           \/ rt' = "READY" /\ rejected' = rejected /\ run[c] = "adopted",
           UNCHANGED <<rtSocks, torProc, waitsFor, stopStep, torn, crowded>>
    PROVE  RuntimeInv'
<1>1. /\ run' \in [Starters -> Runs] /\ run'[c] = "none" /\ startOf' = Nobody
      /\ \A d \in Starters : run'[d] # run[d] => d = c
  BY DEF RuntimeInv, RuntimeTypes, Runs, RunEnds
<1>2. /\ at' \in [Starters -> Places]
      /\ \A d \in Starters : at'[d] = "joined" => at[d] = "joined" /\ waitsFor[d] # c
  <2>1. \A d \in Starters :
            at'[d] = IF at[d] # "joined" \/ waitsFor[d] # c THEN at[d]
                     ELSE IF d # Recovery /\ (ok \/ again[d]) THEN "wait" ELSE "idle"
    BY DEF RunEnds
  <2>2. at' = [d \in Starters |-> at'[d]]  BY DEF RunEnds
  <2> QED  BY <2>1, <2>2 DEF RuntimeInv, RuntimeTypes, Places
<1>3. ~crowded => \A d \in Starters : run'[d] = "none"
  BY <1>1 DEF RuntimeInv, SharedRuns
<1>4. SharedRuns'
  <2>1. \A d \in Starters : at'[d] = "joined" => run'[waitsFor'[d]] # "none"
    BY <1>1, <1>2 DEF RuntimeInv, SharedRuns, RuntimeTypes
  <2> QED  BY <1>1, <1>3, <2>1 DEF SharedRuns
<1>5. AdoptedIsThere'  BY <1>1 DEF RuntimeInv, AdoptedIsThere
<1>6. StartingHasStarter' /\ ReadyHasProxy'
  BY DEF RuntimeInv, AdoptedIsThere, StartingHasStarter, ReadyHasProxy
<1> QED  BY <1>1, <1>2, <1>4, <1>5, <1>6 DEF RuntimeInv, RuntimeTypes

\* A caller moves, and starts stay as they are; a stop may begin.
LEMMA CallerMoves ==
    ASSUME RuntimeInv, at' \in [Starters -> Places],
           \A d \in Starters : at'[d] = "joined" => at[d] = "joined",
           rt' \in {rt, "STOPPING", "DEGRADED"}, stopStep' \in {stopStep, "kill"},
           torProc' \in {"off", "booting", "up"},
           UNCHANGED <<rtSocks, run, startOf, waitsFor, rejected, torn, crowded>>
    PROVE  RuntimeInv'
  BY DEF RuntimeInv, RuntimeTypes, SharedRuns, AdoptedIsThere, StartingHasStarter, ReadyHasProxy

LEMMA RunStepsKeep ==
    ASSUME RuntimeInv, NEW c \in Starters, RunSteps(c) \/ BootFails(c) \/ Conflict(c)
    PROVE  RuntimeInv'
<1>1. CASE Looks(c)
  <2>1. CASE torProc = "up"
    BY <1>1, <2>1, RunGoesOn DEF Looks, Runs, AsideRun, causeVars, RuntimeInv, RuntimeTypes
  <2>2. CASE torProc # "up"
    BY <1>1, <2>2, RunGoesOn DEF Looks, Runs, AsideRun, causeVars, RuntimeInv, RuntimeTypes
  <2> QED  BY <2>1, <2>2
<1>2. CASE AdoptsProxy(c)
  BY <1>2, RunGoesOn DEF AdoptsProxy, Runs, AsideRun, causeVars, RuntimeInv, RuntimeTypes,
                         AdoptedIsThere
<1>3. CASE Adopted(c)
  BY <1>3, RunIsOver DEF Adopted, AsideRun, causeVars
<1>4. CASE Boots(c)
  <2>1. torProc' \in {"off", "booting", "up"}  BY <1>4 DEF Boots, RuntimeInv, RuntimeTypes
  <2>2. \E step \in {"poll", "repoll"} : run' = [run EXCEPT ![c] = step]
    BY <1>4 DEF Boots
  <2> QED  BY <1>4, <2>1, <2>2, RunGoesOn DEF Boots, Runs, AsideRun, causeVars, RuntimeInv,
                                             RuntimeTypes
<1>5. CASE BootFails(c)
  BY <1>5, RunIsOver DEF BootFails, AsideRun
<1>6. CASE Conflict(c)
  BY <1>6, RunGoesOn DEF Conflict, Runs, AsideRun, causeVars, RuntimeInv, RuntimeTypes
<1>7. CASE StartTimesOut(c)
  BY <1>7, RunIsOver DEF StartTimesOut, AsideRun, causeVars
<1> QED  BY <1>1, <1>2, <1>3, <1>4, <1>5, <1>6, <1>7 DEF RunSteps

LEMMA SendStepsKeep ==
    ASSUME RuntimeInv, NEW c \in Sends, SendSteps(c) \/ CallFails(c)
    PROVE  RuntimeInv'
<1>0. c \in Starters  BY DEF Starters
<1>1. CASE SendBegins(c) \/ StartAgain(c)
  BY <1>0, <1>1, StartCalling DEF SendBegins, StartAgain, causeVars
<1>2. CASE HeldStarts(c)
  BY <1>0, <1>2, StartCalling DEF HeldStarts
<1>3. CASE CallQueued(c)
  <2>1. Recovery \in Starters  BY DEF Starters
  <2>2. at' \in {[at EXCEPT ![c] = "idle", ![Recovery] = "stop"], [at EXCEPT ![c] = "idle"]}
    BY <1>3 DEF CallQueued
  <2>3. /\ at' \in [Starters -> Places]
        /\ \A d \in Starters : at'[d] = "joined" => at[d] = "joined"
    BY <1>0, <2>1, <2>2 DEF RuntimeInv, RuntimeTypes, Places
  <2>4. rt' \in {rt, "STOPPING", "DEGRADED"} /\ stopStep' \in {stopStep, "kill"}
    BY <1>3 DEF CallQueued, Recovers
  <2> QED
    BY <1>3, <2>3, <2>4, CallerMoves DEF CallQueued, AsideSend, causeVars, RuntimeInv, RuntimeTypes
<1>4. CASE \/ ReadySeen(c) \/ WaitEnds(c) \/ Syncs(c) \/ SetsProxy(c) \/ CallForwarded(c)
           \/ CallRefused(c) \/ SendOver(c) \/ CallFails(c)
  <2>1. \E place \in Places \ {"joined"} : at' = [at EXCEPT ![c] = place]
    BY <1>4 DEF ReadySeen, WaitEnds, Syncs, SetsProxy, CallForwarded, CallRefused, SendOver,
                CallFails, Places
  <2>2. /\ at' \in [Starters -> Places]
        /\ \A d \in Starters : at'[d] = "joined" => at[d] = "joined"
    BY <1>0, <2>1 DEF RuntimeInv, RuntimeTypes, Places
  <2>3. /\ rt' \in {rt, "DEGRADED"} /\ stopStep' = stopStep /\ torProc' = torProc
        /\ UNCHANGED <<rtSocks, run, startOf, waitsFor, rejected, torn, crowded>>
    BY <1>4 DEF ReadySeen, WaitEnds, Syncs, SetsProxy, CallForwarded, CallRefused, SendOver,
                CallFails, AsideSend, causeVars
  <2> QED  BY <2>2, <2>3, CallerMoves DEF RuntimeInv, RuntimeTypes
<1> QED  BY <1>1, <1>2, <1>3, <1>4 DEF SendSteps

LEMMA StopStepsKeep ==
    ASSUME RuntimeInv, StopSteps
    PROVE  RuntimeInv'
<1>1. CASE StopKills
  BY <1>1 DEF StopKills, sendVars, causeVars, RuntimeInv, RuntimeTypes, SharedRuns, AdoptedIsThere,
              StartingHasStarter, ReadyHasProxy
<1>2. CASE StopEnds
  <2>1. torn' \in BOOLEAN /\ (torn => torn')
        /\ \A c \in Starters : run[c] \in {"adopt", "adopted"} => torn'
    BY <1>2 DEF StopEnds, RuntimeInv, RuntimeTypes
  <2> QED
    BY <1>2, <2>1 DEF StopEnds, sendVars, RuntimeInv, RuntimeTypes, SharedRuns, AdoptedIsThere,
                      StartingHasStarter, ReadyHasProxy
<1>3. CASE RecoveryStarts
  <2>1. Recovery \in Starters  BY DEF Starters
  <2> QED  BY <1>3, <2>1, StartCalling DEF RecoveryStarts, causeVars
<1> QED  BY <1>1, <1>2, <1>3 DEF StopSteps

LEMMA RuntimeStep ==
    ASSUME RuntimeInv, [RuntimeNext]_runtimeVars
    PROVE  RuntimeInv'
<1>1. CASE TorBoots \/ TorExits
  <2>1. torProc' \in {"off", "up"}  BY <1>1 DEF TorBoots, TorExits
  <2>2. UNCHANGED <<rt, rtSocks, run, startOf, stopStep, at, waitsFor, rejected, torn, crowded>>
    BY <1>1 DEF TorBoots, TorExits, sendVars, causeVars
  <2> QED  BY <2>1, <2>2, CallerMoves DEF RuntimeInv, RuntimeTypes
<1>2. CASE UNCHANGED runtimeVars
  BY <1>2, CallerMoves DEF runtimeVars, sendVars, causeVars, RuntimeInv, RuntimeTypes
<1> QED  BY <1>1, <1>2, RunStepsKeep, SendStepsKeep, StopStepsKeep DEF RuntimeNext

LEMMA RuntimeIsSound == ASSUME RuntimeInv PROVE RuntimeSound
<1>1. RuntimeTypeOK  BY DEF RuntimeInv, RuntimeTypes, SharedRuns, RuntimeTypeOK, Runs, Places
<1>2. OneStart
  <2>1. CASE crowded  BY <2>1 DEF OneStart
  <2>2. CASE ~crowded
    <3>1. PICK starts : starts = {c \in Starters : run[c] # "none"}  OBVIOUS
    <3>2. starts \subseteq {startOf}  BY <2>2, <3>1 DEF RuntimeInv, SharedRuns
    <3>3. IsFiniteSet({startOf}) /\ Cardinality({startOf}) = 1  BY FS_Singleton
    <3>4. Cardinality(starts) <= 1  BY <3>2, <3>3, FS_Subset
    <3> QED  BY <3>1, <3>4 DEF OneStart
  <2> QED  BY <2>1, <2>2
<1> QED  BY <1>1, <1>2 DEF RuntimeInv, RuntimeSound

-----------------------------------------------------------------------------
(***************************************************************************)
(* Friend codes and requests (FriendCode).                                 *)
(***************************************************************************)

\* Requests that carry an address which the service had then.
Sendable(latest) == {r \in Requests : r.payload.address <= latest}

CodeTypes ==
    /\ torUp \in [Parties -> BOOLEAN] /\ asking \in [Parties -> BOOLEAN]
    /\ service \in [Parties -> Addresses] /\ localAddress \in [Parties -> Addresses]
    /\ shownCode \in [Parties -> Addresses] /\ copied \in [Parties -> Addresses]
    /\ refreshing \in [Parties -> [Refreshers -> Addresses \cup {-1}]]
    /\ DOMAIN requests = Parties /\ moves \in 0..MaxMoves

\* What is known of the service of a user was its address: the renderer has that of the
\* service, a refresher that of the renderer.
OnceTheService ==
    \A u \in Parties :
        /\ service[u] <= moves + 1 /\ localAddress[u] <= service[u]
        /\ \A r \in Refreshers : refreshing[u][r] > 0 => refreshing[u][r] = localAddress[u]
        /\ requests[u] \in Seq(Sendable(service[u])) /\ Len(requests[u]) <= MaxRequests

CodeInv == CodeTypes /\ OnceTheService /\ ShownWasReady

LEMMA CodeBounds == MaxMoves \in Nat /\ MaxRequests \in Nat
  BY CodeAssumption

LEMMA AddressNumbers == \A a \in Addresses : a \in Nat
  BY CodeBounds DEF Addresses

LEMMA SeqGrows ==
    ASSUME NEW A, NEW B, A \subseteq B, NEW s \in Seq(A)
    PROVE  s \in Seq(B)
  OBVIOUS

LEMMA CodeStarts == ASSUME CodeInit PROVE CodeInv
<1>1. 0 \in Addresses /\ 1 \in Addresses  BY CodeBounds DEF Addresses
<1>2. CodeTypes  BY <1>1, CodeBounds DEF CodeInit, CodeTypes
<1>3. \A u \in Parties : requests[u] \in Seq(Sendable(service[u])) /\ Len(requests[u]) = 0
  BY EmptySeq DEF CodeInit
<1>4. OnceTheService  BY <1>3, CodeBounds DEF CodeInit, OnceTheService
<1> QED  BY <1>2, <1>4 DEF CodeInit, CodeInv, ShownWasReady

\* The renderer's address after it has been asked for.
LEMMA Endpoints ==
    ASSUME CodeInv, NEW u \in Parties
    PROVE  /\ Endpoint(u) \in Addresses /\ Endpoint(u) <= service[u]
           /\ localAddress[u] # 0 => Endpoint(u) = localAddress[u]
  BY AddressNumbers, CodeBounds DEF Endpoint, CodeInv, CodeTypes, OnceTheService, Addresses

\* Once asked, the renderer keeps what it had, and so does all that was read of it.
LEMMA AskedKeeps ==
    ASSUME CodeInv, NEW u \in Parties, Asked(u)
    PROVE  /\ localAddress' \in [Parties -> Addresses] /\ localAddress'[u] = Endpoint(u)
           /\ \A v \in Parties : /\ localAddress[v] # 0 => localAddress'[v] = localAddress[v]
                                 /\ localAddress'[v] <= service[v]
           /\ \A v \in Parties, r \in Refreshers :
                  refreshing[v][r] > 0 => refreshing[v][r] = localAddress'[v]
           /\ \A v \in Parties : shownCode[v] \in {0, localAddress'[v]}
<1>1. Endpoint(u) \in Addresses /\ Endpoint(u) <= service[u]
      /\ (localAddress[u] # 0 => Endpoint(u) = localAddress[u])
  BY Endpoints
<1>2. localAddress' = [localAddress EXCEPT ![u] = Endpoint(u)]  BY DEF Asked
<1>3. /\ localAddress' \in [Parties -> Addresses] /\ localAddress'[u] = Endpoint(u)
      /\ \A v \in Parties : v # u => localAddress'[v] = localAddress[v]
  BY <1>1, <1>2 DEF CodeInv, CodeTypes
<1>4. \A v \in Parties : /\ localAddress[v] # 0 => localAddress'[v] = localAddress[v]
                         /\ localAddress'[v] <= service[v]
  BY <1>1, <1>3 DEF CodeInv, OnceTheService
<1>5. \A v \in Parties, r \in Refreshers :
          refreshing[v][r] > 0 => refreshing[v][r] = localAddress'[v]
  BY <1>4, AddressNumbers DEF CodeInv, OnceTheService, CodeTypes
<1>6. \A v \in Parties : shownCode[v] \in {0, localAddress'[v]}
  BY <1>4 DEF CodeInv, ShownWasReady
<1> QED  BY <1>3, <1>4, <1>5, <1>6

LEMMA Refreshing ==
    ASSUME CodeInv, NEW u \in Parties, NEW r \in Refreshers,
           RefreshStarts(u, r) \/ RefreshReads(u, r) \/ RefreshEnds(u, r)
    PROVE  CodeInv'
<1>0. 0 \in Addresses /\ -1 < 0
  BY CodeBounds DEF Addresses
<1>1. CASE RefreshStarts(u, r)
  <2>1. UNCHANGED <<torUp, service, localAddress, copied, asking, requests, heeded, moves>>
    BY <1>1 DEF RefreshStarts
  <2>2. CASE refreshing' = [refreshing EXCEPT ![u][r] = 0] /\ UNCHANGED shownCode
    <3>1. /\ refreshing' \in [Parties -> [Refreshers -> Addresses \cup {-1}]]
          /\ \A v \in Parties, q \in Refreshers :
                 refreshing'[v][q] > 0 => refreshing'[v][q] = refreshing[v][q]
      BY <1>0, <2>2 DEF CodeInv, CodeTypes
    <3>2. OnceTheService'  BY <2>1, <3>1 DEF CodeInv, OnceTheService
    <3> QED  BY <2>1, <2>2, <3>1, <3>2 DEF CodeInv, CodeTypes, ShownWasReady
  <2>3. CASE shownCode' = [shownCode EXCEPT ![u] = 0] /\ UNCHANGED refreshing
    <3>1. /\ shownCode' \in [Parties -> Addresses]
          /\ \A v \in Parties : shownCode'[v] \in {0, shownCode[v]}
      BY <1>0, <2>3 DEF CodeInv, CodeTypes
    <3>2. ShownWasReady'  BY <2>1, <3>1 DEF CodeInv, ShownWasReady
    <3> QED  BY <2>1, <2>3, <3>1, <3>2 DEF CodeInv, CodeTypes, OnceTheService
  <2> QED  BY <1>1, <2>2, <2>3 DEF RefreshStarts
<1>2. CASE RefreshReads(u, r)
  <2>1. /\ Asked(u) /\ refreshing' = [refreshing EXCEPT ![u][r] = Endpoint(u)]
        /\ UNCHANGED <<torUp, service, shownCode, copied, asking, requests, heeded, moves>>
    BY <1>2 DEF RefreshReads
  <2>2. /\ localAddress' \in [Parties -> Addresses] /\ localAddress'[u] = Endpoint(u)
        /\ \A v \in Parties : localAddress'[v] <= service[v]
        /\ \A v \in Parties, q \in Refreshers :
               refreshing[v][q] > 0 => refreshing[v][q] = localAddress'[v]
        /\ \A v \in Parties : shownCode[v] \in {0, localAddress'[v]}
    BY <2>1, AskedKeeps
  <2>3. /\ refreshing' \in [Parties -> [Refreshers -> Addresses \cup {-1}]]
        /\ \A v \in Parties, q \in Refreshers :
               refreshing'[v][q] > 0 => refreshing'[v][q] = localAddress'[v]
    <3>1. Endpoint(u) \in Addresses  BY Endpoints
    <3>2. /\ refreshing' \in [Parties -> [Refreshers -> Addresses \cup {-1}]]
          /\ \A v \in Parties, q \in Refreshers :
                 refreshing'[v][q] = IF v = u /\ q = r THEN Endpoint(u) ELSE refreshing[v][q]
      BY <1>0, <2>1, <3>1 DEF CodeInv, CodeTypes
    <3> QED  BY <2>2, <3>2
  <2>4. OnceTheService'  BY <2>1, <2>2, <2>3 DEF CodeInv, OnceTheService
  <2> QED  BY <2>1, <2>2, <2>3, <2>4 DEF CodeInv, CodeTypes, ShownWasReady
<1>3. CASE RefreshEnds(u, r)
  <2>1. /\ UNCHANGED <<torUp, service, localAddress, copied, asking, requests, heeded, moves>>
        /\ refreshing' = [refreshing EXCEPT ![u][r] = -1]
        /\ shownCode' = [shownCode EXCEPT ![u] = IF torUp[u] THEN refreshing[u][r] ELSE 0]
        /\ refreshing[u][r] > 0 \/ refreshing[u][r] = 0
    BY <1>3 DEF RefreshEnds
  <2>2. refreshing[u][r] \in Addresses \cup {-1}  BY <1>0 DEF CodeInv, CodeTypes
  <2>3. refreshing[u][r] \in Addresses /\ refreshing[u][r] \in {0, localAddress[u]}
    BY <1>0, <2>1, <2>2, AddressNumbers DEF CodeInv, OnceTheService
  <2>4. /\ shownCode' \in [Parties -> Addresses]
        /\ \A v \in Parties : shownCode'[v] \in {0, localAddress[v]}
    BY <1>0, <2>1, <2>3 DEF CodeInv, CodeTypes, ShownWasReady
  <2>5. /\ refreshing' \in [Parties -> [Refreshers -> Addresses \cup {-1}]]
        /\ \A v \in Parties, q \in Refreshers :
               refreshing'[v][q] > 0 => refreshing'[v][q] = refreshing[v][q]
    BY <1>0, <2>1 DEF CodeInv, CodeTypes
  <2>6. OnceTheService'  BY <2>1, <2>5 DEF CodeInv, OnceTheService
  <2> QED  BY <2>1, <2>4, <2>5, <2>6 DEF CodeInv, CodeTypes, ShownWasReady
<1> QED  BY <1>1, <1>2, <1>3

LEMMA CodeCopying ==
    ASSUME CodeInv, NEW u \in Parties, CodeCopied(u)
    PROVE  CodeInv'
<1>1. UNCHANGED <<torUp, service, localAddress, shownCode, refreshing, requests, heeded, moves>>
  BY DEF CodeCopied
<1>2. /\ asking' \in [Parties -> BOOLEAN] /\ copied' \in [Parties -> Addresses]
      /\ copied'[u] = shownCode[u] /\ \A v \in Parties : v # u => copied'[v] = copied[v]
  BY DEF CodeCopied, CodeInv, CodeTypes
<1>3. shownCode[u] <= service[u]
  <2>1. shownCode[u] \in {0, localAddress[u]} /\ localAddress[u] <= service[u]
    BY DEF CodeInv, OnceTheService, ShownWasReady
  <2>2. service[u] \in Nat  BY AddressNumbers DEF CodeInv, CodeTypes
  <2> QED  BY <2>1, <2>2
<1>4. ShownWasReady'  BY <1>1, <1>2, <1>3 DEF CodeInv, ShownWasReady
<1> QED  BY <1>1, <1>2, <1>4 DEF CodeInv, CodeTypes, OnceTheService

\* What a user's program asks with is a request that carries its address.
LEMMA RequestsAreSendable ==
    ASSUME CodeInv, NEW u \in Parties
    PROVE  RequestOf(Payload(u, Endpoint(u)), Payload(Fellow(u), copied[Fellow(u)]))
               \in Sendable(service[u])
<1>1. /\ Endpoint(u) \in Addresses /\ Endpoint(u) <= service[u] /\ Fellow(u) \in Parties
      /\ copied[Fellow(u)] \in Addresses
  BY Endpoints DEF Fellow, Parties, CodeInv, CodeTypes
<1>2. PICK own, other : /\ own = Payload(u, Endpoint(u))
                        /\ other = Payload(Fellow(u), copied[Fellow(u)])
  OBVIOUS
<1>3. own \in Payloads /\ other \in Payloads /\ own.address = Endpoint(u)
  BY <1>1, <1>2 DEF Payload, Payloads
<1>4. RoleOf(own, other) \in {"alice", "bob"}  BY DEF RoleOf
<1>5. PICK sent : sent = Confirmation(RoleOf(own, other), RoleOf(own, other), own, other)
  OBVIOUS
<1>6. sent \in {<<own, other>>, <<other, own>>}  BY <1>4, <1>5 DEF Confirmation
<1>7. sent \in Seq(Payloads)
  <2>1. \A a, b \in Payloads : <<a, b>> \in Seq(Payloads)
    <3> HIDE DEF Payloads
    <3> QED  OBVIOUS
  <2> QED  BY <1>3, <1>6, <2>1
<1>8. RequestOf(own, other) = [payload |-> own, role |-> RoleOf(own, other), confirmation |-> sent]
  BY <1>5 DEF RequestOf
<1>9. PICK request : request = RequestOf(own, other)  OBVIOUS
<1>10. request \in Requests /\ request.payload = own
  BY <1>3, <1>4, <1>7, <1>8, <1>9 DEF Requests
<1> QED  BY <1>1, <1>2, <1>3, <1>9, <1>10 DEF Sendable

LEMMA RequestSends ==
    ASSUME CodeInv, NEW u \in Parties, Requested(u)
    PROVE  CodeInv'
<1>1. PICK request : request = RequestOf(Payload(u, Endpoint(u)),
                                         Payload(Fellow(u), copied[Fellow(u)]))
  OBVIOUS
<1>2. /\ Asked(u) /\ Len(requests[u]) < MaxRequests
      /\ requests' = [requests EXCEPT ![u] = Append(@, request)]
      /\ UNCHANGED <<torUp, service, shownCode, refreshing, copied, asking, heeded, moves>>
  BY <1>1 DEF Requested
<1>3. /\ localAddress' \in [Parties -> Addresses]
      /\ \A v \in Parties : localAddress'[v] <= service[v]
      /\ \A v \in Parties, q \in Refreshers :
             refreshing[v][q] > 0 => refreshing[v][q] = localAddress'[v]
      /\ \A v \in Parties : shownCode[v] \in {0, localAddress'[v]}
  BY <1>2, AskedKeeps
<1>4. /\ DOMAIN requests' = Parties /\ requests'[u] = Append(requests[u], request)
      /\ \A v \in Parties : v # u => requests'[v] = requests[v]
  BY <1>2 DEF CodeInv, CodeTypes
<1>5. requests'[u] \in Seq(Sendable(service[u])) /\ Len(requests'[u]) <= MaxRequests
  <2>1. request \in Sendable(service[u])  BY <1>1, RequestsAreSendable
  <2>2. requests[u] \in Seq(Sendable(service[u]))  BY DEF CodeInv, OnceTheService
  <2>3. /\ Append(requests[u], request) \in Seq(Sendable(service[u]))
        /\ Len(Append(requests[u], request)) = Len(requests[u]) + 1
        /\ Len(requests[u]) \in Nat
    BY <2>1, <2>2, AppendProperties, LenProperties
  <2>4. PICK more : more = Append(requests[u], request)  OBVIOUS
  <2>5. Len(more) <= MaxRequests
    <3>1. PICK n \in Nat : n = Len(requests[u])  BY <2>3
    <3>2. n < MaxRequests /\ Len(more) = n + 1  BY <1>2, <2>3, <2>4, <3>1
    <3> QED  BY <3>1, <3>2, CodeBounds
  <2>6. more \in Seq(Sendable(service[u])) /\ requests'[u] = more  BY <1>4, <2>3, <2>4
  <2> QED  BY <2>5, <2>6
<1>6. OnceTheService'
  <2>1. \A v \in Parties : /\ requests'[v] \in Seq(Sendable(service[v]))
                           /\ Len(requests'[v]) <= MaxRequests
    BY <1>4, <1>5 DEF CodeInv, OnceTheService
  <2>2. \A v \in Parties : service[v] <= moves + 1  BY DEF CodeInv, OnceTheService
  <2> QED  BY <1>2, <1>3, <2>1, <2>2 DEF OnceTheService
<1> QED  BY <1>2, <1>3, <1>4, <1>6 DEF CodeInv, CodeTypes, ShownWasReady

\* What is left of the requests when some are taken out.
LEMMA TakingOut ==
    ASSUME NEW S, NEW s \in Seq(S), NEW i \in 1..Len(s)
    PROVE  /\ From(s, i + 1) \in Seq(S) /\ Len(From(s, i + 1)) <= Len(s)
           /\ Without(s, i) \in Seq(S) /\ Len(Without(s, i)) <= Len(s)
<1>1. Len(s) \in Nat /\ \A j \in 1..Len(s) : s[j] \in S  BY LenProperties, ElementOfSeq
<1>2. PICK tail : tail = SubSeq(s, i + 1, Len(s))  OBVIOUS
<1>3. tail \in Seq(S) /\ Len(tail) = IF i + 1 <= Len(s) THEN Len(s) - (i + 1) + 1 ELSE 0
  BY <1>1, <1>2, SubSeqProperties
<1>4. PICK front : front = SubSeq(s, 1, i - 1)  OBVIOUS
<1>5. front \in Seq(S) /\ Len(front) = IF 1 <= i - 1 THEN i - 1 - 1 + 1 ELSE 0
  BY <1>1, <1>4, SubSeqProperties
<1>6. front \o tail \in Seq(S) /\ Len(front \o tail) = Len(front) + Len(tail)
  BY <1>3, <1>5, ConcatProperties
<1>7. From(s, i + 1) = tail /\ Without(s, i) = front \o tail
  BY <1>2, <1>4 DEF From, Without
<1> QED  BY <1>1, <1>3, <1>5, <1>6, <1>7

LEMMA RequestArrives ==
    ASSUME CodeInv, NEW u \in Parties, NEW i \in DOMAIN requests[u], Arrived(u, i)
    PROVE  CodeInv'
<1>1. PICK f : f = Fellow(u)  OBVIOUS
<1>2. f \in Parties  BY <1>1 DEF Fellow, Parties
<1>3. PICK fits \in BOOLEAN : fits = Fits(requests[u][i], Payload(f, Endpoint(f)))
  BY DEF Fits
<1>4. /\ Asked(f)
      /\ requests' = [requests EXCEPT ![u] = IF fits THEN From(@, i + 1) ELSE Without(@, i)]
      /\ IF fits
         THEN /\ asking' = [asking EXCEPT ![f] = FALSE]
              /\ heeded' = [heeded EXCEPT ![f] = TRUE]
              /\ copied' = [copied EXCEPT ![u] = IF requests[u][i].payload.address # 0
                                                 THEN requests[u][i].payload.address ELSE @]
         ELSE UNCHANGED <<asking, copied, heeded>>
      /\ UNCHANGED <<torUp, service, shownCode, refreshing, moves>>
  BY <1>1, <1>3 DEF Arrived
<1>5. /\ requests[u] \in Seq(Sendable(service[u])) /\ i \in 1..Len(requests[u])
      /\ requests[u][i] \in Sendable(service[u]) /\ Len(requests[u]) <= MaxRequests
  <2>1. requests[u] \in Seq(Sendable(service[u])) /\ Len(requests[u]) <= MaxRequests
    BY DEF CodeInv, OnceTheService
  <2>2. i \in 1..Len(requests[u])  BY <2>1, LenProperties
  <2> QED  BY <2>1, <2>2, ElementOfSeq
<1>6. /\ localAddress' \in [Parties -> Addresses]
      /\ \A v \in Parties : localAddress'[v] <= service[v]
      /\ \A v \in Parties, q \in Refreshers :
             refreshing[v][q] > 0 => refreshing[v][q] = localAddress'[v]
      /\ \A v \in Parties : shownCode[v] \in {0, localAddress'[v]}
  BY <1>2, <1>4, AskedKeeps
<1>7. /\ DOMAIN requests' = Parties /\ requests'[u] \in Seq(Sendable(service[u]))
      /\ Len(requests'[u]) <= MaxRequests
      /\ \A v \in Parties : v # u => requests'[v] = requests[v]
  <2>1. /\ From(requests[u], i + 1) \in Seq(Sendable(service[u]))
        /\ Len(From(requests[u], i + 1)) <= Len(requests[u])
        /\ Without(requests[u], i) \in Seq(Sendable(service[u]))
        /\ Len(Without(requests[u], i)) <= Len(requests[u])
    BY <1>5, TakingOut
  <2>2. /\ DOMAIN requests' = Parties
        /\ requests'[u] \in {From(requests[u], i + 1), Without(requests[u], i)}
        /\ \A v \in Parties : v # u => requests'[v] = requests[v]
    BY <1>4 DEF CodeInv, CodeTypes
  <2>3. Len(requests[u]) \in Nat /\ Len(requests'[u]) \in Nat
    BY <1>5, <2>1, <2>2, LenProperties
  <2> QED  BY <1>5, <2>1, <2>2, <2>3, CodeBounds
<1>8. /\ copied' \in [Parties -> Addresses] /\ asking' \in [Parties -> BOOLEAN]
      /\ \A v \in Parties : copied'[v] <= service[v]
  <2>1. /\ requests[u][i].payload.address \in Addresses
        /\ requests[u][i].payload.address <= service[u]
    BY <1>5 DEF Sendable, Requests, Payloads
  <2>2. asking' \in [Parties -> BOOLEAN]  BY <1>2, <1>4 DEF CodeInv, CodeTypes
  <2>3. /\ copied' \in [Parties -> Addresses]
        /\ copied'[u] \in {copied[u], requests[u][i].payload.address}
        /\ \A v \in Parties : v # u => copied'[v] = copied[v]
    <3>1. PICK address \in Addresses : /\ address = requests[u][i].payload.address
                                      /\ copied' \in {copied, [copied EXCEPT ![u] = address]}
      <4>1. PICK address : address = requests[u][i].payload.address  OBVIOUS
      <4>2. copied' = copied \/ copied' = [copied EXCEPT ![u] = IF address # 0 THEN address ELSE @]
        BY <1>4, <4>1
      <4>3. copied' \in {copied, [copied EXCEPT ![u] = address]}
        BY <4>2 DEF CodeInv, CodeTypes
      <4> QED  BY <2>1, <4>1, <4>3
    <3>2. copied \in [Parties -> Addresses]  BY DEF CodeInv, CodeTypes
    <3> QED  BY <3>1, <3>2
  <2> QED  BY <2>1, <2>2, <2>3 DEF CodeInv, ShownWasReady
<1>9. OnceTheService'
  <2>1. \A v \in Parties : /\ requests'[v] \in Seq(Sendable(service[v]))
                           /\ Len(requests'[v]) <= MaxRequests
    BY <1>7 DEF CodeInv, OnceTheService
  <2>2. \A v \in Parties : service[v] <= moves + 1  BY DEF CodeInv, OnceTheService
  <2> QED  BY <1>4, <1>6, <2>1, <2>2 DEF OnceTheService
<1> QED  BY <1>4, <1>6, <1>7, <1>8, <1>9 DEF CodeInv, CodeTypes, ShownWasReady

LEMMA CodeMoving ==
    ASSUME CodeInv, NEW u \in Parties, TorComes(u) \/ TorGoes(u) \/ Restarted(u)
    PROVE  CodeInv'
<1>1. CASE TorComes(u) \/ TorGoes(u)
  <2>1. /\ torUp' \in [Parties -> BOOLEAN] /\ moves' \in {moves, moves + 1}
        /\ moves' \in 0..MaxMoves
        /\ UNCHANGED <<service, localAddress, shownCode, refreshing, copied, asking, requests>>
    <3>1. moves \in 0..MaxMoves /\ torUp \in [Parties -> BOOLEAN]  BY DEF CodeInv, CodeTypes
    <3>2. CASE TorComes(u)
      BY <3>1, <3>2 DEF TorComes
    <3>3. CASE TorGoes(u)
      <4>1. moves < MaxMoves /\ moves' = moves + 1  BY <3>3 DEF TorGoes, Move
      <4>2. moves' \in 0..MaxMoves  BY <3>1, <4>1, CodeBounds
      <4> QED  BY <3>1, <3>3, <4>1, <4>2 DEF TorGoes
    <3> QED  BY <1>1, <3>2, <3>3
  <2>2. OnceTheService'
    BY <2>1, AddressNumbers DEF CodeInv, CodeTypes, OnceTheService
  <2> QED  BY <2>1, <2>2 DEF CodeInv, CodeTypes, ShownWasReady
<1>2. CASE Restarted(u)
  <2>1. PICK address \in {service[u], service[u] + 1} : service' = [service EXCEPT ![u] = address]
    BY <1>2 DEF Restarted
  <2>2. /\ moves \in 0..MaxMoves /\ moves < MaxMoves /\ moves' = moves + 1
        /\ torUp' = [torUp EXCEPT ![u] = FALSE]
        /\ localAddress' = [localAddress EXCEPT ![u] = 0]
        /\ shownCode' = [shownCode EXCEPT ![u] = 0]
        /\ refreshing' = [refreshing EXCEPT ![u] = [r \in Refreshers |-> -1]]
        /\ UNCHANGED <<copied, asking, requests>>
    BY <1>2 DEF Restarted, Move, CodeInv, CodeTypes
  <2>3. service[u] \in Nat /\ service[u] <= moves + 1 /\ localAddress \in [Parties -> Addresses]
    BY AddressNumbers DEF CodeInv, CodeTypes, OnceTheService
  <2>4. address \in Addresses /\ service[u] <= address /\ address <= moves' + 1 /\ 0 \in Addresses
    BY <2>1, <2>2, <2>3, CodeBounds DEF Addresses
  <2>5. /\ service' \in [Parties -> Addresses] /\ localAddress' \in [Parties -> Addresses]
        /\ shownCode' \in [Parties -> Addresses] /\ torUp' \in [Parties -> BOOLEAN]
        /\ service'[u] = address /\ localAddress'[u] = 0 /\ shownCode'[u] = 0
        /\ \A v \in Parties : v # u => /\ service'[v] = service[v] /\ shownCode'[v] = shownCode[v]
                                       /\ localAddress'[v] = localAddress[v]
    BY <2>1, <2>2, <2>4 DEF CodeInv, CodeTypes
  <2>6. /\ refreshing' \in [Parties -> [Refreshers -> Addresses \cup {-1}]]
        /\ \A v \in Parties, q \in Refreshers :
               refreshing'[v][q] = IF v = u THEN -1 ELSE refreshing[v][q]
    BY <2>2 DEF CodeInv, CodeTypes
  <2>7. \A v \in Parties : requests[v] \in Seq(Sendable(service'[v]))
    <3>1. requests[u] \in Seq(Sendable(service[u]))  BY DEF CodeInv, OnceTheService
    <3>2. \A r \in Requests : r.payload.address \in Nat
      BY AddressNumbers DEF Requests, Payloads
    <3>3. Sendable(service[u]) \subseteq Sendable(service'[u])
      BY <2>3, <2>4, <2>5, <3>2, AddressNumbers DEF Sendable
    <3>4. requests[u] \in Seq(Sendable(service'[u]))  BY <3>1, <3>3, SeqGrows
    <3> QED  BY <2>5, <3>4 DEF CodeInv, OnceTheService
  <2>8. \A v \in Parties : service[v] \in Nat /\ service[v] <= moves + 1
    BY AddressNumbers DEF CodeInv, CodeTypes, OnceTheService
  <2>9. OnceTheService'
    <3> SUFFICES ASSUME NEW v \in Parties
                 PROVE  /\ service'[v] <= moves' + 1 /\ localAddress'[v] <= service'[v]
                        /\ \A r \in Refreshers :
                               refreshing'[v][r] > 0 => refreshing'[v][r] = localAddress'[v]
                        /\ requests[v] \in Seq(Sendable(service'[v]))
                        /\ Len(requests[v]) <= MaxRequests
      BY <2>2 DEF OnceTheService
    <3>1. CASE v = u
      BY <2>3, <2>4, <2>5, <2>6, <2>7, <3>1 DEF CodeInv, OnceTheService
    <3>2. CASE v # u
      <4>1. service'[v] <= moves' + 1  BY <2>2, <2>5, <2>8, <3>2
      <4>2. localAddress'[v] <= service'[v]  BY <2>5, <3>2 DEF CodeInv, OnceTheService
      <4>3. \A r \in Refreshers : refreshing'[v][r] > 0 => refreshing'[v][r] = localAddress'[v]
        BY <2>5, <2>6, <3>2 DEF CodeInv, OnceTheService
      <4> QED  BY <2>7, <4>1, <4>2, <4>3 DEF CodeInv, OnceTheService
    <3> QED  BY <3>1, <3>2
  <2>10. ShownWasReady'
    <3>1. \A v \in Parties : copied[v] <= service[v] /\ copied[v] \in Nat /\ service[v] \in Nat
      BY AddressNumbers DEF CodeInv, CodeTypes, ShownWasReady
    <3>2. \A v \in Parties : copied[v] <= service'[v]
      BY <2>3, <2>4, <2>5, <3>1, AddressNumbers
    <3>3. \A v \in Parties : shownCode'[v] \in {0, localAddress'[v]}
      BY <2>5 DEF CodeInv, ShownWasReady
    <3> QED  BY <2>2, <3>2, <3>3 DEF ShownWasReady
  <2>11. moves' \in 0..MaxMoves  BY <2>2, CodeBounds
  <2> QED  BY <2>2, <2>5, <2>6, <2>9, <2>10, <2>11 DEF CodeInv, CodeTypes
<1> QED  BY <1>1, <1>2

LEMMA CodeStep ==
    ASSUME CodeInv, [CodeNext]_codeVars
    PROVE  CodeInv'
<1>1. CASE UNCHANGED codeVars
  BY <1>1 DEF codeVars, CodeInv, CodeTypes, OnceTheService, ShownWasReady
<1> QED
  BY <1>1, Refreshing, CodeCopying, RequestSends, RequestArrives, CodeMoving
     DEF CodeNext, Refreshes, Arrives

LEMMA CodeIsSound == ASSUME CodeInv PROVE CodeSound
<1>1. \A u \in Parties : \A i \in DOMAIN requests[u] : requests[u][i] \in Requests
  <2> SUFFICES ASSUME NEW u \in Parties, NEW i \in DOMAIN requests[u]
               PROVE  requests[u][i] \in Requests
    OBVIOUS
  <2>1. requests[u] \in Seq(Sendable(service[u]))  BY DEF CodeInv, OnceTheService
  <2>2. i \in 1..Len(requests[u])  BY <2>1, LenProperties
  <2>3. requests[u][i] \in Sendable(service[u])  BY <2>1, <2>2, ElementOfSeq
  <2> QED  BY <2>3 DEF Sendable
<1> QED  BY <1>1 DEF CodeInv, CodeTypes, OnceTheService, CodeSound, CodeTypeOK

-----------------------------------------------------------------------------
LEMMA ReadinessStarts == ASSUME SendingInit PROVE RuntimeInv /\ CodeInv
  BY RuntimeStarts, CodeStarts DEF SendingInit

LEMMA ReadinessStep ==
    ASSUME RuntimeInv, CodeInv, [SendingNext]_<<part, outboxVars, runtimeVars, codeVars>>
    PROVE  RuntimeInv' /\ CodeInv'
<1>1. [RuntimeNext]_runtimeVars /\ [CodeNext]_codeVars  BY DEF SendingNext, Rests
<1> QED  BY <1>1, RuntimeStep, CodeStep

\* However starts, stops, sends and exits of Tor interleave: the runtime says that Tor starts only
\* while a start is under way or startTor was rejected, it is ready only with a proxy unless a stop
\* took that away, and only those that had waited for one stop start it more than once
\* (TorRuntime.ts).  However refreshers, requests and restarts interleave, a code shows the address
\* that the program uses or none, and nobody has an address of a user that was never his (App.tsx,
\* localOnionEndpoint.ts).
THEOREM ReadinessHolds == SendingSpec => []ReadinessSound
<1>1. SendingInit => RuntimeInv /\ CodeInv  BY ReadinessStarts
<1>2. RuntimeInv /\ CodeInv /\ [SendingNext]_<<part, outboxVars, runtimeVars, codeVars>>
      => RuntimeInv' /\ CodeInv'
  BY ReadinessStep
<1>3. RuntimeInv /\ CodeInv => ReadinessSound
  BY RuntimeIsSound, CodeIsSound DEF ReadinessSound
<1> QED  BY <1>1, <1>2, <1>3, PTL DEF SendingSpec
=============================================================================
