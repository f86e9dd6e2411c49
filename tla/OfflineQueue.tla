---------------------------- MODULE OfflineQueue ----------------------------
(***************************************************************************)
(* The persistent offline queue of the native worker                       *)
(* (native/nkc-worker/queue.go).  Every operation runs under q.mu, so two  *)
(* operations never interleave; what does interleave with an operation is  *)
(* a crash of the worker, a failing file-system call, the peer, and time.  *)
(* An operation therefore changes the memory image in one step and then    *)
(* goes through the file-system calls of persist() one at a time.          *)
(*                                                                         *)
(* Abstracted: payloads and onion addresses (the control never reads       *)
(* them), lastError and the timestamps other than nextAttemptAt, the JSON  *)
(* text of a file (a file holds an image), path + ".tmp" (nothing reads    *)
(* it; persist() rewrites it from the image it is about to publish).       *)
(***************************************************************************)
EXTENDS Naturals

CONSTANTS
    Msgs,         \* message ids
    Friends,      \* friend ids
    FriendOf,     \* the friend a message is for
    CreatedAt,    \* the caller's creation stamp, the order of a batch
    Kinds,        \* the retryable failure codes of queueFailurePolicy
    BaseDelay,    \* the first delay of a failure code
    CapDelay,     \* the longest delay of a failure code
    MaxAttempts,  \* 15 in the code
    Legacy,       \* the image migrateLegacy reads from the older store
    NoFile,       \* stands for a file that does not exist
    Horizon,      \* bound: where the clock stops
    MaxEnqueues,  \* bound: calls of enqueue
    MaxFaults,    \* bound: file-system calls that fail
    MaxCrashes    \* bound: crashes of the worker

Status  == {"ABSENT", "PENDING", "IN_FLIGHT", "DELIVERED", "FAILED"}
Message == [status : Status, attempts : 0..MaxAttempts, nextAttemptAt : 0..Horizon]
Image   == [msgs : [Msgs -> Message], friends : SUBSET Friends]
Absent  == [status |-> "ABSENT", attempts |-> 0, nextAttemptAt |-> 0]
Empty   == [msgs |-> [m \in Msgs |-> Absent], friends |-> {}]

Known(image) == {m \in Msgs : image.msgs[m].status # "ABSENT"}

ASSUME RoutesAssumption ==
    /\ FriendOf \in [Msgs -> Friends]
    /\ CreatedAt \in [Msgs -> Nat]
ASSUME PolicyAssumption ==
    /\ BaseDelay \in [Kinds -> Nat \ {0}]
    /\ CapDelay \in [Kinds -> Nat \ {0}]
    /\ MaxAttempts \in Nat \ {0}
ASSUME BoundsAssumption ==
    /\ Horizon \in Nat
    /\ MaxEnqueues \in Nat
    /\ MaxFaults \in Nat
    /\ MaxCrashes \in Nat
ASSUME LegacyAssumption ==
    /\ Legacy \in Image
    /\ \A m \in Msgs : /\ Legacy.msgs[m].status \in {"ABSENT", "PENDING"}
                       /\ Legacy.msgs[m].attempts = 0  \* it had no such count
    /\ \A m \in Known(Legacy) : FriendOf[m] \in Legacy.friends
ASSUME NoFileAssumption == NoFile \notin Image

VARIABLES
    mem,        \* q.state
    cur,        \* the file at q.path
    bak,        \* the file at q.path + ".bak"
    proxy,      \* q.proxyURL # ""
    now,        \* time.Now()
    pc,         \* where the operation that holds q.mu is
    job,        \* what that operation persists for
    msg,        \* the message it is about
    hadCurrent, \* persist's local of that name
    todo,       \* flush: friends not yet visited
    batch,      \* flush: what is left of pendingForFriend's result
    started,    \* flush: its `now`
    tried,      \* history: messages this flush has marked IN_FLIGHT
    ingested,   \* external: messages the peer has stored
    acked,      \* history: messages whose enqueue returned without an error,
                \* since a start last found no file to read
    posts,      \* history: POSTs of a message since it was last admitted
    enqueues, faults, crashes   \* counters behind the three bounds

flushVars == <<todo, batch, started, tried>>
fileVars  == <<cur, bak>>
ghostVars == <<ingested, acked, posts>>
countVars == <<enqueues, faults, crashes>>
vars == <<mem, fileVars, proxy, now, pc, job, msg, hadCurrent, flushVars,
          ghostVars, countVars>>

Writing == {"write", "moveOld", "publish", "undo", "clean"}
Running == {"friend", "mark", "post"}
Jobs    == {"migrate", "enqueue", "friends", "mark", "failed", "delivered"}

\* What openQueueStore finds: the current file, or else the backup.
PreferBackup == IF bak # NoFile THEN bak ELSE cur
Recovered == IF cur # NoFile THEN cur ELSE bak

TypeOK ==
    /\ mem \in Image
    /\ cur \in Image \cup {NoFile}
    /\ bak \in Image \cup {NoFile}
    /\ proxy \in BOOLEAN
    /\ now \in 0..Horizon
    /\ pc \in {"down", "idle"} \cup Writing \cup Running
    /\ job \in Jobs
    /\ msg \in Msgs
    /\ hadCurrent \in BOOLEAN
    /\ todo \subseteq Friends
    /\ batch \subseteq Msgs
    /\ started \in 0..Horizon
    /\ tried \subseteq Msgs
    /\ ingested \subseteq Msgs
    /\ acked \subseteq Msgs
    /\ posts \in [Msgs -> Nat]
    /\ enqueues \in 0..MaxEnqueues
    /\ faults \in 0..MaxFaults
    /\ crashes \in 0..MaxCrashes

-----------------------------------------------------------------------------
(***************************************************************************)
(* persist: write the temporary file, drop the old backup, move the        *)
(* current file to the backup, move the temporary file in, drop the        *)
(* backup.  The two removals ignore their error.                           *)
(***************************************************************************)

Fault   == faults < MaxFaults /\ faults' = faults + 1
NoFault == UNCHANGED faults

Persist(j, m) ==
    /\ pc' = "write"
    /\ job' = j
    /\ msg' = m
    /\ UNCHANGED hadCurrent

\* The flush leaves a friend's batch, at its end or by `break`.
NextFriend == pc' = "friend" /\ batch' = {}

NextInBatch ==
    IF batch = {msg} THEN NextFriend ELSE pc' = "mark" /\ batch' = batch \ {msg}

\* A failed POST, or a failed persist, breaks out of the batch.
KeepGoing == NextInBatch
Break == NextFriend

\* What the caller of persist does with its result.
Return(ok) ==
    /\ \/ /\ job = "migrate"
          /\ pc' = IF ok THEN "idle" ELSE "down"
          /\ UNCHANGED <<batch, acked>>
       \/ /\ job = "enqueue"
          /\ pc' = "idle"
          /\ acked' = IF ok THEN acked \cup {msg} ELSE acked
          /\ UNCHANGED batch
       \/ job = "friends" /\ pc' = "idle" /\ UNCHANGED <<batch, acked>>
       \/ /\ job = "mark"
          /\ IF ok THEN pc' = "post" /\ UNCHANGED batch ELSE Break
          /\ UNCHANGED acked
       \/ job = "failed" /\ Break /\ UNCHANGED acked
       \/ /\ job = "delivered"
          /\ IF ok THEN NextInBatch ELSE Break
          /\ UNCHANGED acked
    /\ UNCHANGED <<job, msg, todo, started, tried, ingested, posts>>

WriteTemp ==
    /\ pc = "write"
    /\ \/ /\ pc' = "moveOld"
          /\ \/ bak' = NoFile /\ NoFault
             \/ bak' = bak /\ Fault
          /\ UNCHANGED <<job, msg, flushVars, ghostVars>>
       \/ Fault /\ Return(FALSE) /\ UNCHANGED bak
    /\ UNCHANGED <<mem, cur, proxy, now, hadCurrent, enqueues, crashes>>

RemoveOld == cur' = NoFile /\ UNCHANGED bak
BackUp == bak' = cur /\ cur' = NoFile

MoveOld ==
    /\ pc = "moveOld"
    /\ \/ /\ cur # NoFile
          /\ BackUp
          /\ hadCurrent' = TRUE
          /\ pc' = "publish"
          /\ NoFault
          /\ UNCHANGED <<job, msg, flushVars, ghostVars>>
       \/ /\ \/ cur = NoFile /\ NoFault
             \/ cur # NoFile /\ Fault   \* a failing Stat counts as no file
          /\ hadCurrent' = FALSE
          /\ pc' = "publish"
          /\ UNCHANGED <<fileVars, job, msg, flushVars, ghostVars>>
       \/ /\ cur # NoFile
          /\ Fault
          /\ Return(FALSE)
          /\ UNCHANGED <<fileVars, hadCurrent>>
    /\ UNCHANGED <<mem, proxy, now, enqueues, crashes>>

Publish ==
    /\ pc = "publish"
    /\ \/ /\ cur' = mem
          /\ pc' = "clean"
          /\ NoFault
          /\ UNCHANGED <<job, msg, flushVars, ghostVars>>
       \/ /\ hadCurrent
          /\ Fault
          /\ pc' = "undo"
          /\ UNCHANGED <<cur, job, msg, flushVars, ghostVars>>
       \/ ~hadCurrent /\ Fault /\ Return(FALSE) /\ UNCHANGED cur
    /\ UNCHANGED <<mem, bak, proxy, now, hadCurrent, enqueues, crashes>>

\* The rename back ignores its error too: persist returns the first one.
Undo ==
    /\ pc = "undo"
    /\ \/ cur' = bak /\ bak' = NoFile /\ NoFault
       \/ Fault /\ UNCHANGED fileVars
    /\ Return(FALSE)
    /\ UNCHANGED <<mem, proxy, now, hadCurrent, enqueues, crashes>>

Clean ==
    /\ pc = "clean"
    /\ \/ bak' = NoFile /\ NoFault
       \/ bak' = bak /\ Fault
    /\ Return(TRUE)
    /\ UNCHANGED <<mem, cur, proxy, now, hadCurrent, enqueues, crashes>>

-----------------------------------------------------------------------------
(***************************************************************************)
(* The operations.                                                         *)
(***************************************************************************)

\* openQueueStore.  Messages found IN_FLIGHT stay IN_FLIGHT.
Open ==
    /\ pc = "down"
    /\ \/ /\ Recovered # NoFile
          /\ mem' = Recovered
          /\ pc' = "idle"
          /\ UNCHANGED <<job, msg, hadCurrent, acked, posts>>
       \/ /\ Recovered = NoFile
          /\ mem' = Legacy
          /\ acked' = {}
          /\ posts' = [m \in Msgs |-> 0]
          /\ IF Legacy = Empty
               THEN pc' = "idle" /\ UNCHANGED <<job, msg, hadCurrent>>
               ELSE Persist("migrate", msg)
    /\ UNCHANGED <<fileVars, proxy, now, flushVars, ingested, countVars>>

Pend(m) ==
    [mem.msgs EXCEPT ![m] = [status |-> "PENDING", attempts |-> 0, nextAttemptAt |-> now]]

AdmitUnrouted(m) == [mem EXCEPT !.msgs = Pend(m)]

\* A new message brings its friend's route; an existing one is pended again.
Admit(m) ==
    [msgs    |-> Pend(m),
     friends |-> IF mem.msgs[m].status = "ABSENT"
                   THEN mem.friends \cup {FriendOf[m]} ELSE mem.friends]

NeverFinished(m) == FALSE
Finished(m) == mem.msgs[m].status = "DELIVERED"

Enqueue(m) ==
    /\ pc = "idle"
    /\ enqueues < MaxEnqueues
    /\ enqueues' = enqueues + 1
    /\ \/ /\ Finished(m)
          /\ acked' = acked \cup {m}
          /\ UNCHANGED <<mem, pc, job, msg, hadCurrent, posts>>
       \/ /\ ~Finished(m)
          /\ mem' = Admit(m)
          /\ posts' = [posts EXCEPT ![m] = 0]
          /\ Persist("enqueue", m)
          /\ UNCHANGED acked
    /\ UNCHANGED <<fileVars, proxy, now, flushVars, ingested, faults, crashes>>

SetFriends(routes) ==
    /\ pc = "idle"
    /\ mem' = [mem EXCEPT !.friends = @ \cup routes]
    /\ Persist("friends", msg)
    /\ UNCHANGED <<fileVars, proxy, now, flushVars, ghostVars, countVars>>

SetProxy(on) ==
    /\ pc = "idle"
    /\ proxy' = on
    /\ UNCHANGED <<mem, fileVars, now, pc, job, msg, hadCurrent, flushVars,
                   ghostVars, countVars>>

FlushStart ==
    /\ pc = "idle"
    /\ proxy
    /\ pc' = "friend"
    /\ todo' = mem.friends
    /\ batch' = {}
    /\ started' = now
    /\ tried' = {}
    /\ UNCHANGED <<mem, fileVars, proxy, now, job, msg, hadCurrent, ghostVars, countVars>>

pendingForFriend(f, t) ==
    {m \in Msgs : /\ FriendOf[m] = f
                  /\ mem.msgs[m].status = "PENDING"
                  /\ mem.msgs[m].nextAttemptAt <= t}

FlushFriend(f) ==
    /\ pc = "friend"
    /\ f \in todo
    /\ todo' = todo \ {f}
    /\ batch' = pendingForFriend(f, started)
    /\ pc' = IF batch' = {} THEN "friend" ELSE "mark"
    /\ UNCHANGED <<mem, fileVars, proxy, now, job, msg, hadCurrent, started, tried,
                   ghostVars, countVars>>

FlushEnd ==
    /\ pc = "friend"
    /\ todo = {}
    /\ pc' = "idle"
    /\ UNCHANGED <<mem, fileVars, proxy, now, job, msg, hadCurrent, flushVars,
                   ghostVars, countVars>>

\* The batch is sorted by createdAt; equal stamps may come in either order.
Earliest(m) == m \in batch /\ \A o \in batch : CreatedAt[m] <= CreatedAt[o]

MarkDelivered(m) == [mem EXCEPT !.msgs[m].status = "DELIVERED"]
MarkInFlight(m) == [mem EXCEPT !.msgs[m].status = "IN_FLIGHT"]

FlushMark(m) ==
    /\ pc = "mark"
    /\ Earliest(m)
    /\ mem' = MarkInFlight(m)
    /\ tried' = tried \cup {m}
    /\ Persist("mark", m)
    /\ UNCHANGED <<fileVars, proxy, now, todo, batch, started, ghostVars, countVars>>

\* patchStatus with "DELIVERED" (the payload it drops is not modelled).
Delivered(message) ==
    [status |-> "DELIVERED", attempts |-> message.attempts, nextAttemptAt |-> 0]

\* postIngest succeeded: the peer has stored the message and its 200 came back.
PostAcked ==
    /\ pc = "post"
    /\ ingested' = ingested \cup {msg}
    /\ posts' = [posts EXCEPT ![msg] = @ + 1]
    /\ mem' = [mem EXCEPT !.msgs[msg] = Delivered(@)]
    /\ Persist("delivered", msg)
    /\ UNCHANGED <<fileVars, proxy, now, flushVars, acked, countVars>>

Doublings == <<1, 2, 4, 8, 16, 32, 64>>
AtMost(a, b) == IF a <= b THEN a ELSE b

Exponent(attempts) == AtMost(IF attempts = 0 THEN 0 ELSE attempts - 1, 6)

Delay(k, attempts) ==
    AtMost(BaseDelay[k] * Doublings[Exponent(attempts) + 1], CapDelay[k])

Retried(attempts, k) ==
    [status |-> "PENDING", attempts |-> attempts,
     nextAttemptAt |-> AtMost(now + Delay(k, attempts), Horizon)]

NotCounted(message, permanent, k) == Retried(message.attempts, k)

OneTooMany(message, permanent, k) ==
    LET attempts == message.attempts + 1
    IN  IF permanent \/ attempts > MaxAttempts
          THEN [status |-> "FAILED", attempts |-> attempts, nextAttemptAt |-> 0]
          ELSE Retried(attempts, k)

NotPatched(message, permanent, k) == message

\* queueFailurePolicy, applied by patchFailure to the message it has just counted.
Failed(message, permanent, k) ==
    LET attempts == message.attempts + 1
    IN  IF permanent \/ attempts >= MaxAttempts
          THEN [status |-> "FAILED", attempts |-> attempts, nextAttemptAt |-> 0]
          ELSE Retried(attempts, k)

\* postIngest returned an error.  The peer may have stored the message all the
\* same: its answer can be lost, late or unreadable.
PostFailed(arrived, permanent, k) ==
    /\ pc = "post"
    /\ ingested' = IF arrived THEN ingested \cup {msg} ELSE ingested
    /\ posts' = [posts EXCEPT ![msg] = @ + 1]
    /\ mem' = [mem EXCEPT !.msgs[msg] = Failed(@, permanent, k)]
    /\ Persist("failed", msg)
    /\ UNCHANGED <<fileVars, proxy, now, flushVars, acked, countVars>>

-----------------------------------------------------------------------------
\* The worker process dies: memory is gone, the files stay as they are.
Crash ==
    /\ pc # "down"
    /\ crashes < MaxCrashes
    /\ crashes' = crashes + 1
    /\ pc' = "down"
    /\ mem' = Empty
    /\ proxy' = FALSE
    /\ todo' = {} /\ batch' = {} /\ tried' = {}
    /\ UNCHANGED <<fileVars, now, job, msg, hadCurrent, started, ghostVars,
                   enqueues, faults>>

Tick ==
    /\ now < Horizon
    /\ now' = now + 1
    /\ UNCHANGED <<mem, fileVars, proxy, pc, job, msg, hadCurrent, flushVars,
                   ghostVars, countVars>>

Init ==
    /\ mem = Empty
    /\ cur = NoFile /\ bak = NoFile
    /\ proxy = FALSE
    /\ now = 0
    /\ pc = "down"
    /\ job = "migrate"
    /\ msg \in Msgs
    /\ hadCurrent = FALSE
    /\ todo = {} /\ batch = {} /\ started = 0 /\ tried = {}
    /\ ingested = {} /\ acked = {} /\ posts = [m \in Msgs |-> 0]
    /\ enqueues = 0 /\ faults = 0 /\ crashes = 0

PersistStep == WriteTemp \/ MoveOld \/ Publish \/ Undo \/ Clean

PostStep ==
    \/ PostAcked
    \/ \E arrived, permanent \in BOOLEAN, k \in Kinds : PostFailed(arrived, permanent, k)

FlushStep ==
    \/ \E f \in Friends : FlushFriend(f)
    \/ FlushEnd
    \/ \E m \in Msgs : FlushMark(m)
    \/ PostStep

Next ==
    \/ Open
    \/ \E m \in Msgs : Enqueue(m)
    \/ \E routes \in SUBSET Friends : SetFriends(routes)
    \/ \E on \in BOOLEAN : SetProxy(on)
    \/ FlushStart
    \/ FlushStep
    \/ PersistStep
    \/ Crash
    \/ Tick

Spec == Init /\ [][Next]_vars

\* nativeOfflineQueueManager asks for a flush every intervalMs, the serial
\* channel of main.go serves queue requests in order (so other requests cannot
\* keep a flush out for ever: strong fairness), an operation that holds q.mu
\* runs on, and time passes.
Fairness ==
    /\ WF_vars(Open)
    /\ SF_vars(FlushStart)
    /\ WF_vars(FlushStep)
    /\ WF_vars(PersistStep)
    /\ WF_vars(Tick)

FairSpec == Spec /\ Fairness

-----------------------------------------------------------------------------
(***************************************************************************)
(* Properties.                                                             *)
(***************************************************************************)

Images == {image \in {mem, cur, bak} : image # NoFile}

\* A receipt is never a lie: a message that memory, the file or the backup
\* calls DELIVERED (and whose payload flush has therefore dropped) has been
\* stored by its peer, whatever crashed or failed in between.
DeliveredIngested ==
    \A image \in Images : \A m \in Msgs :
        image.msgs[m].status = "DELIVERED" => m \in ingested

\* As long as one of the two files exists, the one openQueueStore reads holds
\* every message whose enqueue reported success: a crash anywhere in persist,
\* or a stale backup, never loses part of the queue.
NoPartialLoss ==
    Recovered # NoFile => acked \subseteq Known(Recovered)

\* The queue is lost as a whole only where a crash or a failed rename came
\* before: persist by itself never leaves an instant with neither file.
LossNeedsFault ==
    acked # {} /\ Recovered = NoFile => faults + crashes > 0

\* flush walks q.state.Friends, so a message whose friend is not listed would
\* never be sent: every known message's friend is in the same image.
NoOrphan ==
    \A image \in Images : \A m \in Known(image) : FriendOf[m] \in image.friends

\* The retry cap counts what reaches the network: between two admissions a
\* message is POSTed at most MaxAttempts times, over any crash and restart.
RetryCap == \A m \in Msgs : posts[m] <= MaxAttempts

\* flush breaks out of a friend's batch at the first failure: when a message is
\* on the wire, every other message of that friend this flush has tried was
\* created no later and has been delivered.
InOrderUntilFailure ==
    pc = "post" => \A m \in tried \ {msg} : FriendOf[m] = FriendOf[msg] =>
        mem.msgs[m].status = "DELIVERED" /\ CreatedAt[m] <= CreatedAt[msg]

\* Without a crash or a failing file system, no message is IN_FLIGHT outside a
\* flush (nothing would ever send it again: pendingForFriend skips it).
NoFlightAtRest ==
    pc = "idle" /\ faults + crashes = 0 =>
        \A m \in Msgs : mem.msgs[m].status # "IN_FLIGHT"

\* A receipt on disk is final: what a restart would find as DELIVERED, it finds
\* as DELIVERED after any further step that leaves a file.
ReceiptsStick ==
    [][\A m \in Msgs :
          (Recovered # NoFile /\ Recovered' # NoFile
             /\ Recovered.msgs[m].status = "DELIVERED")
          => Recovered'.msgs[m].status = "DELIVERED"]_vars

\* While the proxy is up, every pending message is delivered or fails for good:
\* bounded retries end, and no friend keeps another's messages waiting.
EveryMessageSettles ==
    <>[]proxy => \A m \in Msgs :
        mem.msgs[m].status = "PENDING"
            ~> mem.msgs[m].status \in {"DELIVERED", "FAILED"}

(***************************************************************************)
(* Seen from outside, persist is one step, although it writes, renames and *)
(* removes files one by one and may be cut off after each: the queue is an *)
(* atomic store, whose file is the one that openQueueStore would read.     *)
(***************************************************************************)
Content(image) ==
    [has  |-> Known(image),
     done |-> {m \in Msgs : image.msgs[m].status = "DELIVERED"}]

InFile == IF Recovered = NoFile THEN Empty ELSE Recovered

\* The next persist begins by removing the only file.
OnlyBackup == cur = NoFile /\ bak # NoFile /\ pc \notin {"publish", "undo"}

Atomic == INSTANCE AtomicStore WITH
    Older    <- Content(Legacy),
    memory   <- Content(mem),
    up       <- pc # "down",
    there    <- Recovered # NoFile,
    saved    <- Content(InFile),
    fragile  <- OnlyBackup,
    promised <- acked

SavesAtomically == Atomic!StoreSpec

\* The file a restart would read (openQueueStore) holds all that was acknowledged, and
\* without a failing call of the file system there is always one to read.
AcknowledgedKept == NoPartialLoss /\ LossNeedsFault

\* flush counts its attempts, keeps a friend's messages in order up to the first failure
\* and leaves none IN_FLIGHT behind.
FlushSound == TypeOK /\ RetryCap /\ InOrderUntilFailure /\ NoFlightAtRest
=============================================================================
