--------------------------- MODULE MediaTransfer ---------------------------
(***************************************************************************)
(* Files that are sent in a direct conversation: the chain of transfers    *)
(* and the window of one (handleSendMedia in app/App.tsx), the chunks on   *)
(* disk (db/repo.ts), the cursors of its progress                          *)
(* (storage/mediaTransferStore.ts), their acknowledgement                  *)
(* (policies/deliveryPolicy.ts), and what the receiver stores of it.       *)
(*                                                                         *)
(* Each chunk is stored, then sealed and routed by a task of its own; its  *)
(* record in the outbox is acknowledged whenever a transport has taken it, *)
(* before or after that task has ended, in any order.  The cursors are     *)
(* read and written back under a lock.  Messages may be deleted on either  *)
(* side at any time, and the program may end; no transfer is taken up      *)
(* again after that, but what is in the outbox is still delivered.         *)
(*                                                                         *)
(* Abstracted: contents, keys and metadata (a file is good, a chunk fits   *)
(* its manifest), the pool of workers (an encryption may fail), the order  *)
(* of envelopes (module Conversation) and the retries (module Outbox).     *)
(***************************************************************************)
EXTENDS Integers, FiniteSets, Sequences

CONSTANTS
    Totals,      \* the chunks of each file, in the order of sending
    Received,    \* bound: the files whose messages reach the other device
    MaxWindow,   \* lanes of a large file (2)
    Promotion,   \* successes before the second lane is used (3)
    Batch,       \* chunks written at a time (MEDIA_WRITE_BATCH_SIZE)
    MaxMediaEnds \* bound: ends of the program

ASSUME MediaAssumption ==
    /\ {MaxWindow, Promotion, Batch} \subseteq Nat \ {0} /\ MaxMediaEnds \in Nat
    /\ Totals \in Seq(Nat \ {0})

Files == DOMAIN Totals
ChunksOf(t) == 0..Totals[t] - 1

VARIABLES
    filesSent,     \* files that were sent, and with that chained
    sending,       \* the transfer that runs, 0 for none
    ended,         \* transfers that have left the chain
    phase,         \* of the one that runs: "manifest", "store", "settle"
    todo,          \* its chunks that are stored and not yet handed to a task
    tasks,         \* its tasks that have not ended
    lane,          \* [size, streak, broken, wait]: its window, transferError, Promise.race
    out,           \* a chunk's envelope: "none", "sealing", "boxed", "acked", "failed"
    manifest,      \* the message's envelope: "none", "boxed"
    mine,          \* the sender's message: "none", "here", "deleted"
    kept,          \* the sender's chunks on disk
    progress,      \* the stored cursors: [through, acked, early, status]
    updates,       \* updates that have read the cursors: [file, kind, chunk, was]
    theirs,        \* the receiver's message
    saving,        \* chunks that the receiver has checked against the message
    got,           \* the receiver's chunks on disk
    cut, raced,    \* history: deleted while it was sent, while a chunk was saved
    mediaEnds

pipeVars == <<sending, phase, todo, tasks, lane>>
receiverVars == <<theirs, saving, got, raced>>
mediaVars == <<filesSent, ended, pipeVars, out, manifest, mine, kept, progress, updates,
               receiverVars, cut, mediaEnds>>

Untouched == <<filesSent, cut, mediaEnds, receiverVars>>
NoProgress == [through |-> -1, acked |-> -1, early |-> {}, status |-> "none"]
FreshLane == [size |-> 1, streak |-> 0, broken |-> FALSE, wait |-> FALSE]

MediaTypeOK ==
    /\ filesSent \in 0..Cardinality(Files) /\ sending \in Files \cup {0} /\ ended \subseteq Files
    /\ lane.size \in 1..MaxWindow /\ tasks \subseteq Nat /\ todo \subseteq Nat
    /\ \A t \in Files : kept[t] \subseteq ChunksOf(t) /\ got[t] \subseteq ChunksOf(t)

-----------------------------------------------------------------------------
\* The file's message is stored and the transfer chained behind those of the conversation.
SendFile ==
    LET t == filesSent + 1 IN
    /\ t \in Files
    /\ filesSent' = t
    /\ mine' = [mine EXCEPT ![t] = "here"]
    /\ UNCHANGED <<ended, pipeVars, out, manifest, kept, progress, updates, receiverVars, cut,
                   mediaEnds>>

Turn(t) == /\ t \in (1..filesSent) \ ended
           /\ \A u \in 1..t - 1 : u \in ended

\* sendTransfer: the cursors are written before anything is sent.
TransferBegins(t) ==
    /\ sending = 0 /\ Turn(t)
    /\ sending' = t /\ phase' = "manifest" /\ lane' = FreshLane
    /\ progress' = [progress EXCEPT ![t] = [NoProgress EXCEPT !.status = "active"]]
    /\ UNCHANGED <<ended, todo, tasks, out, manifest, mine, kept, updates, Untouched>>

\* The message is routed, or at least in the outbox, before the first chunk is read.
ManifestSent ==
    /\ phase = "manifest"
    /\ manifest' = [manifest EXCEPT ![sending] = "boxed"]
    /\ phase' = "store"
    /\ kept' = [kept EXCEPT ![sending] = {}]
    /\ UNCHANGED <<ended, sending, todo, tasks, lane, out, mine, progress, updates, Untouched>>

Leave == /\ ended' = ended \cup {sending}
         /\ sending' = 0 /\ phase' = "none" /\ todo' = {}

ManifestFails ==
    /\ phase = "manifest"
    /\ manifest' \in {manifest, [manifest EXCEPT ![sending] = "boxed"]}
    /\ Leave
    /\ UNCHANGED <<tasks, lane, out, mine, kept, progress, updates, Untouched>>

-----------------------------------------------------------------------------
\* withTransferLock: one reading and writing of a transfer's cursors at a time.
NeverLocked(t) == FALSE
Locked(t) == \E u \in updates : u.file = t

Read(t, kind, c) ==
    /\ ~Locked(t)
    /\ updates' = updates \cup {[file |-> t, kind |-> kind, chunk |-> c, was |-> progress[t]]}

\* The next chunks of the file that are written to the disk together.
Left(t) == {c \in ChunksOf(t) : c > progress[t].through /\ c \notin todo}
NextBatch(t) == {c \in Left(t) : Cardinality({d \in Left(t) : d < c}) < Batch}

StoreBatch ==
    /\ phase = "store" /\ todo = {} /\ ~lane.wait
    /\ ~\E u \in updates : u.file = sending /\ u.kind = "stored"
    /\ NextBatch(sending) # {}
    /\ kept' = [kept EXCEPT ![sending] = @ \cup NextBatch(sending)]
    /\ todo' = NextBatch(sending)
    /\ UNCHANGED <<ended, sending, phase, tasks, lane, out, manifest, mine, progress, updates,
                   Untouched>>

\* The disk or the file cannot be read or written: what is under way is waited for.
StoreFails ==
    /\ phase = "store" /\ todo = {} /\ ~lane.wait
    /\ ~\E u \in updates : u.file = sending /\ u.kind = "stored"
    /\ NextBatch(sending) # {}
    /\ phase' = "settle"
    /\ UNCHANGED <<ended, sending, todo, tasks, lane, out, manifest, mine, kept, progress,
                   updates, Untouched>>

Next1(c) == \A d \in todo : c <= d

\* onStoredChunk, up to the cursor of what is stored ...
MarkStored ==
    /\ phase = "store" /\ ~lane.wait
    /\ ~\E u \in updates : u.file = sending /\ u.kind = "stored"
    /\ \E c \in todo : Next1(c) /\ Read(sending, "stored", c)
    /\ UNCHANGED <<ended, pipeVars, out, manifest, mine, kept, progress, Untouched>>

\* ... and after it: a task of its own, unless one has failed.
Written(was, c) == IF c <= was.through THEN was ELSE [was EXCEPT !.through = c]

Stored(u) ==
    /\ u \in updates /\ u.kind = "stored"
    /\ updates' = updates \ {u}
    /\ progress' = [progress EXCEPT ![u.file] = Written(u.was, u.chunk)]
    /\ IF sending # u.file THEN UNCHANGED <<todo, tasks, lane, out>>
       ELSE /\ todo' = todo \ {u.chunk}
            /\ IF lane.broken THEN UNCHANGED <<tasks, lane, out>>
               ELSE /\ tasks' = tasks \cup {u.chunk}
                    /\ out' = [out EXCEPT ![u.file][u.chunk] = "sealing"]
                    /\ lane' = IF Cardinality(tasks') < lane.size THEN lane
                               ELSE [lane EXCEPT !.wait = TRUE]
    /\ UNCHANGED <<ended, sending, phase, manifest, mine, kept, Untouched>>

\* The envelope is sealed and put into the outbox.
Boxed(c) ==
    /\ c \in tasks /\ out[sending][c] = "sealing"
    /\ out' = [out EXCEPT ![sending][c] = "boxed"]
    /\ UNCHANGED <<ended, pipeVars, manifest, mine, kept, progress, updates, Untouched>>

\* AdaptiveTransferWindow.
Widened(l) ==
    IF l.size = 1 /\ MaxWindow > 1 /\ l.streak + 1 >= Promotion
    THEN [l EXCEPT !.size = MaxWindow, !.streak = 0, !.wait = FALSE]
    ELSE [l EXCEPT !.streak = IF @ < Promotion THEN @ + 1 ELSE @, !.wait = FALSE]
Narrowed(l) == [size |-> 1, streak |-> 0, broken |-> TRUE, wait |-> FALSE]

TaskEnds(c) ==
    /\ c \in tasks /\ out[sending][c] # "sealing"
    /\ tasks' = tasks \ {c}
    /\ lane' \in {Widened(lane), Narrowed(lane)}
    /\ UNCHANGED <<ended, sending, phase, todo, out, manifest, mine, kept, progress, updates,
                   Untouched>>

SealFails(c) ==
    /\ c \in tasks /\ out[sending][c] = "sealing"
    /\ out' = [out EXCEPT ![sending][c] = "failed"]
    /\ tasks' = tasks \ {c}
    /\ lane' = Narrowed(lane)
    /\ UNCHANGED <<ended, sending, phase, todo, manifest, mine, kept, progress, updates, Untouched>>

AllStored ==
    /\ phase = "store" /\ todo = {} /\ ~lane.wait /\ Left(sending) = {}
    /\ ~\E u \in updates : u.file = sending /\ u.kind = "stored"
    /\ phase' = "settle"
    /\ UNCHANGED <<ended, sending, todo, tasks, lane, out, manifest, mine, kept, progress,
                   updates, Untouched>>

EndAtOnce == phase = "settle"
AllHandled == phase = "settle" /\ tasks = {}

TransferEnds ==
    /\ AllHandled
    /\ Leave
    /\ UNCHANGED <<tasks, lane, out, manifest, mine, kept, progress, updates, Untouched>>

-----------------------------------------------------------------------------
\* A transport has taken the chunk: the cursor first, then the record is deleted.
AckRead(t, c) ==
    /\ out[t][c] = "boxed"
    /\ Read(t, "acked", c)
    /\ UNCHANGED <<ended, pipeVars, out, manifest, mine, kept, progress, Untouched>>

Early(was, c) == IF c > was.acked THEN was.early \cup {c} ELSE was.early

\* How far the chunks join that were acknowledged.
JoinTo(t, was, c) ==
    {n \in was.acked..Totals[t] - 1 : /\ was.acked + 1..n \subseteq Early(was, c)
                                      /\ n + 1 \notin Early(was, c)}

Acked(t, was, c, through) ==
    [was EXCEPT !.acked = through, !.early = {d \in Early(was, c) : d > through},
                !.status = IF through = Totals[t] - 1 THEN "complete" ELSE @]

AckWritten(u) ==
    /\ u \in updates /\ u.kind = "acked"
    /\ updates' = updates \ {u}
    /\ \E through \in JoinTo(u.file, u.was, u.chunk) :
        progress' = [progress EXCEPT ![u.file] = Acked(u.file, u.was, u.chunk, through)]
    /\ out' = [out EXCEPT ![u.file][u.chunk] = "acked"]
    /\ UNCHANGED <<ended, pipeVars, manifest, mine, kept, Untouched>>

-----------------------------------------------------------------------------
ManifestArrives(t) ==
    /\ t \in Received /\ manifest[t] = "boxed" /\ theirs[t] = "none"
    /\ theirs' = [theirs EXCEPT ![t] = "here"]
    /\ UNCHANGED <<filesSent, ended, pipeVars, out, manifest, mine, kept, progress, updates, saving, got,
                   raced, cut, mediaEnds>>

\* A chunk without its message is rejected and does not come again.
ChunkArrives(t, c) ==
    /\ out[t][c] \in {"boxed", "acked"} /\ c \notin got[t] /\ <<t, c>> \notin saving
    /\ theirs[t] = "here"
    /\ saving' = saving \cup {<<t, c>>}
    /\ UNCHANGED <<filesSent, ended, pipeVars, out, manifest, mine, kept, progress, updates, theirs, got,
                   raced, cut, mediaEnds>>

ChunkSaved(t, c) ==
    /\ <<t, c>> \in saving
    /\ saving' = saving \ {<<t, c>>}
    /\ got' = [got EXCEPT ![t] = @ \cup {c}]
    /\ UNCHANGED <<filesSent, ended, pipeVars, out, manifest, mine, kept, progress, updates, theirs,
                   raced, cut, mediaEnds>>

\* deleteMessagesById: the messages, then the chunks that are there.
DeleteMine(t) ==
    /\ mine[t] = "here"
    /\ mine' = [mine EXCEPT ![t] = "deleted"]
    /\ kept' = [kept EXCEPT ![t] = {}]
    /\ cut' = (cut \cup IF t \in ended THEN {} ELSE {t})
    /\ UNCHANGED <<filesSent, ended, pipeVars, out, manifest, progress, updates, receiverVars, mediaEnds>>

DeleteTheirs(t) ==
    /\ theirs[t] = "here"
    /\ theirs' = [theirs EXCEPT ![t] = "deleted"]
    /\ got' = [got EXCEPT ![t] = {}]
    /\ raced' = raced \cup {u \in {t} : \E c \in ChunksOf(t) : <<t, c>> \in saving}
    /\ UNCHANGED <<filesSent, ended, pipeVars, out, manifest, mine, kept, progress, updates, saving,
                   cut, mediaEnds>>

\* The sender's program ends: chains, tasks and unfinished updates are gone.
MediaEnd ==
    /\ mediaEnds < MaxMediaEnds
    /\ mediaEnds' = mediaEnds + 1
    /\ ended' = 1..filesSent
    /\ sending' = 0 /\ phase' = "none" /\ todo' = {} /\ tasks' = {} /\ lane' = FreshLane
    /\ updates' = {}
    /\ out' = [t \in Files |-> [c \in ChunksOf(t) |->
                   IF out[t][c] = "sealing" THEN "failed" ELSE out[t][c]]]
    /\ UNCHANGED <<filesSent, manifest, mine, kept, progress, receiverVars, cut>>

-----------------------------------------------------------------------------
MediaInit ==
    /\ filesSent = 0 /\ sending = 0 /\ ended = {} /\ phase = "none" /\ todo = {} /\ tasks = {}
    /\ lane = FreshLane
    /\ out = [t \in Files |-> [c \in ChunksOf(t) |-> "none"]]
    /\ manifest = [t \in Files |-> "none"] /\ mine = [t \in Files |-> "none"]
    /\ kept = [t \in Files |-> {}] /\ progress = [t \in Files |-> NoProgress] /\ updates = {}
    /\ theirs = [t \in Files |-> "none"] /\ saving = {} /\ got = [t \in Files |-> {}]
    /\ cut = {} /\ raced = {} /\ mediaEnds = 0

MediaNext ==
    \/ SendFile \/ ManifestSent \/ ManifestFails \/ StoreBatch \/ StoreFails \/ MarkStored
    \/ AllStored \/ TransferEnds \/ MediaEnd
    \/ \E u \in updates : Stored(u) \/ AckWritten(u)
    \/ \E c \in tasks : Boxed(c) \/ TaskEnds(c) \/ SealFails(c)
    \/ \E t \in Files : \/ TransferBegins(t) \/ ManifestArrives(t) \/ DeleteMine(t) \/ DeleteTheirs(t)
                        \/ \E c \in ChunksOf(t) : AckRead(t, c) \/ ChunkArrives(t, c) \/ ChunkSaved(t, c)

MediaSpec == MediaInit /\ [][MediaNext]_mediaVars

-----------------------------------------------------------------------------
\* The cursors are those of the acknowledged chunks, in whatever order they came: nothing is
\* lost between the reading and the writing, and only a whole transfer is complete.
CursorsExact ==
    \A t \in Files : progress[t].status # "none" =>
        /\ (0..progress[t].acked) \cup progress[t].early = {c \in ChunksOf(t) : out[t][c] = "acked"}
        /\ progress[t].status = "complete" <=> \A c \in ChunksOf(t) : out[t][c] = "acked"

\* One transfer of a conversation runs at a time, in no more lanes than its window may have;
\* no chunk is sealed for a transfer that has ended.
LanesKept ==
    /\ Cardinality(tasks) <= MaxWindow
    /\ sending = 0 => tasks = {}
    /\ \A t \in Files : \A c \in ChunksOf(t) : out[t][c] = "sealing" => t = sending /\ c \in tasks

\* A chunk is sent after its message, and after it was stored on this device.
ManifestFirst ==
    \A t \in Files : \A c \in ChunksOf(t) :
        out[t][c] # "none" => /\ manifest[t] = "boxed"
                              /\ c \in kept[t] \/ mine[t] = "deleted"
                              /\ c <= progress[t].through

\* Chunks without their message are left behind only by a deletion that met the transfer, or the
\* saving of one of them.
OrphansHaveCause ==
    \A t \in Files : /\ mine[t] = "deleted" /\ kept[t] # {} => t \in cut
                     /\ theirs[t] = "deleted" /\ got[t] # {} => t \in raced

\* What is sent of a file is sent in order and in its lanes, its cursors follow every
\* acknowledgement, and nothing of it stays behind on either side without a cause.
MediaSound == MediaTypeOK /\ CursorsExact /\ LanesKept /\ ManifestFirst /\ OrphansHaveCause
=============================================================================
