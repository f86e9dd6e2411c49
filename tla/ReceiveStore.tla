---------------------------- MODULE ReceiveStore ----------------------------
(***************************************************************************)
(* The store of incoming files in the native worker (receive_store.go).    *)
(*                                                                         *)
(* Requests run concurrently, but an operation on a transfer holds its     *)
(* lock from start to answer, so what interleaves is the file-system calls *)
(* of different transfers, `init` (which takes the lock of the table       *)
(* only), the death of the worker and the loss of power.  A request that   *)
(* fetched a handle before it left the table finds its file closed and     *)
(* changes nothing, so it is left out.                                     *)
(*                                                                         *)
(* All files are in one directory.  `dir` is what the program sees of it,  *)
(* `safe` what would be there after a loss of power, and `data`, `synced`  *)
(* are the same for the content of the part files.  Assumed of the file    *)
(* system: Sync makes the content (and the entry of a new file) durable,   *)
(* syncing the directory makes its entries durable (the builds for Linux   *)
(* and macOS do sync it), a rename or removal not yet synced survives a    *)
(* loss of power or not, renames to final names all together.              *)
(*                                                                         *)
(* Abstracted: the manifest checks (a transfer is initialised with one     *)
(* manifest), chunk lengths, the journal's temporary file, which nobody    *)
(* reads, and clocks: a write may or may not be due for a checkpoint.  No  *)
(* journal and a journal of an empty bitmap are the same to `init`.        *)
(***************************************************************************)
EXTENDS Integers, FiniteSets

CONSTANTS
    Transfers,    \* transfer ids
    Names,        \* file names in the directory of received files
    NameOf,       \* the file name in a transfer's manifest
    TotalChunks,  \* chunks of a file
    NoFile,       \* no file has this name
    Foreign,      \* some file that was there before
    NoHandle,     \* the transfer is not in the table
    NoOp,         \* no operation is running
    MaxCrashes,   \* bound: deaths of the worker and losses of power
    MaxFaults     \* bound: failing file-system calls

ASSUME NamesAssumption == NameOf \in [Transfers -> Names]
ASSUME ChunksAssumption == TotalChunks \in Nat \ {0}
ASSUME BoundsAssumption == MaxCrashes \in Nat /\ MaxFaults \in Nat

Chunks == 0..TotalChunks - 1

\* Of a chunk's content it matters whether it was written and whether it is what
\* the manifest's hash was computed from.
Content == {"hole", "good", "bad"}
File    == [of : Transfers, whole : BOOLEAN]
Handle  == [bitmap : SUBSET Chunks, durable : SUBSET Chunks, dirty : BOOLEAN, open : BOOLEAN]
Dir     == [part    : [Transfers -> BOOLEAN],
            journal : [Transfers -> SUBSET Chunks],
            final   : [Names -> File \cup {NoFile, Foreign}]]
Steps   == {"sync", "journal", "syncDir", "hash", "stat", "rename", "syncFinal",
            "removePart", "removeJournal"}
Op      == [kind : {"write", "checkpoint", "finalize", "abort"}, at : Steps, chunk : Chunks]

ASSUME NullsAssumption == NoHandle \notin Handle /\ NoOp \notin Op
ASSUME FilesAssumption == NoFile \notin File /\ Foreign \notin File

VARIABLES
    handle,    \* the table: the transfer's in-memory state
    op,        \* the operation that holds the transfer's lock, and where it is
    data,      \* content of the part files
    synced,    \* its durable version
    dir,       \* directory entries
    safe,      \* their durable version
    crashes, faults,
    promised,  \* history: chunks answered as checkpointed, by a first write or a checkpoint
    repeated,  \* history: chunks answered as checkpointed, as duplicates
    taken,     \* history: transfers whose part file is gone and whose journal may still be there
    unread,    \* history: transfers whose journal could not be read
    delivered  \* history: transfers whose finalize has answered

diskVars  == <<data, synced, dir, safe>>
faultVars == <<crashes, faults>>
ghostVars == <<promised, repeated, taken, unread, delivered>>
vars == <<handle, op, diskVars, faultVars, ghostVars>>

TypeOK ==
    /\ handle \in [Transfers -> Handle \cup {NoHandle}]
    /\ op \in [Transfers -> Op \cup {NoOp}]
    /\ data \in [Transfers -> [Chunks -> Content]]
    /\ synced \in [Transfers -> [Chunks -> Content]]
    /\ dir \in Dir /\ safe \in Dir
    /\ crashes \in 0..MaxCrashes /\ faults \in 0..MaxFaults
    /\ promised \in [Transfers -> SUBSET Chunks]
    /\ repeated \in [Transfers -> SUBSET Chunks]
    /\ taken \subseteq Transfers /\ unread \subseteq Transfers /\ delivered \subseteq Transfers
    /\ \A t \in Transfers : op[t] # NoOp => handle[t] # NoHandle

-----------------------------------------------------------------------------
Holes == [c \in Chunks |-> "hole"]

\* status(): durableThrough.
Through(bitmap) == {c \in Chunks : \A b \in 0..c : b \in bitmap}

Fault == faults < MaxFaults /\ faults' = faults + 1

Free(t) == handle[t] # NoHandle /\ op[t] = NoOp
Open(t) == Free(t) /\ handle[t].open
At(t, step) == handle[t] # NoHandle /\ op[t] # NoOp /\ op[t].at = step

Begin(t, kind, step, chunk) ==
    op' = [op EXCEPT ![t] = [kind |-> kind, at |-> step, chunk |-> chunk]]
GoTo(t, step) == op' = [op EXCEPT ![t].at = step]
Answer(t) == op' = [op EXCEPT ![t] = NoOp]

\* A file-system call fails: the operation returns its error and leaves the rest.
\* (A Close that fails has closed the file.)
CallFails(t) ==
    /\ op[t] # NoOp /\ op[t].at # "stat"
    /\ Fault
    /\ Answer(t)
    /\ UNCHANGED <<handle, diskVars, crashes, ghostVars>>

\* The journal is read back when there is one.
Recover(t, bitmap) ==
    /\ handle[t] = NoHandle
    /\ handle' = [handle EXCEPT ![t] =
           [bitmap |-> bitmap, durable |-> bitmap, dirty |-> FALSE, open |-> TRUE]]
    /\ dir' = [dir EXCEPT !.part[t] = TRUE]
    /\ data' = [data EXCEPT ![t] = IF dir.part[t] THEN @ ELSE Holes]
    /\ synced' = [synced EXCEPT ![t] = IF dir.part[t] THEN @ ELSE Holes]
    /\ UNCHANGED <<op, safe, crashes, promised, repeated, taken, delivered>>

\* A transfer in the table is only reported on.  That a journal cannot be read is not
\* reported: it is taken for none.
InitTransfer(t) ==
    \/ handle[t] # NoHandle /\ UNCHANGED vars
    \/ Recover(t, dir.journal[t]) /\ UNCHANGED <<faults, unread>>
    \/ Recover(t, {}) /\ Fault /\ unread' = unread \cup {t}

\* A duplicate is dropped, and answered as checkpointed.
WriteDuplicate(t, c) ==
    /\ Free(t)
    /\ c \in handle[t].bitmap
    /\ repeated' = [repeated EXCEPT ![t] = @ \cup {c}]
    /\ UNCHANGED <<handle, op, diskVars, faultVars, promised, taken, unread, delivered>>

\* A first write, with the checkpoint if it is due.
Write(t, c, content, due) ==
    /\ Open(t)
    /\ c \notin handle[t].bitmap
    /\ data' = [data EXCEPT ![t][c] = content]
    /\ handle' = [handle EXCEPT ![t].bitmap = @ \cup {c}, ![t].dirty = TRUE]
    /\ IF due THEN Begin(t, "write", "sync", c) ELSE UNCHANGED op
    /\ UNCHANGED <<synced, dir, safe, faultVars, ghostVars>>

WriteFails(t, c) ==
    /\ Open(t)
    /\ c \notin handle[t].bitmap
    /\ Fault
    /\ data' = [data EXCEPT ![t][c] = "bad"]
    /\ UNCHANGED <<handle, op, synced, dir, safe, crashes, ghostVars>>

-----------------------------------------------------------------------------
(***************************************************************************)
(* checkpointLocked, on its own or inside write and finalize.              *)
(***************************************************************************)

\* With nothing dirty there is nothing to do, and the closed file of an operation
\* that failed cannot be synced.
Checkpoint(t) ==
    /\ Open(t)
    /\ handle[t].dirty
    /\ Begin(t, "checkpoint", "sync", 0)
    /\ UNCHANGED <<handle, diskVars, faultVars, ghostVars>>

NoSync(t) ==
    /\ At(t, "sync")
    /\ GoTo(t, "journal")
    /\ UNCHANGED <<handle, diskVars, faultVars, ghostVars>>

SyncFile(t) ==
    /\ At(t, "sync")
    /\ synced' = [synced EXCEPT ![t] = data[t]]
    /\ safe' = [safe EXCEPT !.part[t] = TRUE]
    /\ GoTo(t, "journal")
    /\ UNCHANGED <<handle, data, dir, faultVars, ghostVars>>

\* The journal is written aside, synced and renamed.
WriteJournal(t) ==
    /\ At(t, "journal")
    /\ dir' = [dir EXCEPT !.journal[t] = handle[t].bitmap]
    /\ GoTo(t, "syncDir")
    /\ UNCHANGED <<handle, data, synced, safe, faultVars, ghostVars>>

DirNotSynced == UNCHANGED <<safe, taken>>

\* The directory becomes durable with everything in it, the removal of a journal too.
DirDurable ==
    /\ safe' = dir
    /\ taken' = taken \ {t \in Transfers : dir.journal[t] = {}}

\* What the answer of a checkpoint promises.
Told(t) ==
    CASE op[t].kind = "write"      -> {op[t].chunk}
      [] op[t].kind = "checkpoint" -> Through(handle[t].bitmap)
      [] OTHER                     -> {}

SyncDir(t) ==
    /\ At(t, "syncDir")
    /\ DirDurable
    /\ handle' = [handle EXCEPT ![t].durable = handle[t].bitmap, ![t].dirty = FALSE]
    /\ promised' = [promised EXCEPT ![t] = @ \cup Told(t)]
    /\ IF op[t].kind = "finalize" THEN GoTo(t, "hash") ELSE Answer(t)
    /\ UNCHANGED <<data, synced, dir, faultVars, repeated, unread, delivered>>

-----------------------------------------------------------------------------
(***************************************************************************)
(* finalize and abort.                                                     *)
(***************************************************************************)

FinalizeUnsynced(t) ==
    /\ Open(t)
    /\ handle[t].bitmap = Chunks
    /\ Begin(t, "finalize", "hash", 0)
    /\ UNCHANGED <<handle, diskVars, faultVars, ghostVars>>

Finalize(t) ==
    /\ Open(t)
    /\ handle[t].bitmap = Chunks
    /\ Begin(t, "finalize", IF handle[t].dirty THEN "sync" ELSE "hash", 0)
    /\ UNCHANGED <<handle, diskVars, faultVars, ghostVars>>

HashClosed(t) ==
    /\ At(t, "hash")
    /\ IF \A c \in Chunks : data[t][c] = "good" THEN GoTo(t, "stat") ELSE Answer(t)
    /\ handle' = [handle EXCEPT ![t].open = FALSE]
    /\ UNCHANGED <<diskVars, faultVars, ghostVars>>

\* The hash is compared, and the file closed when it is right.
Hash(t) ==
    /\ At(t, "hash")
    /\ IF \A c \in Chunks : data[t][c] = "good"
         THEN GoTo(t, "stat") /\ handle' = [handle EXCEPT ![t].open = FALSE]
         ELSE Answer(t) /\ UNCHANGED handle
    /\ UNCHANGED <<diskVars, faultVars, ghostVars>>

\* With destination_exists the transfer stays in the table, its file closed.  Any
\* error of os.Stat is taken for a free name.
Stat(t) ==
    /\ At(t, "stat")
    /\ \/ /\ dir.final[NameOf[t]] = NoFile
          /\ GoTo(t, "rename") /\ UNCHANGED faults
       \/ /\ dir.final[NameOf[t]] # NoFile
          /\ Answer(t) /\ UNCHANGED faults
       \/ Fault /\ GoTo(t, "rename")
    /\ UNCHANGED <<handle, diskVars, crashes, ghostVars>>

\* os.Rename replaces a file of that name.
Rename(t) ==
    /\ At(t, "rename")
    /\ dir' = [dir EXCEPT !.part[t] = FALSE,
                          !.final[NameOf[t]] =
                              [of |-> t, whole |-> \A c \in Chunks : synced[t][c] = "good"]]
    /\ taken' = taken \cup {t}
    /\ GoTo(t, "syncFinal")
    /\ UNCHANGED <<handle, data, synced, safe, faultVars, promised, repeated, unread, delivered>>

SyncFinal(t) ==
    /\ At(t, "syncFinal")
    /\ DirDurable
    /\ GoTo(t, "removeJournal")
    /\ UNCHANGED <<handle, data, synced, dir, faultVars, promised, repeated, unread, delivered>>

AbortForgets(t) ==
    /\ Open(t)
    /\ handle' = [handle EXCEPT ![t] = NoHandle]
    /\ Begin(t, "abort", "removePart", 0)
    /\ UNCHANGED <<diskVars, faultVars, ghostVars>>

Abort(t) ==
    /\ Open(t)
    /\ handle' = [handle EXCEPT ![t].open = FALSE]
    /\ Begin(t, "abort", "removePart", 0)
    /\ UNCHANGED <<diskVars, faultVars, ghostVars>>

RemovePart(t) ==
    /\ At(t, "removePart")
    /\ dir' = [dir EXCEPT !.part[t] = FALSE]
    /\ taken' = taken \cup {t}
    /\ GoTo(t, "removeJournal")
    /\ UNCHANGED <<handle, data, synced, safe, faultVars, promised, repeated, unread, delivered>>

\* The journal goes last.  This removal is not synced.  A transfer that is over has
\* no promise left to keep.
UnlinkJournal(t) ==
    /\ At(t, "removeJournal")
    /\ dir' = [dir EXCEPT !.journal[t] = {}]
    /\ Answer(t)
    /\ promised' = [promised EXCEPT ![t] = {}]
    /\ repeated' = [repeated EXCEPT ![t] = {}]
    /\ UNCHANGED <<data, synced, safe, crashes, taken, unread>>

\* Then the transfer leaves the table ...
RemoveJournal(t) ==
    /\ UnlinkJournal(t)
    /\ handle' = [handle EXCEPT ![t] = NoHandle]
    /\ delivered' = IF op[t].kind = "finalize" THEN delivered \cup {t} ELSE delivered
    /\ UNCHANGED faults

\* ... unless abort fails to remove the journal's temporary file.
TempStays(t) ==
    /\ UnlinkJournal(t)
    /\ op[t].kind = "abort"
    /\ Fault
    /\ UNCHANGED <<handle, delivered>>

-----------------------------------------------------------------------------
(***************************************************************************)
(* The worker dies, alone or with the machine.                             *)
(***************************************************************************)

Gone ==
    /\ crashes < MaxCrashes
    /\ crashes' = crashes + 1
    /\ handle' = [t \in Transfers |-> NoHandle]
    /\ op' = [t \in Transfers |-> NoOp]
    /\ UNCHANGED <<faults, ghostVars>>

WorkerDies == Gone /\ UNCHANGED diskVars

PowerLoss(names, kept, lost) ==
    /\ Gone
    /\ dir' = [part    |-> names.part,
               journal |-> [t \in Transfers |->
                               IF t \in kept THEN dir.journal[t] ELSE safe.journal[t]],
               final   |-> names.final]
    /\ safe' = dir'
    /\ data' = [t \in Transfers |-> [c \in Chunks |->
                   IF c \in lost THEN synced[t][c] ELSE data[t][c]]]
    /\ synced' = data'

Init ==
    /\ handle = [t \in Transfers |-> NoHandle]
    /\ op = [t \in Transfers |-> NoOp]
    /\ data = [t \in Transfers |-> Holes] /\ synced = data
    /\ \E there \in [Names -> {NoFile, Foreign}] :
           dir = [part    |-> [t \in Transfers |-> FALSE],
                  journal |-> [t \in Transfers |-> {}],
                  final   |-> there]
    /\ safe = dir
    /\ crashes = 0 /\ faults = 0
    /\ promised = [t \in Transfers |-> {}] /\ repeated = promised
    /\ taken = {} /\ unread = {} /\ delivered = {}

Running(t) ==
    \/ SyncFile(t) \/ WriteJournal(t) \/ SyncDir(t)
    \/ Hash(t) \/ Stat(t) \/ Rename(t) \/ SyncFinal(t)
    \/ RemovePart(t) \/ RemoveJournal(t) \/ TempStays(t)

Request(t) ==
    \/ InitTransfer(t)
    \/ \E c \in Chunks :
           \/ WriteDuplicate(t, c)
           \/ WriteFails(t, c)
           \/ \E content \in {"good", "bad"}, due \in BOOLEAN : Write(t, c, content, due)
    \/ Checkpoint(t) \/ Finalize(t) \/ Abort(t)

Next ==
    \/ \E t \in Transfers : Request(t) \/ Running(t) \/ CallFails(t)
    \/ WorkerDies
    \/ \E names \in {dir, safe}, kept \in SUBSET Transfers, lost \in SUBSET Chunks :
           PowerLoss(names, kept, lost)

Spec == Init /\ [][Next]_vars

-----------------------------------------------------------------------------
(***************************************************************************)
(* Properties.                                                             *)
(***************************************************************************)

\* A chunk answered as checkpointed (by its first write or by a checkpoint) is in
\* the journal, now and after a loss of power, and its content is durable and never
\* written again, until the part file is renamed or removed or the journal turns out
\* to be unreadable.
PromiseKept ==
    \A t \in Transfers \ unread : \A c \in promised[t] :
        /\ c \in dir.journal[t] /\ c \in safe.journal[t]
        /\ t \notin taken => synced[t][c] = data[t][c] /\ data[t][c] # "hole"

\* Under a final name there is only a whole file with the right hash, even after a
\* loss of power in the middle of finalize; finalize may skip its sync, and what makes
\* up for that is the journal it read.
FinalsWhole ==
    \A n \in Names : \A file \in {dir.final[n], safe.final[n]} \ {NoFile, Foreign} :
        file.of \in unread \/ file.whole

\* A file whose finalize has answered stays under its name, as long as no other transfer has
\* that name.
OwnNames == \A t, u \in Transfers : NameOf[t] = NameOf[u] => t = u

Named(t, d) == d.final[NameOf[t]] \in File /\ d.final[NameOf[t]].of = t

DeliveredStays == OwnNames => \A t \in delivered : Named(t, dir) /\ Named(t, safe)

\* A transfer whose file is closed, which can be neither continued nor aborted, had a
\* failing call or found its destination taken.
StuckHasCause ==
    \A t \in Transfers :
        Free(t) /\ ~handle[t].open => faults > 0 \/ dir.final[NameOf[t]] # NoFile

\* "Durable ACK boundary: file data first, journal second, ACK only after this
\* returns" (receive_store.go:245): also for a chunk answered as a duplicate ...
DuplicateDurable ==
    \A t \in Transfers : \A c \in repeated[t] : c \in safe.journal[t]

\* Only whole files get a final name, which they keep, and a transfer that can be neither
\* finished nor aborted has met an error.
TransfersSound == TypeOK /\ FinalsWhole /\ StuckHasCause /\ DeliveredStays
=============================================================================
