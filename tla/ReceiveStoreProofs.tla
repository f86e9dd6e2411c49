-------------------------- MODULE ReceiveStoreProofs --------------------------
(***************************************************************************)
(* Theorems about ReceiveStore, proved by TLAPS: promises, then files      *)
(* under final names.                                                      *)
(*                                                                         *)
(* That a promise is kept rests on three facts.  A chunk of a journal is   *)
(* backed by the part file, durably (JournalBacked); a chunk of the bitmap *)
(* that is not in the journal has been written by this handle              *)
(* (BitmapWritten); and each step of a checkpoint finds what the steps     *)
(* before it have done (CheckpointInv).  The first fails when the part     *)
(* file goes before its journal, so it excepts `taken`, and the last says  *)
(* that only a transfer in `taken` has a journal that outlived its part.   *)
(***************************************************************************)
EXTENDS ReceiveStore, TLAPS

Backed(t, c) == synced[t][c] = data[t][c] /\ data[t][c] # "hole"

PromiseInv(t) ==
    t \notin unread => promised[t] \subseteq dir.journal[t] /\ promised[t] \subseteq safe.journal[t]

JournalBacked(t) ==
    t \notin unread /\ t \notin taken =>
        /\ safe.journal[t] \subseteq dir.journal[t]
        /\ \A c \in dir.journal[t] : Backed(t, c)
        /\ dir.journal[t] # {} => dir.part[t] /\ safe.part[t]

BitmapWritten(t) ==
    handle[t] # NoHandle /\ handle[t].open =>
        /\ dir.part[t]
        /\ t \notin unread =>
               /\ dir.journal[t] \subseteq handle[t].bitmap
               /\ \A c \in handle[t].bitmap \ dir.journal[t] : data[t][c] # "hole"

CheckpointInv(t) ==
    op[t] # NoOp =>
        /\ handle[t].open <=> op[t].at \in {"sync", "journal", "syncDir", "hash"}
        /\ op[t].kind = "write" => op[t].chunk \in handle[t].bitmap
        /\ op[t].at \in {"journal", "syncDir"} => safe.part[t] /\ synced[t] = data[t]
        /\ op[t].at = "syncDir" => dir.journal[t] = handle[t].bitmap
        /\ op[t].at \in {"syncFinal", "removeJournal"} => t \in taken \/ dir.journal[t] = {}

TransferInv(t) ==
    PromiseInv(t) /\ JournalBacked(t) /\ BitmapWritten(t) /\ CheckpointInv(t)

StoreInv == \A t \in Transfers : TransferInv(t)

-----------------------------------------------------------------------------
(***************************************************************************)
(* Types.                                                                  *)
(***************************************************************************)

\* What the operators on the lock leave of op.
LEMMA OpType ==
    ASSUME TypeOK, NEW t \in Transfers
    PROVE  /\ Answer(t) => op' \in [Transfers -> Op \cup {NoOp}]
           /\ \A kind \in {"write", "checkpoint", "finalize", "abort"},
                 step \in Steps, c \in Chunks :
                  Begin(t, kind, step, c) => op' \in [Transfers -> Op \cup {NoOp}]
           /\ \A step \in Steps :
                  op[t] # NoOp /\ GoTo(t, step) => op' \in [Transfers -> Op \cup {NoOp}]
  <1>1. Answer(t) => op' \in [Transfers -> Op \cup {NoOp}]
    BY DEF Answer, TypeOK
  <1>2. ASSUME NEW kind \in {"write", "checkpoint", "finalize", "abort"},
               NEW step \in Steps, NEW c \in Chunks, Begin(t, kind, step, c)
        PROVE  op' \in [Transfers -> Op \cup {NoOp}]
    BY <1>2 DEF Begin, TypeOK, Op
  <1>3. ASSUME NEW step \in Steps, op[t] # NoOp, GoTo(t, step)
        PROVE  op' \in [Transfers -> Op \cup {NoOp}]
    BY <1>3 DEF GoTo, TypeOK, Op
  <1>4. QED
    BY <1>1, <1>2, <1>3

\* Of a transfer in the table, everything but the table's entry may change.
LEMMA HandleType ==
    ASSUME TypeOK, NEW t \in Transfers, handle[t] # NoHandle
    PROVE  handle[t] \in Handle
  BY DEF TypeOK

LEMMA FaultType ==
    ASSUME TypeOK, Fault
    PROVE  faults' \in 0..MaxFaults
  BY BoundsAssumption DEF Fault, TypeOK

LEMMA GoneType ==
    ASSUME TypeOK, Gone
    PROVE  crashes' \in 0..MaxCrashes
  BY BoundsAssumption DEF Gone, TypeOK

LEMMA TypeInit ==
    ASSUME Init
    PROVE  TypeOK
  <1>1. Holes \in [Chunks -> Content]
    BY DEF Holes, Content
  <1>2. dir \in Dir
    BY DEF Init, Dir
  <1>3. QED
    BY <1>1, <1>2, BoundsAssumption DEF Init, TypeOK

LEMMA TypeStep ==
    ASSUME TypeOK, [Next]_vars
    PROVE  TypeOK'
  <1> USE DEF diskVars, faultVars, ghostVars
  <1>1. ASSUME NEW t \in Transfers, CallFails(t) PROVE TypeOK'
    <2>1. faults' \in 0..MaxFaults /\ op' \in [Transfers -> Op \cup {NoOp}]
      BY <1>1, FaultType, OpType DEF CallFails
    <2>2. \A u \in Transfers : op'[u] # NoOp => handle'[u] # NoHandle
      BY <1>1 DEF CallFails, Answer, TypeOK
    <2>3. QED
      BY <1>1, <2>1, <2>2 DEF CallFails, TypeOK
  <1>2. ASSUME NEW t \in Transfers, NEW b \in SUBSET Chunks, Recover(t, b),
               faults' \in 0..MaxFaults, unread' \subseteq Transfers
        PROVE  TypeOK'
    <2>1. handle' \in [Transfers -> Handle \cup {NoHandle}]
      BY <1>2 DEF Recover, TypeOK, Handle
    <2>2. Holes \in [Chunks -> Content]
      BY DEF Holes, Content
    <2>3. /\ data' \in [Transfers -> [Chunks -> Content]]
          /\ synced' \in [Transfers -> [Chunks -> Content]]
      BY <1>2, <2>2 DEF Recover, TypeOK
    <2>4. dir' \in Dir
      BY <1>2 DEF Recover, TypeOK, Dir
    <2>5. ASSUME NEW u \in Transfers, op'[u] # NoOp PROVE handle'[u] # NoHandle
      BY <1>2, <2>5 DEF Recover, TypeOK
    <2>6. QED
      BY <1>2, <2>1, <2>3, <2>4, <2>5 DEF Recover, TypeOK
  <1>3. ASSUME NEW t \in Transfers, InitTransfer(t) PROVE TypeOK'
    <2>1. dir.journal[t] \in SUBSET Chunks
      BY DEF TypeOK, Dir
    <2>2. CASE UNCHANGED vars
      BY <2>2 DEF vars, TypeOK
    <2>3. CASE Recover(t, dir.journal[t]) /\ UNCHANGED <<faults, unread>>
      BY <1>2, <2>1, <2>3 DEF TypeOK
    <2>4. CASE Recover(t, {}) /\ Fault /\ unread' = unread \cup {t}
      BY <1>2, <2>4, FaultType DEF TypeOK
    <2>5. QED
      BY <1>3, <2>2, <2>3, <2>4 DEF InitTransfer
  <1>4. ASSUME NEW t \in Transfers, NEW c \in Chunks, WriteDuplicate(t, c) PROVE TypeOK'
    BY <1>4 DEF WriteDuplicate, TypeOK
  <1>5. ASSUME NEW t \in Transfers, NEW c \in Chunks, NEW content \in {"good", "bad"},
               NEW due \in BOOLEAN, Write(t, c, content, due)
        PROVE TypeOK'
    <2>1. handle[t] \in Handle /\ op[t] = NoOp
      BY <1>5, HandleType DEF Write, Open, Free
    <2>2. handle'[t] \in Handle /\ handle' \in [Transfers -> Handle \cup {NoHandle}]
      BY <1>5, <2>1 DEF Write, TypeOK, Handle
    <2>3. data' \in [Transfers -> [Chunks -> Content]]
      BY <1>5 DEF Write, TypeOK, Content
    <2>4. op' \in [Transfers -> Op \cup {NoOp}]
      BY <1>5, OpType DEF Write, TypeOK, Steps
    <2>5. ASSUME NEW u \in Transfers, op'[u] # NoOp PROVE handle'[u] # NoHandle
      BY <1>5, <2>2, <2>5, NullsAssumption DEF Write, Begin, TypeOK
    <2>6. QED
      BY <1>5, <2>2, <2>3, <2>4, <2>5 DEF Write, TypeOK
  <1>6. ASSUME NEW t \in Transfers, NEW c \in Chunks, WriteFails(t, c) PROVE TypeOK'
    <2>1. faults' \in 0..MaxFaults
      BY <1>6, FaultType DEF WriteFails
    <2>2. data' \in [Transfers -> [Chunks -> Content]]
      BY <1>6 DEF WriteFails, TypeOK, Content
    <2>3. QED
      BY <1>6, <2>1, <2>2 DEF WriteFails, TypeOK
  <1>7. ASSUME NEW t \in Transfers, Checkpoint(t) \/ Finalize(t) PROVE TypeOK'
    <2>1. 0 \in Chunks
      BY ChunksAssumption DEF Chunks
    <2>2. op' \in [Transfers -> Op \cup {NoOp}]
      BY <1>7, <2>1, OpType DEF Checkpoint, Finalize, Steps
    <2>3. ASSUME NEW u \in Transfers, op'[u] # NoOp PROVE handle'[u] # NoHandle
      BY <1>7, <2>3 DEF Checkpoint, Finalize, Open, Free, Begin, TypeOK
    <2>4. QED
      BY <1>7, <2>2, <2>3 DEF Checkpoint, Finalize, TypeOK
  <1>8. ASSUME NEW t \in Transfers, SyncFile(t) \/ WriteJournal(t) \/ SyncDir(t) PROVE TypeOK'
    <2>1. handle[t] \in Handle /\ op[t] \in Op /\ op[t] # NoOp
      BY <1>8, HandleType DEF SyncFile, WriteJournal, SyncDir, At, TypeOK
    <2>2. op' \in [Transfers -> Op \cup {NoOp}]
      BY <1>8, <2>1, OpType DEF SyncFile, WriteJournal, SyncDir, Steps
    <2>3. CASE SyncFile(t)
      <3>1. safe' \in Dir
        BY <2>3 DEF SyncFile, TypeOK, Dir
      <3>2. synced' \in [Transfers -> [Chunks -> Content]]
        BY <2>3 DEF SyncFile, TypeOK
      <3>3. ASSUME NEW u \in Transfers, op'[u] # NoOp PROVE handle'[u] # NoHandle
        BY <2>3, <3>3 DEF SyncFile, At, GoTo, TypeOK
      <3>4. QED
        BY <2>2, <2>3, <3>1, <3>2, <3>3 DEF SyncFile, TypeOK
    <2>4. CASE WriteJournal(t)
      <3>1. dir' \in Dir
        BY <2>1, <2>4 DEF WriteJournal, TypeOK, Dir, Handle
      <3>2. ASSUME NEW u \in Transfers, op'[u] # NoOp PROVE handle'[u] # NoHandle
        BY <2>4, <3>2 DEF WriteJournal, At, GoTo, TypeOK
      <3>3. QED
        BY <2>2, <2>4, <3>1, <3>2 DEF WriteJournal, TypeOK
    <2>5. CASE SyncDir(t)
      <3>1. handle'[t] \in Handle /\ handle' \in [Transfers -> Handle \cup {NoHandle}]
        BY <2>1, <2>5 DEF SyncDir, TypeOK, Handle
      <3>2. Told(t) \in SUBSET Chunks
        BY <2>1 DEF Told, Through, Op
      <3>3. promised' \in [Transfers -> SUBSET Chunks]
        BY <2>5, <3>2 DEF SyncDir, TypeOK
      <3>4. ASSUME NEW u \in Transfers, op'[u] # NoOp PROVE handle'[u] # NoHandle
        BY <2>5, <3>1, <3>4, NullsAssumption DEF SyncDir, GoTo, Answer, TypeOK
      <3>5. QED
        BY <2>2, <2>5, <3>1, <3>3, <3>4 DEF SyncDir, DirDurable, TypeOK
    <2>6. QED
      BY <1>8, <2>3, <2>4, <2>5
  <1>9. ASSUME NEW t \in Transfers, Hash(t) \/ Stat(t) \/ Abort(t) PROVE TypeOK'
    <2>1. handle[t] \in Handle /\ (Hash(t) \/ Stat(t) => op[t] # NoOp)
      BY <1>9, HandleType DEF Hash, Stat, Abort, At, Open, Free
    <2>2. 0 \in Chunks
      BY ChunksAssumption DEF Chunks
    <2>3. op' \in [Transfers -> Op \cup {NoOp}]
      BY <1>9, <2>1, <2>2, OpType DEF Hash, Stat, Abort, Steps
    <2>4. handle'[t] \in Handle /\ handle' \in [Transfers -> Handle \cup {NoHandle}]
      <3>1. \/ UNCHANGED handle
            \/ handle' = [handle EXCEPT ![t].open = FALSE]
        BY <1>9, Zenon DEF Hash, Stat, Abort
      <3>2. [handle[t] EXCEPT !.open = FALSE] \in Handle
        BY <2>1 DEF Handle
      <3>3. CASE UNCHANGED handle
        BY <2>1, <3>3 DEF TypeOK
      <3>4. CASE handle' = [handle EXCEPT ![t].open = FALSE]
        BY <3>2, <3>4 DEF TypeOK
      <3>5. QED
        BY <3>1, <3>3, <3>4
    <2>5. \A u \in Transfers : u # t => op'[u] = op[u] /\ handle'[u] = handle[u]
      BY <1>9 DEF Hash, Stat, Abort, GoTo, Answer, Begin, TypeOK
    <2>6. faults' \in 0..MaxFaults
      BY <1>9, FaultType DEF Hash, Stat, Abort, TypeOK
    <2>7. \A u \in Transfers : op'[u] # NoOp => handle'[u] # NoHandle
      BY <2>4, <2>5, NullsAssumption DEF TypeOK
    <2>8. UNCHANGED <<data, synced, dir, safe, crashes, promised, repeated, taken, unread,
                      delivered>>
      BY <1>9 DEF Hash, Stat, Abort
    <2>9. QED
      BY <2>3, <2>4, <2>6, <2>7, <2>8 DEF TypeOK
  <1>10. ASSUME NEW t \in Transfers, Rename(t) \/ SyncFinal(t) \/ RemovePart(t) PROVE TypeOK'
    <2>1. op[t] # NoOp /\ handle[t] # NoHandle
      BY <1>10 DEF Rename, SyncFinal, RemovePart, At
    <2>2. op' \in [Transfers -> Op \cup {NoOp}]
      BY <1>10, <2>1, OpType DEF Rename, SyncFinal, RemovePart, Steps
    <2>3. \A u \in Transfers : op'[u] # NoOp => handle'[u] # NoHandle
      BY <1>10, <2>1 DEF Rename, SyncFinal, RemovePart, GoTo, TypeOK
    <2>4. dir' \in Dir
      <3>1. CASE Rename(t)
        <4> DEFINE file == [of |-> t, whole |-> \A c \in Chunks : synced[t][c] = "good"]
        <4>1. file \in File
          BY DEF File
        <4>2. dir' = [dir EXCEPT !.part[t] = FALSE, !.final[NameOf[t]] = file]
          BY <3>1 DEF Rename
        <4> HIDE DEF file
        <4>3. QED
          BY <4>1, <4>2, NamesAssumption DEF TypeOK, Dir
      <3>2. CASE RemovePart(t)
        BY <3>2 DEF RemovePart, TypeOK, Dir
      <3>3. CASE SyncFinal(t)
        BY <3>3 DEF SyncFinal, TypeOK
      <3>4. QED
        BY <1>10, <3>1, <3>2, <3>3
    <2>5. safe' \in Dir /\ taken' \subseteq Transfers
      BY <1>10 DEF Rename, SyncFinal, RemovePart, DirDurable, TypeOK
    <2>6. UNCHANGED <<handle, data, synced, crashes, faults, promised, repeated, unread, delivered>>
      BY <1>10 DEF Rename, SyncFinal, RemovePart
    <2>7. QED
      BY <2>2, <2>3, <2>4, <2>5, <2>6 DEF TypeOK
  <1>11. ASSUME NEW t \in Transfers, RemoveJournal(t) \/ TempStays(t) PROVE TypeOK'
    <2>1. UnlinkJournal(t)
      BY <1>11 DEF RemoveJournal, TempStays
    <2>2. op' \in [Transfers -> Op \cup {NoOp}]
      BY <2>1, OpType DEF UnlinkJournal
    <2>3. dir' \in Dir
      BY <2>1 DEF UnlinkJournal, TypeOK, Dir
    <2>4. promised' \in [Transfers -> SUBSET Chunks] /\ repeated' \in [Transfers -> SUBSET Chunks]
      BY <2>1 DEF UnlinkJournal, TypeOK
    <2>5. handle' \in [Transfers -> Handle \cup {NoHandle}]
      BY <1>11 DEF RemoveJournal, TempStays, TypeOK
    <2>6. \A u \in Transfers : op'[u] # NoOp => handle'[u] # NoHandle
      BY <1>11, <2>1 DEF RemoveJournal, TempStays, UnlinkJournal, Answer, TypeOK
    <2>7. faults' \in 0..MaxFaults /\ delivered' \subseteq Transfers
      BY <1>11, FaultType DEF RemoveJournal, TempStays, TypeOK
    <2>8. QED
      BY <2>1, <2>2, <2>3, <2>4, <2>5, <2>6, <2>7 DEF UnlinkJournal, TypeOK
  <1>12. CASE WorkerDies
    BY <1>12, GoneType DEF WorkerDies, Gone, TypeOK
  <1>13. ASSUME NEW names \in {dir, safe}, NEW kept \in SUBSET Transfers,
                NEW lost \in SUBSET Chunks, PowerLoss(names, kept, lost)
         PROVE  TypeOK'
    <2>1. dir' \in Dir
      BY <1>13 DEF PowerLoss, TypeOK, Dir
    <2>2. data' \in [Transfers -> [Chunks -> Content]]
      BY <1>13 DEF PowerLoss, TypeOK
    <2>3. QED
      BY <1>13, <2>1, <2>2, GoneType DEF PowerLoss, Gone, TypeOK
  <1>14. CASE UNCHANGED vars
    BY <1>14 DEF vars, TypeOK
  <1>15. QED
    BY <1>1, <1>3, <1>4, <1>5, <1>6, <1>7, <1>8, <1>9, <1>10, <1>11, <1>12, <1>13, <1>14
       DEF Next, Request, Running

\* Every reachable state is well typed, and only a transfer in the table is operated on.
THEOREM TypeCorrect == Spec => []TypeOK
  BY TypeInit, TypeStep, PTL DEF Spec

-----------------------------------------------------------------------------
(***************************************************************************)
(* Promises.                                                               *)
(***************************************************************************)

\* A step that leaves everything of a transfer keeps its invariant.
Same(t) ==
    /\ handle'[t] = handle[t] /\ op'[t] = op[t]
    /\ data'[t] = data[t] /\ synced'[t] = synced[t]
    /\ dir'.part[t] = dir.part[t] /\ dir'.journal[t] = dir.journal[t]
    /\ safe'.part[t] = safe.part[t] /\ safe'.journal[t] = safe.journal[t]
    /\ promised'[t] = promised[t]
    /\ t \in unread' <=> t \in unread
    /\ t \in taken' <=> t \in taken

LEMMA Frame ==
    ASSUME NEW t \in Transfers, TransferInv(t), Same(t)
    PROVE  TransferInv(t)'
  <1>1. PromiseInv(t)'
    BY DEF Same, TransferInv, PromiseInv
  <1>2. JournalBacked(t)'
    BY DEF Same, TransferInv, JournalBacked, Backed
  <1>3. BitmapWritten(t)'
    BY DEF Same, TransferInv, BitmapWritten
  <1>4. CheckpointInv(t)'
    BY DEF Same, TransferInv, CheckpointInv
  <1>5. QED
    BY <1>1, <1>2, <1>3, <1>4 DEF TransferInv

\* A step on one transfer has that transfer's invariant to keep.
LEMMA OneTransfer ==
    ASSUME StoreInv, NEW t \in Transfers, TransferInv(t)',
           \A u \in Transfers \ {t} : Same(u)
    PROVE  StoreInv'
  BY Frame DEF StoreInv

LEMMA StoreInit ==
    ASSUME Init
    PROVE  StoreInv
  BY DEF Init, StoreInv, TransferInv, PromiseInv, JournalBacked, BitmapWritten, CheckpointInv

LEMMA StoreRecover ==
    ASSUME TypeOK, StoreInv, NEW t \in Transfers, InitTransfer(t)
    PROVE  StoreInv'
  <1>1. CASE UNCHANGED vars
    <2>1. \A u \in Transfers : Same(u)
      BY <1>1 DEF vars, diskVars, ghostVars, Same
    <2>2. QED
      BY <2>1, Frame DEF StoreInv
  <1>2. ASSUME NEW b \in SUBSET Chunks, Recover(t, b), t \notin unread' => b = dir.journal[t],
               \A u \in Transfers \ {t} : u \in unread' <=> u \in unread,
               unread \subseteq unread'
        PROVE  StoreInv'
    <2>1. \A u \in Transfers \ {t} : Same(u)
      BY <1>2 DEF Recover, Same, TypeOK, Dir
    <2>2. /\ handle'[t].bitmap = b /\ handle'[t].open
          /\ dir'.part[t] /\ dir'.journal = dir.journal
          /\ UNCHANGED <<op, safe, promised, taken>>
          /\ dir.part[t] => UNCHANGED <<data, synced>>
      BY <1>2 DEF Recover, TypeOK, Dir
    <2>3. op[t] = NoOp
      BY <1>2 DEF Recover, TypeOK
    <2>4. TransferInv(t)
      BY DEF StoreInv
    <2>5. PromiseInv(t)' /\ BitmapWritten(t)' /\ CheckpointInv(t)'
      BY <1>2, <2>2, <2>3, <2>4 DEF TransferInv, PromiseInv, BitmapWritten, CheckpointInv
    <2>6. JournalBacked(t)'
      BY <1>2, <2>2, <2>4 DEF TransferInv, JournalBacked, Backed
    <2>7. QED
      BY <2>1, <2>5, <2>6, OneTransfer DEF TransferInv
  <1>3. dir.journal[t] \in SUBSET Chunks
    BY DEF TypeOK, Dir
  <1>4. QED
    BY <1>1, <1>2, <1>3 DEF InitTransfer

LEMMA StoreWrite ==
    ASSUME TypeOK, StoreInv, NEW t \in Transfers, NEW c \in Chunks,
           NEW content \in {"good", "bad"}, NEW due \in BOOLEAN, Write(t, c, content, due)
    PROVE  StoreInv'
  <1> USE DEF diskVars, faultVars, ghostVars
  <1>1. \A u \in Transfers \ {t} : Same(u)
    BY DEF Write, Begin, Same, TypeOK
  <1>2. handle[t] \in Handle /\ op[t] = NoOp /\ handle[t].open /\ c \notin handle[t].bitmap
    BY HandleType DEF Write, Open, Free
  <1>3. /\ handle'[t] = [handle[t] EXCEPT !.bitmap = @ \cup {c}, !.dirty = TRUE]
        /\ data'[t] = [data[t] EXCEPT ![c] = content]
        /\ UNCHANGED <<synced, dir, safe, promised, unread, taken>>
    BY DEF Write, TypeOK
  <1>4. handle'[t].bitmap = handle[t].bitmap \cup {c} /\ handle'[t].open
    BY <1>2, <1>3 DEF Handle
  <1>5. data'[t][c] # "hole" /\ \A b \in Chunks \ {c} : data'[t][b] = data[t][b]
    BY <1>3 DEF TypeOK
  <1>6. TransferInv(t) /\ dir.journal[t] \subseteq Chunks /\ safe.journal[t] \subseteq Chunks
    BY DEF StoreInv, TypeOK, Dir
  <1>7. PromiseInv(t)'
    BY <1>3, <1>6 DEF TransferInv, PromiseInv
  <1>8. BitmapWritten(t)'
    <2>1. handle[t] # NoHandle /\ BitmapWritten(t) /\ handle[t].bitmap \subseteq Chunks
      BY <1>2, <1>6, NullsAssumption DEF TransferInv, Handle
    <2>2. \A b \in handle'[t].bitmap \ dir.journal[t] :
              b = c \/ (b \in handle[t].bitmap \ dir.journal[t] /\ data'[t][b] = data[t][b])
      BY <1>4, <1>5, <2>1
    <2>3. QED
      BY <1>2, <1>3, <1>4, <1>5, <2>1, <2>2 DEF BitmapWritten
  <1>9. JournalBacked(t)'
    <2>1. t \notin unread => c \notin dir.journal[t]
      BY <1>2, <1>6, NullsAssumption DEF TransferInv, BitmapWritten
    <2>2. QED
      BY <1>3, <1>5, <1>6, <2>1 DEF TransferInv, JournalBacked, Backed
  <1>10. CheckpointInv(t)'
    <2>1. CASE due
      <3>1. op'[t] = [kind |-> "write", at |-> "sync", chunk |-> c]
        BY <2>1 DEF Write, Begin, TypeOK
      <3>2. QED
        BY <3>1, <1>4 DEF CheckpointInv
    <2>2. CASE ~due
      BY <2>2, <1>2 DEF Write, CheckpointInv
    <2>3. QED
      BY <2>1, <2>2
  <1>11. QED
    BY <1>1, <1>7, <1>8, <1>9, <1>10, OneTransfer DEF TransferInv

LEMMA StoreWriteFails ==
    ASSUME TypeOK, StoreInv, NEW t \in Transfers, NEW c \in Chunks, WriteFails(t, c)
    PROVE  StoreInv'
  <1> USE DEF diskVars, faultVars, ghostVars
  <1>1. \A u \in Transfers \ {t} : Same(u)
    BY DEF WriteFails, Same, TypeOK
  <1>2. handle[t] # NoHandle /\ op[t] = NoOp /\ handle[t].open /\ c \notin handle[t].bitmap
    BY DEF WriteFails, Open, Free
  <1>3. /\ data'[t] = [data[t] EXCEPT ![c] = "bad"]
        /\ UNCHANGED <<handle, op, synced, dir, safe, promised, unread, taken>>
    BY DEF WriteFails, TypeOK
  <1>4. data'[t][c] # "hole" /\ \A b \in Chunks \ {c} : data'[t][b] = data[t][b]
    BY <1>3 DEF TypeOK
  <1>5. TransferInv(t) /\ dir.journal[t] \subseteq Chunks /\ handle[t].bitmap \subseteq Chunks
    BY <1>2, HandleType DEF StoreInv, TypeOK, Dir, Handle
  <1>6. PromiseInv(t)' /\ BitmapWritten(t)' /\ CheckpointInv(t)'
    BY <1>2, <1>3, <1>4, <1>5 DEF TransferInv, PromiseInv, BitmapWritten, CheckpointInv
  <1>7. JournalBacked(t)'
    <2>1. t \notin unread => c \notin dir.journal[t]
      BY <1>2, <1>5 DEF TransferInv, BitmapWritten
    <2>2. QED
      BY <1>3, <1>4, <1>5, <2>1 DEF TransferInv, JournalBacked, Backed
  <1>8. QED
    BY <1>1, <1>6, <1>7, OneTransfer DEF TransferInv

\* Starting an operation, or ending it without a trace.
LEMMA StoreLock ==
    ASSUME TypeOK, StoreInv, NEW t \in Transfers,
           Checkpoint(t) \/ Finalize(t) \/ CallFails(t) \/ Stat(t)
    PROVE  StoreInv'
  <1> USE DEF diskVars, faultVars, ghostVars
  <1>1. UNCHANGED <<handle, data, synced, dir, safe, promised, unread, taken>>
    BY DEF Checkpoint, Finalize, CallFails, Stat
  <1>2. \A u \in Transfers \ {t} : op'[u] = op[u]
    BY DEF Checkpoint, Finalize, CallFails, Stat, Begin, Answer, GoTo, TypeOK
  <1>3. \A u \in Transfers \ {t} : Same(u)
    BY <1>1, <1>2 DEF Same
  <1>4. TransferInv(t)
    BY DEF StoreInv
  <1>5. PromiseInv(t)' /\ JournalBacked(t)' /\ BitmapWritten(t)'
    BY <1>1, <1>4 DEF TransferInv, PromiseInv, JournalBacked, Backed, BitmapWritten
  <1>6. CheckpointInv(t)'
    <2>1. CASE Checkpoint(t) \/ Finalize(t)
      <3>1. handle[t].open /\ (\/ op'[t] = [kind |-> "checkpoint", at |-> "sync", chunk |-> 0]
                              \/ op'[t] = [kind |-> "finalize", at |-> "sync", chunk |-> 0]
                              \/ op'[t] = [kind |-> "finalize", at |-> "hash", chunk |-> 0])
        BY <2>1 DEF Checkpoint, Finalize, Open, Begin, TypeOK
      <3>2. QED
        BY <1>1, <3>1 DEF CheckpointInv
    <2>2. CASE CallFails(t)
      BY <2>2 DEF CallFails, Answer, TypeOK, CheckpointInv
    <2>3. CASE Stat(t)
      <3>1. op'[t] = NoOp \/ op'[t] = [op[t] EXCEPT !.at = "rename"]
        BY <2>3 DEF Stat, Answer, GoTo, TypeOK
      <3>2. op[t] \in Op /\ op[t].at = "stat" /\ op[t] # NoOp
        BY <2>3 DEF Stat, At, TypeOK
      <3>3. CASE op'[t] = [op[t] EXCEPT !.at = "rename"]
        <4>1. op'[t].at = "rename" /\ op'[t].kind = op[t].kind /\ op'[t].chunk = op[t].chunk
          BY <3>2, <3>3 DEF Op
        <4>2. QED
          BY <1>1, <1>4, <3>2, <4>1 DEF TransferInv, CheckpointInv
      <3>4. QED
        BY <3>1, <3>3 DEF CheckpointInv
    <2>4. QED
      BY <2>1, <2>2, <2>3
  <1>7. QED
    BY <1>3, <1>5, <1>6, OneTransfer DEF TransferInv

\* What GoTo leaves of an operation.
LEMMA GoToOp ==
    ASSUME TypeOK, NEW t \in Transfers, NEW step, op[t] # NoOp, GoTo(t, step)
    PROVE  /\ op'[t].at = step /\ op'[t].kind = op[t].kind /\ op'[t].chunk = op[t].chunk
           /\ \A u \in Transfers \ {t} : op'[u] = op[u]
  BY DEF GoTo, TypeOK, Op

LEMMA StoreSyncFile ==
    ASSUME TypeOK, StoreInv, NEW t \in Transfers, SyncFile(t)
    PROVE  StoreInv'
  <1> USE DEF diskVars, faultVars, ghostVars
  <1>1. op[t] # NoOp /\ handle[t] # NoHandle /\ op[t].at = "sync" /\ GoTo(t, "journal")
    BY DEF SyncFile, At
  <1>2. /\ op'[t].at = "journal" /\ op'[t].kind = op[t].kind /\ op'[t].chunk = op[t].chunk
        /\ \A u \in Transfers \ {t} : op'[u] = op[u]
    BY <1>1, GoToOp
  <1>3. /\ synced'[t] = data[t] /\ safe'.part[t] /\ safe'.journal = safe.journal
        /\ \A u \in Transfers \ {t} : synced'[u] = synced[u] /\ safe'.part[u] = safe.part[u]
        /\ UNCHANGED <<handle, data, dir, promised, unread, taken>>
    BY DEF SyncFile, TypeOK, Dir
  <1>4. \A u \in Transfers \ {t} : Same(u)
    BY <1>2, <1>3 DEF Same
  <1>5. TransferInv(t)
    BY DEF StoreInv
  <1>6. PromiseInv(t)' /\ BitmapWritten(t)' /\ JournalBacked(t)'
    BY <1>3, <1>5 DEF TransferInv, PromiseInv, BitmapWritten, JournalBacked, Backed
  <1>7. CheckpointInv(t)'
    BY <1>1, <1>2, <1>3, <1>5 DEF TransferInv, CheckpointInv
  <1>8. QED
    BY <1>4, <1>6, <1>7, OneTransfer DEF TransferInv

LEMMA StoreWriteJournal ==
    ASSUME TypeOK, StoreInv, NEW t \in Transfers, WriteJournal(t)
    PROVE  StoreInv'
  <1> USE DEF diskVars, faultVars, ghostVars
  <1>1. op[t] # NoOp /\ handle[t] # NoHandle /\ op[t].at = "journal" /\ GoTo(t, "syncDir")
    BY DEF WriteJournal, At
  <1>2. /\ op'[t].at = "syncDir" /\ op'[t].kind = op[t].kind /\ op'[t].chunk = op[t].chunk
        /\ \A u \in Transfers \ {t} : op'[u] = op[u]
    BY <1>1, GoToOp
  <1>3. /\ dir'.journal[t] = handle[t].bitmap /\ dir'.part = dir.part
        /\ \A u \in Transfers \ {t} : dir'.journal[u] = dir.journal[u]
        /\ UNCHANGED <<handle, data, synced, safe, promised, unread, taken>>
    BY DEF WriteJournal, TypeOK, Dir
  <1>4. \A u \in Transfers \ {t} : Same(u)
    BY <1>2, <1>3 DEF Same
  <1>5. TransferInv(t)
    BY DEF StoreInv
  <1>6. handle[t].open /\ safe.part[t] /\ synced[t] = data[t]
    BY <1>1, <1>5 DEF TransferInv, CheckpointInv
  <1>7. dir.part[t] /\ (t \notin unread => dir.journal[t] \subseteq handle[t].bitmap)
    BY <1>1, <1>5, <1>6 DEF TransferInv, BitmapWritten
  <1>8. PromiseInv(t)'
    BY <1>3, <1>5, <1>7 DEF TransferInv, PromiseInv
  <1>9. BitmapWritten(t)'
    BY <1>3, <1>7 DEF BitmapWritten
  <1>10. JournalBacked(t)'
    <2>1. ASSUME t \notin unread, t \notin taken, NEW c \in handle[t].bitmap
          PROVE  Backed(t, c)
      <3>1. CASE c \in dir.journal[t]
        BY <1>5, <2>1, <3>1 DEF TransferInv, JournalBacked
      <3>2. CASE c \notin dir.journal[t]
        BY <1>1, <1>5, <1>6, <2>1, <3>2 DEF TransferInv, BitmapWritten, Backed
      <3>3. QED
        BY <3>1, <3>2
    <2>2. QED
      BY <1>3, <1>5, <1>6, <1>7, <2>1 DEF TransferInv, JournalBacked, Backed
  <1>11. CheckpointInv(t)'
    BY <1>1, <1>2, <1>3, <1>5, <1>6 DEF TransferInv, CheckpointInv
  <1>12. QED
    BY <1>4, <1>8, <1>9, <1>10, <1>11, OneTransfer DEF TransferInv

\* The sync of the directory, for a transfer whose operation stays where it is.
LEMMA Durable ==
    ASSUME TypeOK, NEW t \in Transfers, TransferInv(t), DirDurable,
           handle'[t] = handle[t], op'[t] = op[t],
           UNCHANGED <<data, synced, dir, unread>>, promised'[t] = promised[t]
    PROVE  TransferInv(t)'
  <1>1. /\ safe' = dir
        /\ t \in taken' => t \in taken
        /\ t \in taken /\ t \notin taken' => dir.journal[t] = {}
    BY DEF DirDurable
  <1>2. PromiseInv(t)' /\ BitmapWritten(t)'
    BY <1>1 DEF TransferInv, PromiseInv, BitmapWritten
  <1>3. JournalBacked(t)'
    BY <1>1 DEF TransferInv, JournalBacked, Backed
  <1>4. CheckpointInv(t)'
    <2>1. op[t] # NoOp /\ handle[t].open => dir.part[t]
      BY DEF TypeOK, TransferInv, BitmapWritten
    <2>2. QED
      BY <1>1, <2>1 DEF TransferInv, CheckpointInv
  <1>5. QED
    BY <1>2, <1>3, <1>4 DEF TransferInv

LEMMA StoreSyncDir ==
    ASSUME TypeOK, StoreInv, NEW t \in Transfers, SyncDir(t)
    PROVE  StoreInv'
  <1> USE DEF diskVars, faultVars, ghostVars
  <1>1. /\ op[t] # NoOp /\ op[t] \in Op /\ op[t].at = "syncDir" /\ handle[t] # NoHandle
        /\ handle[t] \in Handle
    BY HandleType DEF SyncDir, At, TypeOK
  <1>2. /\ handle'[t].bitmap = handle[t].bitmap /\ handle'[t].open = handle[t].open
        /\ handle'[t] # NoHandle
        /\ \A u \in Transfers \ {t} : handle'[u] = handle[u]
    <2>1. handle'[t] = [handle[t] EXCEPT !.durable = handle[t].bitmap, !.dirty = FALSE]
      BY DEF SyncDir, TypeOK
    <2>2. handle'[t] \in Handle
      BY <1>1, <2>1 DEF Handle
    <2>3. QED
      BY <1>1, <2>1, <2>2, NullsAssumption DEF SyncDir, TypeOK, Handle
  <1>3. /\ \A u \in Transfers \ {t} : op'[u] = op[u]
        /\ op'[t] # NoOp => op'[t].at = "hash" /\ op'[t].kind = op[t].kind
                            /\ op'[t].chunk = op[t].chunk
    BY <1>1, GoToOp DEF SyncDir, Answer, TypeOK
  <1>4. /\ DirDurable /\ UNCHANGED <<data, synced, dir, unread>>
        /\ promised'[t] = promised[t] \cup Told(t)
        /\ \A u \in Transfers \ {t} : promised'[u] = promised[u]
    BY DEF SyncDir, TypeOK
  <1>5. \A u \in Transfers \ {t} : TransferInv(u)'
    BY <1>2, <1>3, <1>4, Durable DEF StoreInv
  <1>6. TransferInv(t)
    BY DEF StoreInv
  <1>7. handle[t].open /\ dir.journal[t] = handle[t].bitmap /\ dir.part[t]
    BY <1>1, <1>6 DEF TransferInv, CheckpointInv, BitmapWritten
  <1>8. Told(t) \subseteq handle[t].bitmap
    <2>1. op[t].kind = "write" => op[t].chunk \in handle[t].bitmap
      BY <1>1, <1>6 DEF TransferInv, CheckpointInv
    <2>2. Through(handle[t].bitmap) \subseteq handle[t].bitmap
      BY ChunksAssumption DEF Through, Chunks
    <2>3. QED
      BY <2>1, <2>2 DEF Told
  <1>9. safe' = dir /\ (t \in taken /\ t \notin taken' => dir.journal[t] = {})
    BY <1>4 DEF DirDurable
  <1>10. PromiseInv(t)'
    BY <1>4, <1>6, <1>7, <1>8, <1>9 DEF TransferInv, PromiseInv
  <1>11. JournalBacked(t)'
    BY <1>4, <1>6, <1>9 DEF TransferInv, JournalBacked, Backed
  <1>12. BitmapWritten(t)'
    BY <1>2, <1>4, <1>7 DEF BitmapWritten
  <1>13. CheckpointInv(t)'
    BY <1>1, <1>2, <1>3, <1>6, <1>7 DEF TransferInv, CheckpointInv
  <1>14. QED
    BY <1>5, <1>10, <1>11, <1>12, <1>13 DEF StoreInv, TransferInv

\* Closing the file, at the end of a hash or at the start of an abort.
LEMMA StoreClose ==
    ASSUME TypeOK, StoreInv, NEW t \in Transfers, Hash(t) \/ Abort(t)
    PROVE  StoreInv'
  <1> USE DEF diskVars, faultVars, ghostVars
  <1>1. handle[t] # NoHandle /\ handle[t] \in Handle
    BY HandleType DEF Hash, Abort, At, Open, Free
  <1>2. UNCHANGED <<data, synced, dir, safe, promised, unread, taken>>
    BY DEF Hash, Abort
  <1>3. \/ handle' = handle /\ Answer(t)
        \/ /\ handle' = [handle EXCEPT ![t].open = FALSE]
           /\ \/ op[t] # NoOp /\ GoTo(t, "stat") /\ op[t].at = "hash"
              \/ Begin(t, "abort", "removePart", 0)
    BY Zenon DEF Hash, Abort, At
  <1>4. \A u \in Transfers \ {t} : handle'[u] = handle[u] /\ op'[u] = op[u]
    BY <1>3 DEF Answer, GoTo, Begin, TypeOK
  <1>5. \A u \in Transfers \ {t} : Same(u)
    BY <1>2, <1>4 DEF Same
  <1>6. TransferInv(t)
    BY DEF StoreInv
  <1>7. PromiseInv(t)' /\ JournalBacked(t)'
    BY <1>2, <1>6 DEF TransferInv, PromiseInv, JournalBacked, Backed
  <1>8. CASE handle' = handle /\ Answer(t)
    <2>1. op'[t] = NoOp /\ handle' = handle
      BY <1>8 DEF Answer, TypeOK
    <2>2. BitmapWritten(t)' /\ CheckpointInv(t)'
      BY <1>2, <1>6, <2>1 DEF TransferInv, BitmapWritten, CheckpointInv
    <2>3. QED
      BY <1>5, <1>7, <2>2, OneTransfer DEF TransferInv
  <1>9. CASE handle' = [handle EXCEPT ![t].open = FALSE]
    <2>1. handle'[t].open = FALSE /\ handle'[t].bitmap = handle[t].bitmap
      BY <1>1, <1>9 DEF TypeOK, Handle
    <2>2. BitmapWritten(t)'
      BY <2>1 DEF BitmapWritten
    <2>3. CASE op[t] # NoOp /\ GoTo(t, "stat") /\ op[t].at = "hash"
      <3>1. op'[t].at = "stat" /\ op'[t].kind = op[t].kind /\ op'[t].chunk = op[t].chunk
        BY <2>3, GoToOp
      <3>2. QED
        BY <1>5, <1>6, <1>7, <2>1, <2>2, <2>3, <3>1, OneTransfer DEF TransferInv, CheckpointInv
    <2>4. CASE Begin(t, "abort", "removePart", 0)
      <3>1. op'[t] = [kind |-> "abort", at |-> "removePart", chunk |-> 0]
        BY <2>4 DEF Begin, TypeOK
      <3>2. QED
        BY <1>5, <1>7, <2>1, <2>2, <3>1, OneTransfer DEF TransferInv, CheckpointInv
    <2>5. CASE Answer(t)
      <3>1. op'[t] = NoOp
        BY <2>5 DEF Answer, TypeOK
      <3>2. QED
        BY <1>5, <1>7, <2>2, <3>1, OneTransfer DEF TransferInv, CheckpointInv
    <2>6. QED
      BY <1>3, <2>3, <2>4, <2>5
  <1>10. QED
    BY <1>3, <1>8, <1>9

\* The part file goes: the file is closed, and the transfer is excepted from now on.
LEMMA StoreTake ==
    ASSUME TypeOK, StoreInv, NEW t \in Transfers, Rename(t) \/ RemovePart(t)
    PROVE  StoreInv'
  <1> USE DEF diskVars, faultVars, ghostVars
  <1>1. /\ op[t] # NoOp /\ handle[t] # NoHandle /\ op[t].at \in {"rename", "removePart"}
        /\ GoTo(t, "syncFinal") \/ GoTo(t, "removeJournal")
    BY DEF Rename, RemovePart, At
  <1>2. /\ op'[t].at \in {"syncFinal", "removeJournal"}
        /\ op'[t].kind = op[t].kind /\ op'[t].chunk = op[t].chunk
        /\ \A u \in Transfers \ {t} : op'[u] = op[u]
    BY <1>1, GoToOp
  <1>3. /\ dir'.journal = dir.journal
        /\ \A u \in Transfers \ {t} : dir'.part[u] = dir.part[u]
        /\ taken' = taken \cup {t}
        /\ UNCHANGED <<handle, data, synced, safe, promised, unread>>
    <2>1. CASE Rename(t)
      <3> DEFINE file == [of |-> t, whole |-> \A c \in Chunks : synced[t][c] = "good"]
      <3>1. dir' = [dir EXCEPT !.part[t] = FALSE, !.final[NameOf[t]] = file]
        BY <2>1 DEF Rename
      <3> HIDE DEF file
      <3>2. QED
        BY <2>1, <3>1 DEF Rename, TypeOK, Dir
    <2>2. CASE RemovePart(t)
      BY <2>2 DEF RemovePart, TypeOK, Dir
    <2>3. QED
      BY <2>1, <2>2
  <1>4. \A u \in Transfers \ {t} : Same(u)
    BY <1>2, <1>3 DEF Same
  <1>5. TransferInv(t)
    BY DEF StoreInv
  <1>6. ~handle[t].open
    BY <1>1, <1>5 DEF TransferInv, CheckpointInv
  <1>7. PromiseInv(t)' /\ JournalBacked(t)' /\ BitmapWritten(t)'
    BY <1>3, <1>5, <1>6 DEF TransferInv, PromiseInv, JournalBacked, BitmapWritten
  <1>8. CheckpointInv(t)'
    BY <1>1, <1>2, <1>3, <1>5, <1>6 DEF TransferInv, CheckpointInv
  <1>9. QED
    BY <1>4, <1>7, <1>8, OneTransfer DEF TransferInv

LEMMA StoreSyncFinal ==
    ASSUME TypeOK, StoreInv, NEW t \in Transfers, SyncFinal(t)
    PROVE  StoreInv'
  <1> USE DEF diskVars, faultVars, ghostVars
  <1>1. op[t] # NoOp /\ handle[t] # NoHandle /\ op[t].at = "syncFinal" /\ GoTo(t, "removeJournal")
    BY DEF SyncFinal, At
  <1>2. /\ op'[t].at = "removeJournal" /\ op'[t].kind = op[t].kind /\ op'[t].chunk = op[t].chunk
        /\ \A u \in Transfers \ {t} : op'[u] = op[u]
    BY <1>1, GoToOp
  <1>3. DirDurable /\ UNCHANGED <<handle, data, synced, dir, promised, unread>>
    BY DEF SyncFinal
  <1>4. \A u \in Transfers \ {t} : TransferInv(u)'
    BY <1>2, <1>3, Durable DEF StoreInv
  <1>5. TransferInv(t)
    BY DEF StoreInv
  <1>6. safe' = dir /\ (t \in taken /\ t \notin taken' => dir.journal[t] = {})
    BY <1>3 DEF DirDurable
  <1>7. PromiseInv(t)' /\ BitmapWritten(t)' /\ JournalBacked(t)'
    BY <1>3, <1>5, <1>6 DEF TransferInv, PromiseInv, BitmapWritten, JournalBacked, Backed
  <1>8. CheckpointInv(t)'
    BY <1>1, <1>2, <1>3, <1>5, <1>6 DEF TransferInv, CheckpointInv
  <1>9. QED
    BY <1>4, <1>7, <1>8 DEF StoreInv, TransferInv

LEMMA StoreUnlink ==
    ASSUME TypeOK, StoreInv, NEW t \in Transfers, RemoveJournal(t) \/ TempStays(t)
    PROVE  StoreInv'
  <1> USE DEF diskVars, faultVars, ghostVars
  <1>1. UnlinkJournal(t)
    BY DEF RemoveJournal, TempStays
  <1>2. op[t] # NoOp /\ op[t].at = "removeJournal" /\ op'[t] = NoOp
    BY <1>1 DEF UnlinkJournal, At, Answer, TypeOK
  <1>3. /\ dir'.journal[t] = {} /\ dir'.part = dir.part
        /\ \A u \in Transfers \ {t} : dir'.journal[u] = dir.journal[u] /\ op'[u] = op[u]
                                      /\ promised'[u] = promised[u]
        /\ promised'[t] = {}
        /\ UNCHANGED <<data, synced, safe, unread, taken>>
    BY <1>1 DEF UnlinkJournal, Answer, TypeOK, Dir
  <1>4. /\ handle'[t] = NoHandle \/ handle'[t] = handle[t]
        /\ \A u \in Transfers \ {t} : handle'[u] = handle[u]
    BY DEF RemoveJournal, TempStays, TypeOK
  <1>5. \A u \in Transfers \ {t} : Same(u)
    BY <1>3, <1>4 DEF Same
  <1>6. TransferInv(t)
    BY DEF StoreInv
  <1>7. ~handle[t].open /\ (t \in taken \/ dir.journal[t] = {})
    BY <1>2, <1>6 DEF TransferInv, CheckpointInv
  <1>8. PromiseInv(t)' /\ BitmapWritten(t)' /\ CheckpointInv(t)'
    BY <1>2, <1>3, <1>4, <1>7 DEF PromiseInv, BitmapWritten, CheckpointInv
  <1>9. JournalBacked(t)'
    BY <1>3, <1>6, <1>7 DEF TransferInv, JournalBacked
  <1>10. QED
    BY <1>5, <1>8, <1>9, OneTransfer DEF TransferInv

LEMMA StoreGone ==
    ASSUME TypeOK, StoreInv, Gone,
           \/ UNCHANGED diskVars
           \/ \E names \in {dir, safe}, kept \in SUBSET Transfers, lost \in SUBSET Chunks :
                  PowerLoss(names, kept, lost)
    PROVE  StoreInv'
  <1> USE DEF diskVars, ghostVars
  <1> SUFFICES ASSUME NEW t \in Transfers
               PROVE  TransferInv(t)'
    BY DEF StoreInv
  <1>1. handle'[t] = NoHandle /\ op'[t] = NoOp /\ UNCHANGED <<promised, unread, taken>>
    BY DEF Gone
  <1>2. BitmapWritten(t)' /\ CheckpointInv(t)'
    BY <1>1 DEF BitmapWritten, CheckpointInv
  <1>3. TransferInv(t)
    BY DEF StoreInv
  <1>4. CASE UNCHANGED diskVars
    BY <1>1, <1>2, <1>3, <1>4 DEF TransferInv, PromiseInv, JournalBacked, Backed
  <1>5. ASSUME NEW names \in {dir, safe}, NEW kept \in SUBSET Transfers,
               NEW lost \in SUBSET Chunks, PowerLoss(names, kept, lost)
        PROVE  TransferInv(t)'
    <2>1. /\ dir'.part[t] = names.part[t] /\ safe' = dir'
          /\ dir'.journal[t] = dir.journal[t] \/ dir'.journal[t] = safe.journal[t]
      BY <1>5 DEF PowerLoss
    <2>2. /\ synced'[t] = data'[t]
          /\ \A c \in Chunks : Backed(t, c) => data'[t][c] = data[t][c]
      BY <1>5 DEF PowerLoss, Backed
    <2>3. PromiseInv(t)'
      BY <1>1, <1>3, <2>1 DEF TransferInv, PromiseInv
    <2>4. JournalBacked(t)'
      <3>1. dir.journal[t] \subseteq Chunks /\ dir'.journal[t] \subseteq Chunks
        BY <2>1 DEF TypeOK, Dir
      <3>2. QED
        BY <1>1, <1>3, <2>1, <2>2, <3>1 DEF TransferInv, JournalBacked, Backed
    <2>5. QED
      BY <1>2, <2>3, <2>4 DEF TransferInv
  <1>6. QED
    BY <1>4, <1>5

LEMMA StoreStep ==
    ASSUME TypeOK, StoreInv, [Next]_vars
    PROVE  StoreInv'
  <1>1. CASE \E t \in Transfers : Request(t)
    <2>1. PICK t \in Transfers : Request(t)
      BY <1>1
    <2>2. ASSUME NEW c \in Chunks, WriteDuplicate(t, c) PROVE StoreInv'
      <3>1. \A u \in Transfers : Same(u)
        BY <2>2 DEF WriteDuplicate, Same, diskVars
      <3>2. QED
        BY <3>1, Frame DEF StoreInv
    <2>3. QED
      BY <2>1, <2>2, StoreRecover, StoreWrite, StoreWriteFails, StoreLock, StoreClose DEF Request
  <1>2. CASE \E t \in Transfers : Running(t) \/ CallFails(t)
    BY <1>2, StoreSyncFile, StoreWriteJournal, StoreSyncDir, StoreClose, StoreLock, StoreTake,
       StoreSyncFinal, StoreUnlink DEF Running
  <1>3. CASE WorkerDies \/ \E names \in {dir, safe}, kept \in SUBSET Transfers,
                              lost \in SUBSET Chunks : PowerLoss(names, kept, lost)
    BY <1>3, StoreGone DEF WorkerDies, PowerLoss
  <1>4. CASE UNCHANGED vars
    <2>1. \A u \in Transfers : Same(u)
      BY <1>4 DEF vars, diskVars, ghostVars, Same
    <2>2. QED
      BY <2>1, Frame DEF StoreInv
  <1>5. QED
    BY <1>1, <1>2, <1>3, <1>4 DEF Next

\* A chunk answered as checkpointed stays durable, in content and in journal, for any
\* number of transfers and chunks and whatever calls fail, workers die and power is
\* lost, until its part file is renamed or removed or its journal cannot be read.
THEOREM Durability == Spec => []PromiseKept
  <1>1. Init => TypeOK /\ StoreInv
    BY TypeInit, StoreInit
  <1>2. TypeOK /\ StoreInv /\ [Next]_vars => (TypeOK /\ StoreInv)'
    BY TypeStep, StoreStep
  <1>3. StoreInv => PromiseKept
    BY DEF StoreInv, TransferInv, PromiseInv, JournalBacked, Backed, PromiseKept
  <1>4. QED
    BY <1>1, <1>2, <1>3, PTL DEF Spec
-----------------------------------------------------------------------------
(***************************************************************************)
(* Final names.                                                            *)
(*                                                                         *)
(* That a final file is whole follows from what finalize has synced, or    *)
(* from the journal if it skips the sync: a clean handle has no chunk that *)
(* is not in the journal, and a chunk of the journal is durable.  (Other   *)
(* than JournalBacked this holds in `taken` too.)                          *)
(***************************************************************************)
JournalDurable(t) ==
    t \notin unread => \A c \in dir.journal[t] : synced[t][c] = data[t][c]

CleanInJournal(t) ==
    handle[t] # NoHandle /\ handle[t].open /\ ~handle[t].dirty /\ t \notin unread =>
        handle[t].bitmap \subseteq dir.journal[t]

Whole(t) == \A c \in Chunks : synced[t][c] = "good"

FinalizeInv(t) ==
    op[t] # NoOp =>
        /\ op[t].at \in {"hash", "stat", "rename", "syncFinal"} => op[t].kind = "finalize"
        /\ op[t].at = "removePart" => op[t].kind = "abort"
        /\ op[t].kind = "finalize" /\ op[t].at \in {"sync", "journal", "syncDir", "hash"} =>
               handle[t].bitmap = Chunks
        /\ op[t].at = "hash" => ~handle[t].dirty
        /\ op[t].at \in {"stat", "rename"} => t \in unread \/ Whole(t)

NamedInv(t) ==
    /\ t \in delivered => Named(t, dir) /\ Named(t, safe)
    /\ op[t] # NoOp =>
           /\ op[t].at = "syncFinal" => Named(t, dir)
           /\ op[t].at = "removeJournal" /\ op[t].kind = "finalize" =>
                  Named(t, dir) /\ Named(t, safe)

ContentInv == \A t \in Transfers : JournalDurable(t) /\ CleanInJournal(t) /\ FinalizeInv(t)
NameInv    == OwnNames => \A t \in Transfers : NamedInv(t)

\* What a part file's removal leaves of the directory.
LEMMA TakeKeeps ==
    ASSUME TypeOK, NEW t \in Transfers, Rename(t) \/ RemovePart(t)
    PROVE  /\ dir'.journal = dir.journal
           /\ Rename(t) => dir'.final = [dir.final EXCEPT
                  ![NameOf[t]] = [of |-> t, whole |-> Whole(t)]]
           /\ RemovePart(t) => dir'.final = dir.final
  <1>1. CASE Rename(t)
    <2> DEFINE file == [of |-> t, whole |-> Whole(t)]
    <2>1. dir' = [dir EXCEPT !.part[t] = FALSE, !.final[NameOf[t]] = file]
      BY <1>1 DEF Rename, Whole
    <2>2. op'[t].at = "syncFinal" /\ ~RemovePart(t)
      BY <1>1 DEF Rename, RemovePart, At, GoTo, TypeOK, Op
    <2> HIDE DEF file
    <2>3. dir'.journal = dir.journal /\ dir'.final = [dir.final EXCEPT ![NameOf[t]] = file]
      BY <2>1 DEF TypeOK, Dir
    <2>4. QED
      BY <2>2, <2>3 DEF file
  <1>2. CASE RemovePart(t)
    <2>1. ~Rename(t)
      BY <1>2 DEF Rename, RemovePart, At
    <2>2. QED
      BY <1>2, <2>1 DEF RemovePart, TypeOK, Dir
  <1>3. QED
    BY <1>1, <1>2

\* A step on one transfer leaves of the others what these invariants are about.
Rest(t) ==
    /\ handle'[t] = handle[t] /\ op'[t] = op[t]
    /\ data'[t] = data[t] /\ synced'[t] = synced[t]
    /\ dir'.journal[t] = dir.journal[t]
    /\ t \in unread' <=> t \in unread

LEMMA RestKeeps ==
    ASSUME NEW t \in Transfers, Rest(t),
           JournalDurable(t), CleanInJournal(t), FinalizeInv(t)
    PROVE  JournalDurable(t)' /\ CleanInJournal(t)' /\ FinalizeInv(t)'
  <1>1. JournalDurable(t)'
    BY DEF Rest, JournalDurable
  <1>2. CleanInJournal(t)'
    BY DEF Rest, CleanInJournal
  <1>3. FinalizeInv(t)'
    BY DEF Rest, FinalizeInv, Whole
  <1>4. QED
    BY <1>1, <1>2, <1>3

LEMMA OthersRest ==
    ASSUME TypeOK, NEW t \in Transfers, Request(t) \/ Running(t) \/ CallFails(t),
           NEW u \in Transfers \ {t}
    PROVE  Rest(u)
  <1> USE DEF diskVars, faultVars, ghostVars
  <1>1. ASSUME InitTransfer(t) PROVE Rest(u)
    <2>1. CASE UNCHANGED vars
      BY <2>1 DEF vars, Rest
    <2>2. ASSUME NEW b, Recover(t, b), u \in unread' <=> u \in unread PROVE Rest(u)
      BY <2>2 DEF Recover, Rest, TypeOK, Dir
    <2>3. QED
      BY <1>1, <2>1, <2>2 DEF InitTransfer
  <1>2. ASSUME NEW c \in Chunks,
               \/ WriteDuplicate(t, c) \/ WriteFails(t, c)
               \/ \E content \in {"good", "bad"}, due \in BOOLEAN : Write(t, c, content, due)
        PROVE  Rest(u)
    BY <1>2 DEF WriteDuplicate, WriteFails, Write, Begin, Rest, TypeOK
  <1>3. ASSUME Checkpoint(t) \/ Finalize(t) \/ Abort(t) \/ Hash(t) \/ Stat(t) \/ CallFails(t)
        PROVE  Rest(u)
    <2>1. UNCHANGED <<data, synced, dir, unread>>
      BY <1>3 DEF Checkpoint, Finalize, Abort, Hash, Stat, CallFails
    <2>2. op'[u] = op[u] /\ handle'[u] = handle[u]
      BY <1>3 DEF Checkpoint, Finalize, Abort, Hash, Stat, CallFails,
                  Begin, GoTo, Answer, TypeOK
    <2>3. QED
      BY <2>1, <2>2 DEF Rest
  <1>4. ASSUME SyncFile(t) \/ SyncDir(t) \/ SyncFinal(t) PROVE Rest(u)
    <2>1. UNCHANGED <<data, dir, unread>> /\ synced'[u] = synced[u]
      BY <1>4 DEF SyncFile, SyncDir, SyncFinal, TypeOK
    <2>2. op'[u] = op[u] /\ handle'[u] = handle[u]
      BY <1>4 DEF SyncFile, SyncDir, SyncFinal, GoTo, Answer, TypeOK
    <2>3. QED
      BY <2>1, <2>2 DEF Rest
  <1>5. ASSUME WriteJournal(t) PROVE Rest(u)
    BY <1>5 DEF WriteJournal, GoTo, Rest, TypeOK, Dir
  <1>6. ASSUME Rename(t) \/ RemovePart(t) PROVE Rest(u)
    <2>1. dir'.journal = dir.journal
      BY <1>6, TakeKeeps
    <2>2. UNCHANGED <<handle, data, synced, unread>> /\ op'[u] = op[u]
      BY <1>6 DEF Rename, RemovePart, GoTo, TypeOK
    <2>3. QED
      BY <2>1, <2>2 DEF Rest
  <1>7. ASSUME RemoveJournal(t) \/ TempStays(t) PROVE Rest(u)
    <2>1. UnlinkJournal(t) /\ handle'[u] = handle[u]
      BY <1>7 DEF RemoveJournal, TempStays, TypeOK
    <2>2. QED
      BY <2>1 DEF UnlinkJournal, Answer, Rest, TypeOK, Dir
  <1>8. QED
    BY <1>1, <1>2, <1>3, <1>4, <1>5, <1>6, <1>7 DEF Request, Running

\* The operation goes on, answers or starts; nothing else that the invariants read moves.
LEMMA ContentLock ==
    ASSUME TypeOK, StoreInv, ContentInv, NEW t \in Transfers,
           Checkpoint(t) \/ Finalize(t) \/ CallFails(t) \/ Stat(t) \/ Hash(t) \/ Abort(t)
    PROVE  JournalDurable(t)' /\ CleanInJournal(t)' /\ FinalizeInv(t)'
  <1> USE DEF diskVars, faultVars, ghostVars
  <1>1. UNCHANGED <<data, synced, dir, unread>>
    BY DEF Checkpoint, Finalize, CallFails, Stat, Hash, Abort
  <1>2. JournalDurable(t) /\ CleanInJournal(t) /\ FinalizeInv(t) /\ CheckpointInv(t)
    BY DEF ContentInv, StoreInv, TransferInv
  <1>3. JournalDurable(t)'
    BY <1>1, <1>2 DEF JournalDurable
  <1>4. \/ UNCHANGED handle
        \/ handle' = [handle EXCEPT ![t].open = FALSE] /\ handle[t] # NoHandle
    BY Zenon DEF Checkpoint, Finalize, CallFails, Stat, Hash, Abort, At, Open, Free
  <1>5. /\ handle[t] # NoHandle => handle'[t].bitmap = handle[t].bitmap
        /\ handle[t] # NoHandle => handle'[t].dirty = handle[t].dirty
        /\ handle'[t] = handle[t] \/ ~handle'[t].open
    BY <1>4, HandleType DEF TypeOK, Handle
  <1>6. CleanInJournal(t)'
    BY <1>1, <1>2, <1>5 DEF CleanInJournal
  <1>7. CASE Checkpoint(t) \/ Finalize(t)
    <2>1. /\ handle[t] # NoHandle
          /\ handle[t].bitmap = Chunks \/ op'[t].kind = "checkpoint"
          /\ \/ op'[t] = [kind |-> "checkpoint", at |-> "sync", chunk |-> 0]
             \/ op'[t] = [kind |-> "finalize", at |-> "sync", chunk |-> 0]
             \/ op'[t] = [kind |-> "finalize", at |-> "hash", chunk |-> 0] /\ ~handle[t].dirty
          /\ UNCHANGED handle
      BY <1>7 DEF Checkpoint, Finalize, Open, Free, Begin, TypeOK
    <2>2. QED
      BY <1>3, <1>6, <2>1 DEF FinalizeInv
  <1>8. CASE CallFails(t)
    <2>1. op'[t] = NoOp
      BY <1>8 DEF CallFails, Answer, TypeOK
    <2>2. QED
      BY <1>3, <1>6, <2>1 DEF FinalizeInv
  <1>9. CASE Abort(t)
    <2>1. op'[t] = [kind |-> "abort", at |-> "removePart", chunk |-> 0]
      BY <1>9 DEF Abort, Begin, TypeOK
    <2>2. QED
      BY <1>3, <1>6, <2>1 DEF FinalizeInv
  <1>10. CASE Stat(t)
    <2>1. /\ op[t] # NoOp /\ op[t].at = "stat"
          /\ op'[t] = NoOp \/ GoTo(t, "rename")
      BY <1>10 DEF Stat, At, Answer, TypeOK
    <2>2. CASE GoTo(t, "rename")
      BY <1>1, <1>2, <1>3, <1>6, <2>1, <2>2, GoToOp DEF FinalizeInv, Whole
    <2>3. QED
      BY <1>3, <1>6, <2>1, <2>2 DEF FinalizeInv
  <1>11. CASE Hash(t)
    <2>1. op[t] # NoOp /\ op[t].at = "hash" /\ handle[t] # NoHandle
      BY <1>11 DEF Hash, At
    <2>2. CASE op'[t] = NoOp
      BY <1>3, <1>6, <2>2 DEF FinalizeInv
    <2>3. CASE GoTo(t, "stat") /\ \A c \in Chunks : data[t][c] = "good"
      <3>1. handle[t].bitmap = Chunks /\ ~handle[t].dirty /\ handle[t].open
        BY <1>2, <2>1 DEF FinalizeInv, CheckpointInv
      <3>2. t \notin unread => Whole(t)
        BY <1>2, <2>1, <2>3, <3>1 DEF CleanInJournal, JournalDurable, Whole
      <3>3. op'[t].at = "stat" /\ op'[t].kind = "finalize"
        BY <1>2, <2>1, <2>3, GoToOp DEF FinalizeInv
      <3>4. FinalizeInv(t)'
        BY <1>1, <3>2, <3>3 DEF FinalizeInv, Whole
      <3>5. QED
        BY <1>3, <1>6, <3>4
    <2>4. QED
      BY <1>11, <2>2, <2>3 DEF Hash, Answer, TypeOK
  <1>12. QED
    BY <1>7, <1>8, <1>9, <1>10, <1>11

LEMMA ContentCheckpoint ==
    ASSUME TypeOK, StoreInv, ContentInv, NEW t \in Transfers,
           SyncFile(t) \/ WriteJournal(t) \/ SyncDir(t)
    PROVE  JournalDurable(t)' /\ CleanInJournal(t)' /\ FinalizeInv(t)'
  <1> USE DEF diskVars, faultVars, ghostVars
  <1>1. /\ op[t] # NoOp /\ handle[t] # NoHandle /\ handle[t] \in Handle
        /\ op[t].at \in {"sync", "journal", "syncDir"}
    BY HandleType DEF SyncFile, WriteJournal, SyncDir, At
  <1>2. JournalDurable(t) /\ CleanInJournal(t) /\ FinalizeInv(t) /\ CheckpointInv(t)
    BY DEF ContentInv, StoreInv, TransferInv
  <1>3. handle[t].open /\ (op[t].kind = "finalize" => handle[t].bitmap = Chunks)
    BY <1>1, <1>2 DEF CheckpointInv, FinalizeInv
  <1>4. CASE SyncFile(t)
    <2>1. synced'[t] = data[t] /\ UNCHANGED <<handle, data, dir, unread>>
      BY <1>4 DEF SyncFile, TypeOK
    <2>2. op'[t].at = "journal" /\ op'[t].kind = op[t].kind
      BY <1>1, <1>4, GoToOp DEF SyncFile
    <2>3. JournalDurable(t)' /\ CleanInJournal(t)'
      BY <1>2, <2>1 DEF JournalDurable, CleanInJournal
    <2>4. FinalizeInv(t)'
      BY <1>3, <2>1, <2>2 DEF FinalizeInv
    <2>5. QED
      BY <2>3, <2>4
  <1>5. CASE WriteJournal(t)
    <2>1. dir'.journal[t] = handle[t].bitmap /\ UNCHANGED <<handle, data, synced, unread>>
      BY <1>5 DEF WriteJournal, TypeOK, Dir
    <2>2. op'[t].at = "syncDir" /\ op'[t].kind = op[t].kind /\ op[t].at = "journal"
      BY <1>1, <1>5, GoToOp DEF WriteJournal, At
    <2>3. synced[t] = data[t]
      BY <1>1, <1>2, <2>2 DEF CheckpointInv
    <2>4. JournalDurable(t)' /\ CleanInJournal(t)'
      BY <2>1, <2>3 DEF JournalDurable, CleanInJournal
    <2>5. FinalizeInv(t)'
      BY <1>3, <2>1, <2>2 DEF FinalizeInv
    <2>6. QED
      BY <2>4, <2>5
  <1>6. CASE SyncDir(t)
    <2>1. /\ UNCHANGED <<data, synced, dir, unread>>
          /\ handle'[t] = [handle[t] EXCEPT !.durable = handle[t].bitmap, !.dirty = FALSE]
      BY <1>6 DEF SyncDir, TypeOK
    <2>2. handle'[t].bitmap = handle[t].bitmap /\ ~handle'[t].dirty
      BY <1>1, <2>1 DEF Handle
    <2>3. dir.journal[t] = handle[t].bitmap
      BY <1>1, <1>2, <1>6 DEF SyncDir, At, CheckpointInv
    <2>4. \/ op'[t] = NoOp
          \/ op[t].kind = "finalize" /\ op'[t].at = "hash" /\ op'[t].kind = "finalize"
      BY <1>1, <1>6, GoToOp DEF SyncDir, Answer, TypeOK
    <2>5. JournalDurable(t)' /\ CleanInJournal(t)'
      BY <1>2, <2>1, <2>2, <2>3 DEF JournalDurable, CleanInJournal
    <2>6. FinalizeInv(t)'
      BY <1>3, <2>2, <2>4 DEF FinalizeInv
    <2>7. QED
      BY <2>5, <2>6
  <1>7. QED
    BY <1>4, <1>5, <1>6

LEMMA ContentEnd ==
    ASSUME TypeOK, StoreInv, ContentInv, NEW t \in Transfers,
           \/ Rename(t) \/ SyncFinal(t) \/ RemovePart(t)
           \/ RemoveJournal(t) \/ TempStays(t)
    PROVE  JournalDurable(t)' /\ CleanInJournal(t)' /\ FinalizeInv(t)'
  <1> USE DEF diskVars, faultVars, ghostVars
  <1>1. JournalDurable(t) /\ CleanInJournal(t) /\ FinalizeInv(t) /\ CheckpointInv(t)
    BY DEF ContentInv, StoreInv, TransferInv
  <1>2. CASE Rename(t) \/ SyncFinal(t) \/ RemovePart(t)
    <2>1. /\ op[t] # NoOp /\ op[t].at \in {"rename", "syncFinal", "removePart"}
          /\ \/ op[t].at = "rename" /\ GoTo(t, "syncFinal")
             \/ GoTo(t, "removeJournal")
      BY <1>2 DEF Rename, SyncFinal, RemovePart, At
    <2>2. dir'.journal = dir.journal
      BY <1>2, TakeKeeps DEF SyncFinal
    <2>3. UNCHANGED <<handle, data, synced, unread>>
      BY <1>2 DEF Rename, SyncFinal, RemovePart
    <2>4. JournalDurable(t)' /\ CleanInJournal(t)'
      BY <1>1, <2>2, <2>3 DEF JournalDurable, CleanInJournal
    <2>5. FinalizeInv(t)'
      BY <1>1, <2>1, GoToOp DEF FinalizeInv
    <2>6. QED
      BY <2>4, <2>5
  <1>3. CASE RemoveJournal(t) \/ TempStays(t)
    <2>1. UnlinkJournal(t)
      BY <1>3 DEF RemoveJournal, TempStays
    <2>2. /\ dir'.journal[t] = {} /\ op'[t] = NoOp
          /\ op[t] # NoOp /\ op[t].at = "removeJournal"
          /\ UNCHANGED <<data, synced, unread>>
      BY <2>1 DEF UnlinkJournal, At, Answer, TypeOK, Dir
    <2>3. ~handle[t].open /\ (handle'[t] = NoHandle \/ handle'[t] = handle[t])
      BY <1>1, <1>3, <2>2 DEF CheckpointInv, RemoveJournal, TempStays, TypeOK
    <2>4. QED
      BY <2>2, <2>3 DEF JournalDurable, CleanInJournal, FinalizeInv
  <1>4. QED
    BY <1>2, <1>3

LEMMA ContentWrite ==
    ASSUME TypeOK, StoreInv, ContentInv, NEW t \in Transfers, NEW c \in Chunks,
           \/ WriteDuplicate(t, c) \/ WriteFails(t, c)
           \/ \E content \in {"good", "bad"}, due \in BOOLEAN : Write(t, c, content, due)
    PROVE  JournalDurable(t)' /\ CleanInJournal(t)' /\ FinalizeInv(t)'
  <1> USE DEF diskVars, faultVars, ghostVars
  <1>1. JournalDurable(t) /\ CleanInJournal(t) /\ FinalizeInv(t) /\ BitmapWritten(t)
    BY DEF ContentInv, StoreInv, TransferInv
  <1>2. CASE WriteDuplicate(t, c)
    BY <1>1, <1>2, RestKeeps DEF WriteDuplicate, Rest
  <1>3. handle[t] # NoHandle /\ handle[t] \in Handle /\ op[t] = NoOp
    BY HandleType DEF WriteDuplicate, WriteFails, Write, Open, Free
  <1>4. ASSUME NEW content \in Content, data' = [data EXCEPT ![t][c] = content],
               c \notin handle[t].bitmap, handle[t].open, UNCHANGED <<synced, dir, unread>>
        PROVE  JournalDurable(t)'
    <2>1. dir.journal[t] \subseteq Chunks
      BY DEF TypeOK, Dir
    <2>2. \A b \in Chunks \ {c} : data'[t][b] = data[t][b]
      BY <1>4 DEF TypeOK
    <2>3. t \notin unread => c \notin dir.journal[t]
      BY <1>1, <1>3, <1>4 DEF BitmapWritten
    <2>4. QED
      BY <1>1, <1>4, <2>1, <2>2, <2>3 DEF JournalDurable
  <1>5. CASE WriteFails(t, c)
    <2>1. UNCHANGED <<handle, op, synced, dir, unread>>
      BY <1>5 DEF WriteFails
    <2>2. JournalDurable(t)'
      BY <1>4, <1>5 DEF WriteFails, Open, Content
    <2>3. CleanInJournal(t)' /\ FinalizeInv(t)'
      BY <1>1, <2>1 DEF CleanInJournal, FinalizeInv, Whole
    <2>4. QED
      BY <2>2, <2>3
  <1>6. ASSUME NEW content \in {"good", "bad"}, NEW due \in BOOLEAN, Write(t, c, content, due)
        PROVE  JournalDurable(t)' /\ CleanInJournal(t)' /\ FinalizeInv(t)'
    <2>1. JournalDurable(t)'
      BY <1>4, <1>6 DEF Write, Open, Content
    <2>2. handle'[t] = [handle[t] EXCEPT !.bitmap = @ \cup {c}, !.dirty = TRUE]
      BY <1>6 DEF Write, TypeOK
    <2>3. handle'[t].dirty
      BY <1>3, <2>2 DEF Handle
    <2>4. op'[t] = NoOp \/ op'[t] = [kind |-> "write", at |-> "sync", chunk |-> c]
      BY <1>3, <1>6 DEF Write, Begin, TypeOK
    <2>5. QED
      BY <2>1, <2>3, <2>4 DEF CleanInJournal, FinalizeInv
  <1>7. QED
    BY <1>2, <1>5, <1>6

LEMMA ContentRecover ==
    ASSUME TypeOK, StoreInv, ContentInv, NEW t \in Transfers, InitTransfer(t)
    PROVE  JournalDurable(t)' /\ CleanInJournal(t)' /\ FinalizeInv(t)'
  <1>1. JournalDurable(t) /\ CleanInJournal(t) /\ FinalizeInv(t)
    BY DEF ContentInv
  <1>2. CASE UNCHANGED vars
    BY <1>1, <1>2, RestKeeps DEF vars, diskVars, ghostVars, Rest
  <1>3. ASSUME NEW b \in SUBSET Chunks, Recover(t, b), t \notin unread' => b = dir.journal[t],
               unread \subseteq unread'
        PROVE  JournalDurable(t)' /\ CleanInJournal(t)' /\ FinalizeInv(t)'
    <2>1. /\ handle'[t].bitmap = b /\ dir'.journal = dir.journal
          /\ op' = op /\ op[t] = NoOp
          /\ \/ data'[t] = data[t] /\ synced'[t] = synced[t]
             \/ data'[t] = Holes /\ synced'[t] = Holes
      BY <1>3 DEF Recover, TypeOK, Dir
    <2>2. QED
      BY <1>1, <1>3, <2>1 DEF JournalDurable, CleanInJournal, FinalizeInv
  <1>4. dir.journal[t] \in SUBSET Chunks
    BY DEF TypeOK, Dir
  <1>5. QED
    BY <1>2, <1>3, <1>4 DEF InitTransfer

LEMMA ContentStep ==
    ASSUME TypeOK, StoreInv, ContentInv, [Next]_vars
    PROVE  ContentInv'
  <1>1. CASE \E t \in Transfers : Request(t) \/ Running(t) \/ CallFails(t)
    <2>1. PICK t \in Transfers : Request(t) \/ Running(t) \/ CallFails(t)
      BY <1>1
    <2>2. \A u \in Transfers \ {t} : JournalDurable(u)' /\ CleanInJournal(u)' /\ FinalizeInv(u)'
      BY <2>1, OthersRest, RestKeeps DEF ContentInv
    <2>3. JournalDurable(t)' /\ CleanInJournal(t)' /\ FinalizeInv(t)'
      BY <2>1, ContentLock, ContentCheckpoint, ContentEnd, ContentWrite, ContentRecover
         DEF Request, Running
    <2>4. QED
      BY <2>2, <2>3 DEF ContentInv
  <1>2. ASSUME Gone,
               \/ UNCHANGED diskVars
               \/ \E names \in {dir, safe}, kept \in SUBSET Transfers, lost \in SUBSET Chunks :
                      PowerLoss(names, kept, lost),
               NEW t \in Transfers
        PROVE  JournalDurable(t)' /\ CleanInJournal(t)' /\ FinalizeInv(t)'
    <2>1. handle'[t] = NoHandle /\ op'[t] = NoOp /\ UNCHANGED unread
      BY <1>2 DEF Gone, ghostVars
    <2>2. JournalDurable(t)'
      BY <1>2, <2>1 DEF ContentInv, JournalDurable, PowerLoss, diskVars
    <2>3. QED
      BY <2>1, <2>2 DEF CleanInJournal, FinalizeInv
  <1>3. CASE WorkerDies \/ \E names \in {dir, safe}, kept \in SUBSET Transfers,
                              lost \in SUBSET Chunks : PowerLoss(names, kept, lost)
    BY <1>2, <1>3 DEF WorkerDies, PowerLoss, ContentInv
  <1>4. CASE UNCHANGED vars
    BY <1>4, RestKeeps DEF vars, diskVars, ghostVars, Rest, ContentInv
  <1>5. QED
    BY <1>1, <1>3, <1>4 DEF Next

\* A final name changes hands by a rename, or as the directory is taken back.
LEMMA FinalsMove ==
    ASSUME TypeOK, [Next]_vars
    PROVE  /\ unread \subseteq unread'
           /\ \/ dir'.final = dir.final /\ safe'.final \in {safe.final, dir.final}
              \/ safe' = safe /\ \E t \in Transfers : Rename(t)
              \/ dir'.final \in {safe.final, dir.final} /\ safe' = dir' /\ Gone
  <1> USE DEF diskVars, faultVars, ghostVars
  <1>1. CASE \E t \in Transfers : Request(t)
    <2>1. PICK t \in Transfers : Request(t)
      BY <1>1
    <2>2. unread \subseteq unread' /\ safe' = safe
      BY <2>1 DEF Request, InitTransfer, Recover, WriteDuplicate, WriteFails, Write, Checkpoint,
                  Finalize, Abort, vars
    <2>3. dir'.final = dir.final
      <3>1. ASSUME NEW b, Recover(t, b) PROVE dir'.final = dir.final
        BY <3>1 DEF Recover, TypeOK, Dir
      <3>2. QED
        BY <2>1, <3>1 DEF Request, InitTransfer, WriteDuplicate, WriteFails, Write, Checkpoint,
                          Finalize, Abort, vars
    <2>4. QED
      BY <2>2, <2>3
  <1>2. CASE \E t \in Transfers : Running(t) \/ CallFails(t)
    <2>1. PICK t \in Transfers : Running(t) \/ CallFails(t)
      BY <1>2
    <2>2. CASE Rename(t)
      BY <2>2 DEF Rename
    <2>3. CASE WriteJournal(t)
      BY <2>3 DEF WriteJournal, TypeOK, Dir
    <2>4. CASE SyncFile(t)
      BY <2>4 DEF SyncFile, TypeOK, Dir
    <2>5. CASE SyncDir(t) \/ SyncFinal(t)
      BY <2>5 DEF SyncDir, SyncFinal, DirDurable
    <2>6. CASE Hash(t) \/ Stat(t) \/ CallFails(t)
      BY <2>6 DEF Hash, Stat, CallFails
    <2>7. CASE RemovePart(t)
      BY <2>7, TakeKeeps DEF RemovePart
    <2>8. CASE RemoveJournal(t) \/ TempStays(t)
      <3>1. UnlinkJournal(t)
        BY <2>8 DEF RemoveJournal, TempStays
      <3>2. QED
        BY <3>1 DEF UnlinkJournal, TypeOK, Dir
    <2>9. QED
      BY <2>1, <2>2, <2>3, <2>4, <2>5, <2>6, <2>7, <2>8 DEF Running
  <1>3. CASE WorkerDies
    BY <1>3 DEF WorkerDies, Gone
  <1>4. CASE \E names \in {dir, safe}, kept \in SUBSET Transfers,
               lost \in SUBSET Chunks : PowerLoss(names, kept, lost)
    BY <1>4 DEF PowerLoss, Gone
  <1>5. CASE UNCHANGED vars
    BY <1>5 DEF vars
  <1>6. QED
    BY <1>1, <1>2, <1>3, <1>4, <1>5 DEF Next

LEMMA FinalsStep ==
    ASSUME TypeOK, ContentInv, FinalsWhole, [Next]_vars
    PROVE  FinalsWhole'
  <1>1. unread \subseteq unread'
    BY FinalsMove
  <1>2. ASSUME NEW n \in Names, NEW file \in {dir'.final[n], safe'.final[n]},
               file \in {dir.final[n], safe.final[n]}, file \notin {NoFile, Foreign}
        PROVE  file.of \in unread' \/ file.whole
    BY <1>1, <1>2 DEF FinalsWhole
  <1>3. CASE \E t \in Transfers : Rename(t)
    <2>1. PICK t \in Transfers : Rename(t)
      BY <1>3
    <2> DEFINE new == [of |-> t, whole |-> Whole(t)]
    <2>2. /\ dir'.final = [dir.final EXCEPT ![NameOf[t]] = new] /\ safe' = safe
      BY <2>1, TakeKeeps DEF Rename
    <2>3. t \in unread \/ Whole(t)
      BY <2>1 DEF Rename, At, ContentInv, FinalizeInv
    <2>4. new.of = t /\ new.whole = Whole(t)
      OBVIOUS
    <2> HIDE DEF new
    <2>5. dir.final \in [Names -> File \cup {NoFile, Foreign}]
      BY DEF TypeOK, Dir
    <2>6. \A n \in Names : dir'.final[n] = new \/ dir'.final[n] = dir.final[n]
      BY <2>2, <2>5
    <2>7. ASSUME NEW n \in Names, NEW file \in {dir'.final[n], safe'.final[n]} \ {NoFile, Foreign}
          PROVE  file.of \in unread' \/ file.whole
      BY <1>1, <1>2, <2>2, <2>3, <2>4, <2>6, <2>7
    <2>8. QED
      BY <2>7 DEF FinalsWhole
  <1>4. CASE ~\E t \in Transfers : Rename(t)
    BY <1>2, <1>4, FinalsMove DEF FinalsWhole
  <1>5. QED
    BY <1>3, <1>4

\* A name that is taken stays taken while the worker lives.
LEMMA TakenStays ==
    ASSUME TypeOK, [Next]_vars, ~Gone, NEW n \in Names, dir.final[n] # NoFile
    PROVE  dir'.final[n] # NoFile
  <1>1. CASE \E t \in Transfers : Rename(t)
    <2>1. PICK t \in Transfers : Rename(t)
      BY <1>1
    <2>2. [of |-> t, whole |-> Whole(t)] \in File
      BY DEF File, Whole
    <2>3. [of |-> t, whole |-> Whole(t)] # NoFile
      BY <2>2, FilesAssumption
    <2>4. dir.final \in [Names -> File \cup {NoFile, Foreign}]
      BY DEF TypeOK, Dir
    <2>5. QED
      BY <2>1, <2>3, <2>4, TakeKeeps
  <1>2. CASE ~\E t \in Transfers : Rename(t)
    BY <1>2, FinalsMove
  <1>3. QED
    BY <1>1, <1>2

LEMMA FaultsGrow ==
    ASSUME TypeOK, [Next]_vars, faults > 0
    PROVE  faults' > 0
  <1>1. faults \in Int /\ (Fault => faults' > 0)
    BY BoundsAssumption DEF TypeOK, Fault
  <1>2. ASSUME NEW t \in Transfers, Request(t) PROVE UNCHANGED faults \/ Fault
    BY <1>2 DEF Request, InitTransfer, WriteDuplicate, WriteFails, Write, Checkpoint, Finalize,
                Abort, vars, faultVars
  <1>3. ASSUME NEW t \in Transfers, Running(t) PROVE UNCHANGED faults \/ Fault
    BY <1>3 DEF Running, SyncFile, WriteJournal, SyncDir, Hash, Stat, Rename, SyncFinal,
                RemovePart, RemoveJournal, TempStays, faultVars
  <1>4. ASSUME \/ \E t \in Transfers : CallFails(t)
               \/ WorkerDies \/ UNCHANGED vars
               \/ \E names \in {dir, safe}, kept \in SUBSET Transfers,
                     lost \in SUBSET Chunks : PowerLoss(names, kept, lost)
        PROVE  UNCHANGED faults \/ Fault
    BY <1>4 DEF CallFails, WorkerDies, PowerLoss, Gone, vars, faultVars
  <1>5. QED
    BY <1>1, <1>2, <1>3, <1>4 DEF Next

LEMMA StuckStep ==
    ASSUME TypeOK, StoreInv, StuckHasCause, [Next]_vars
    PROVE  StuckHasCause'
  <1> USE DEF diskVars, faultVars, ghostVars
  <1> SUFFICES ASSUME NEW t \in Transfers, handle'[t] # NoHandle, op'[t] = NoOp, ~handle'[t].open
               PROVE  faults' > 0 \/ dir'.final[NameOf[t]] # NoFile
    BY DEF StuckHasCause, Free
  <1>1. NameOf[t] \in Names
    BY NamesAssumption
  <1>2. ~Gone
    BY DEF Gone
  <1>3. ASSUME handle'[t] = handle[t], op'[t] = op[t]
        PROVE  faults' > 0 \/ dir'.final[NameOf[t]] # NoFile
    <2>1. faults > 0 \/ dir.final[NameOf[t]] # NoFile
      BY <1>3 DEF StuckHasCause, Free
    <2>2. QED
      BY <1>1, <1>2, <2>1, TakenStays, FaultsGrow
  <1>4. CASE UNCHANGED vars
    BY <1>3, <1>4 DEF vars
  <1>5. ASSUME NEW u \in Transfers, Request(u) \/ Running(u) \/ CallFails(u), u # t
        PROVE  faults' > 0 \/ dir'.final[NameOf[t]] # NoFile
    BY <1>3, <1>5, OthersRest DEF Rest
  <1>6. CASE Request(t)
    <2>1. CASE InitTransfer(t)
      <3>1. ASSUME NEW b \in SUBSET Chunks, Recover(t, b) PROVE handle'[t].open
        BY <3>1 DEF Recover, TypeOK
      <3>2. dir.journal[t] \in SUBSET Chunks
        BY DEF TypeOK, Dir
      <3>3. QED
        BY <1>4, <2>1, <3>1, <3>2 DEF InitTransfer
    <2>2. ASSUME NEW c \in Chunks, WriteDuplicate(t, c) \/ WriteFails(t, c)
          PROVE  faults' > 0 \/ dir'.final[NameOf[t]] # NoFile
      BY <1>3, <2>2 DEF WriteDuplicate, WriteFails
    <2>3. ASSUME NEW c \in Chunks, NEW content, NEW due, Write(t, c, content, due)
          PROVE  handle'[t].open
      <3>1. handle[t] \in Handle /\ handle[t].open
        BY <2>3, HandleType DEF Write, Open, Free
      <3>2. handle'[t] = [handle[t] EXCEPT !.bitmap = @ \cup {c}, !.dirty = TRUE]
        BY <2>3 DEF Write, TypeOK
      <3>3. QED
        BY <3>1, <3>2 DEF Handle
    <2>4. ASSUME Checkpoint(t) \/ Finalize(t) \/ Abort(t) PROVE op'[t] # NoOp
      <3>1. 0 \in Chunks
        BY ChunksAssumption DEF Chunks
      <3>2. op'[t] \in Op
        BY <2>4, <3>1 DEF Checkpoint, Finalize, Abort, Begin, TypeOK, Op, Steps
      <3>3. QED
        BY <3>2, NullsAssumption
    <2>5. QED
      BY <1>6, <2>1, <2>2, <2>3, <2>4 DEF Request
  <1>7. CASE Running(t) \/ CallFails(t)
    <2>1. op[t] # NoOp /\ handle[t] # NoHandle /\ handle[t] \in Handle /\ CheckpointInv(t)
      BY <1>7, HandleType DEF Running, CallFails, SyncFile, WriteJournal, SyncDir, Hash, Stat,
           Rename, SyncFinal, RemovePart, RemoveJournal, TempStays, UnlinkJournal, At,
           StoreInv, TransferInv, TypeOK
    <2>2. ASSUME NEW step \in Steps, GoTo(t, step) PROVE FALSE
      <3>1. op'[t] \in Op
        BY <2>1, <2>2 DEF GoTo, TypeOK, Op
      <3>2. QED
        BY <3>1, NullsAssumption
    <2>3. CASE SyncFile(t) \/ WriteJournal(t) \/ Rename(t) \/ SyncFinal(t) \/ RemovePart(t)
      BY <2>2, <2>3 DEF SyncFile, WriteJournal, Rename, SyncFinal, RemovePart, Steps
    <2>4. CASE SyncDir(t)
      <3>1. handle'[t] = [handle[t] EXCEPT !.durable = handle[t].bitmap, !.dirty = FALSE]
        BY <2>4 DEF SyncDir, TypeOK
      <3>2. handle'[t].open = handle[t].open
        BY <2>1, <3>1 DEF Handle
      <3>3. QED
        BY <2>1, <2>4, <3>2 DEF SyncDir, At, CheckpointInv
    <2>5. CASE Hash(t)
      BY <2>1, <2>2, <2>5 DEF Hash, At, CheckpointInv, Steps
    <2>6. CASE Stat(t)
      BY <1>1, <1>2, <2>2, <2>6, TakenStays DEF Stat, Steps
    <2>7. CASE RemoveJournal(t)
      BY <2>7 DEF RemoveJournal, TypeOK
    <2>8. CASE TempStays(t) \/ CallFails(t)
      BY <2>8, BoundsAssumption DEF TempStays, CallFails, Fault, TypeOK
    <2>9. QED
      BY <1>7, <2>3, <2>4, <2>5, <2>6, <2>7, <2>8 DEF Running
  <1>8. CASE WorkerDies \/ \E names \in {dir, safe}, kept \in SUBSET Transfers,
                              lost \in SUBSET Chunks : PowerLoss(names, kept, lost)
    BY <1>2, <1>8 DEF WorkerDies, PowerLoss
  <1>9. QED
    BY <1>4, <1>5, <1>6, <1>7, <1>8 DEF Next

\* With names of their own, transfers do not take each other's.
LEMMA NamedStays ==
    ASSUME TypeOK, OwnNames, [Next]_vars, NEW t \in Transfers
    PROVE  /\ Named(t, dir) /\ Named(t, safe) => Named(t, dir') /\ Named(t, safe')
           /\ Named(t, dir) /\ ~Gone => Named(t, dir')
  <1>1. CASE \E u \in Transfers : Rename(u)
    <2>1. PICK u \in Transfers : Rename(u)
      BY <1>1
    <2> DEFINE new == [of |-> u, whole |-> Whole(u)]
    <2>2. dir'.final = [dir.final EXCEPT ![NameOf[u]] = new] /\ safe' = safe
      BY <2>1, TakeKeeps DEF Rename
    <2>3. new \in File /\ new.of = u
      BY DEF File, Whole
    <2> HIDE DEF new
    <2>4. dir.final \in [Names -> File \cup {NoFile, Foreign}] /\ NameOf[t] \in Names
      BY NamesAssumption DEF TypeOK, Dir
    <2>5. Named(t, dir) => Named(t, dir')
      <3>1. CASE u = t
        BY <2>2, <2>3, <2>4, <3>1 DEF Named
      <3>2. CASE u # t
        BY <2>2, <2>4, <3>2 DEF Named, OwnNames
      <3>3. QED
        BY <3>1, <3>2
    <2>6. QED
      BY <2>2, <2>5 DEF Named
  <1>2. CASE ~\E u \in Transfers : Rename(u)
    BY <1>2, FinalsMove DEF Named
  <1>3. QED
    BY <1>1, <1>2

\* How an operation comes to its last two steps.
LEMMA LastSteps ==
    ASSUME TypeOK, [Next]_vars, NEW t \in Transfers, op'[t] # NoOp, op'[t] # op[t]
    PROVE  /\ op'[t].at = "syncFinal" => Rename(t)
           /\ op'[t].at = "removeJournal" =>
                  SyncFinal(t) \/ (RemovePart(t) /\ op'[t].kind = op[t].kind)
  <1>1. CASE \E u \in Transfers : Request(u) \/ Running(u) \/ CallFails(u)
    <2>1. PICK u \in Transfers : Request(u) \/ Running(u) \/ CallFails(u)
      BY <1>1
    <2>2. u = t
      BY <2>1, OthersRest DEF Rest
    <2>3. CASE Request(t)
      <3>1. ASSUME NEW c \in Chunks, NEW content, NEW due, Write(t, c, content, due)
            PROVE  op'[t].at = "sync"
        BY <3>1 DEF Write, Begin, TypeOK
      <3>2. CASE Checkpoint(t) \/ Finalize(t) \/ Abort(t)
        BY <3>2 DEF Checkpoint, Finalize, Abort, Begin, TypeOK
      <3>3. QED
        BY <2>3, <3>1, <3>2 DEF Request, InitTransfer, Recover, WriteDuplicate, WriteFails, vars
    <2>4. CASE Running(t) \/ CallFails(t)
      <3>1. CASE \/ CallFails(t) \/ RemoveJournal(t) \/ TempStays(t)
        BY <3>1 DEF CallFails, RemoveJournal, TempStays, UnlinkJournal, Answer, TypeOK
      <3>2. op[t] # NoOp \/ CallFails(t)
        BY <2>4 DEF Running, SyncFile, WriteJournal, SyncDir, Hash, Stat,
             Rename, SyncFinal, RemovePart, RemoveJournal, TempStays, UnlinkJournal, At
      <3>3. CASE SyncFile(t) \/ WriteJournal(t) \/ SyncDir(t) \/ Hash(t) \/ Stat(t)
        <4>1. op'[t].at \in {"journal", "syncDir", "hash", "stat", "rename"}
          BY <3>2, <3>3, GoToOp DEF SyncFile, WriteJournal, SyncDir, Hash, Stat, Answer, CallFails,
                                    TypeOK
        <4>2. QED
          BY <4>1
      <3>4. CASE Rename(t) \/ SyncFinal(t) \/ RemovePart(t)
        BY <3>2, <3>4, GoToOp DEF Rename, SyncFinal, RemovePart, CallFails
      <3>5. QED
        BY <2>4, <3>1, <3>3, <3>4 DEF Running
    <2>5. QED
      BY <2>1, <2>2, <2>3, <2>4
  <1>2. CASE WorkerDies \/ \E names \in {dir, safe}, kept \in SUBSET Transfers,
                              lost \in SUBSET Chunks : PowerLoss(names, kept, lost)
    BY <1>2 DEF WorkerDies, PowerLoss, Gone
  <1>3. CASE UNCHANGED vars
    BY <1>3 DEF vars
  <1>4. QED
    BY <1>1, <1>2, <1>3 DEF Next

\* Who is delivered.
LEMMA DeliveredMoves ==
    ASSUME TypeOK, [Next]_vars, NEW t \in Transfers, t \in delivered', t \notin delivered
    PROVE  RemoveJournal(t) /\ op[t] # NoOp /\ op[t].at = "removeJournal" /\ op[t].kind = "finalize"
  <1>1. delivered' # delivered
    OBVIOUS
  <1>2. ASSUME NEW u \in Transfers, Request(u)
        PROVE  delivered' = delivered
    <2>1. CASE InitTransfer(u)
      BY <2>1 DEF InitTransfer, Recover, vars, ghostVars
    <2>2. CASE Checkpoint(u) \/ Finalize(u) \/ Abort(u)
      BY <2>2 DEF Checkpoint, Finalize, Abort, ghostVars
    <2>3. ASSUME NEW c \in Chunks, WriteDuplicate(u, c) \/ WriteFails(u, c)
          PROVE  delivered' = delivered
      BY <2>3 DEF WriteDuplicate, WriteFails, ghostVars
    <2>4. ASSUME NEW c \in Chunks, NEW content \in {"good", "bad"}, NEW due \in BOOLEAN,
                 Write(u, c, content, due)
          PROVE  delivered' = delivered
      BY <2>4 DEF Write, ghostVars
    <2>5. QED
      BY <1>2, <2>1, <2>2, <2>3, <2>4 DEF Request
  <1>3. ASSUME NEW u \in Transfers, CallFails(u) \/ SyncFile(u) \/ WriteJournal(u) \/ SyncDir(u)
                                     \/ TempStays(u)
        PROVE  delivered' = delivered
    BY <1>3 DEF CallFails, SyncFile, WriteJournal, SyncDir, TempStays, ghostVars
  <1>4. ASSUME NEW u \in Transfers,
               Hash(u) \/ Stat(u) \/ Rename(u) \/ SyncFinal(u) \/ RemovePart(u)
        PROVE  delivered' = delivered
    BY <1>4 DEF Hash, Stat, Rename, SyncFinal, RemovePart, ghostVars
  <1>5. ASSUME NEW names \in {dir, safe}, NEW kept \in SUBSET Transfers,
               NEW lost \in SUBSET Chunks, WorkerDies \/ PowerLoss(names, kept, lost)
        PROVE  delivered' = delivered
    BY <1>5 DEF WorkerDies, PowerLoss, Gone, ghostVars
  <1>6. ASSUME UNCHANGED vars
        PROVE  delivered' = delivered
    BY <1>6 DEF vars, ghostVars
  <1>7. PICK u \in Transfers : RemoveJournal(u)
    <2>1. PICK u \in Transfers : Request(u) \/ Running(u) \/ CallFails(u)
      BY <1>1, <1>5, <1>6, Zenon DEF Next
    <2>2. RemoveJournal(u)
      BY <1>1, <1>2, <1>3, <1>4, <2>1, Zenon DEF Running
    <2>3. QED
      BY <2>2
  <1>8. /\ delivered' = IF op[u].kind = "finalize" THEN delivered \cup {u} ELSE delivered
        /\ op[u] # NoOp /\ op[u].at = "removeJournal"
    BY <1>7 DEF RemoveJournal, UnlinkJournal, At
  <1>9. QED
    BY <1>7, <1>8

LEMMA NameStep ==
    ASSUME TypeOK, ContentInv, NameInv, [Next]_vars
    PROVE  NameInv'
  <1> SUFFICES ASSUME OwnNames, NEW t \in Transfers
               PROVE  NamedInv(t)'
    BY DEF NameInv, OwnNames
  <1>1. NamedInv(t) /\ FinalizeInv(t)
    BY DEF NameInv, ContentInv
  <1>2. ASSUME t \in delivered' PROVE Named(t, dir') /\ Named(t, safe')
    <2>1. Named(t, dir) /\ Named(t, safe)
      BY <1>1, <1>2, DeliveredMoves DEF NamedInv
    <2>2. QED
      BY <2>1, NamedStays
  <1>3. ASSUME op'[t] # NoOp, op'[t].at = "syncFinal" PROVE Named(t, dir')
    <2>1. CASE op'[t] = op[t]
      <3>1. ~Gone
        BY <1>3 DEF Gone
      <3>2. QED
        BY <1>1, <1>3, <2>1, <3>1, NamedStays DEF NamedInv
    <2>2. CASE op'[t] # op[t]
      <3>1. Rename(t)
        BY <1>3, <2>2, LastSteps
      <3> DEFINE new == [of |-> t, whole |-> Whole(t)]
      <3>2. dir'.final = [dir.final EXCEPT ![NameOf[t]] = new]
        BY <3>1, TakeKeeps
      <3>3. new \in File /\ new.of = t
        BY DEF File, Whole
      <3> HIDE DEF new
      <3>4. dir.final \in [Names -> File \cup {NoFile, Foreign}] /\ NameOf[t] \in Names
        BY NamesAssumption DEF TypeOK, Dir
      <3>5. QED
        BY <3>2, <3>3, <3>4 DEF Named
    <2>3. QED
      BY <2>1, <2>2
  <1>4. ASSUME op'[t] # NoOp, op'[t].at = "removeJournal", op'[t].kind = "finalize"
        PROVE  Named(t, dir') /\ Named(t, safe')
    <2>1. CASE op'[t] = op[t]
      BY <1>1, <1>4, <2>1, NamedStays DEF NamedInv
    <2>2. CASE op'[t] # op[t]
      <3>1. ~RemovePart(t) \/ op'[t].kind # op[t].kind
        BY <1>1, <1>4 DEF FinalizeInv, RemovePart, At
      <3>2. SyncFinal(t)
        BY <1>4, <2>2, <3>1, LastSteps
      <3>3. safe' = dir /\ dir' = dir /\ Named(t, dir)
        BY <1>1, <3>2 DEF SyncFinal, At, DirDurable, NamedInv
      <3>4. QED
        BY <3>3
    <2>3. QED
      BY <2>1, <2>2
  <1>5. QED
    BY <1>2, <1>3, <1>4 DEF NamedInv, Named

LEMMA FinalsInit ==
    ASSUME Init
    PROVE  ContentInv /\ NameInv /\ FinalsWhole /\ StuckHasCause
  <1>1. ContentInv /\ NameInv /\ StuckHasCause
    BY DEF Init, ContentInv, NameInv, JournalDurable, CleanInJournal, FinalizeInv, NamedInv,
           StuckHasCause, Free
  <1>2. FinalsWhole
    BY DEF Init, FinalsWhole
  <1>3. QED
    BY <1>1, <1>2

\* Only a whole file with the right hash gets a final name, where the journal it was built on
\* could be read; a file whose finalize has answered keeps its name, through losses of power
\* too; and a transfer with a closed file has met an error or a name that is taken.
THEOREM FinalNames == Spec => []TransfersSound
  <1>1. Init => TypeOK /\ StoreInv /\ ContentInv /\ NameInv /\ FinalsWhole /\ StuckHasCause
    BY TypeInit, StoreInit, FinalsInit
  <1>2. TypeOK /\ StoreInv /\ ContentInv /\ NameInv /\ FinalsWhole /\ StuckHasCause /\ [Next]_vars
        => (TypeOK /\ StoreInv /\ ContentInv /\ NameInv /\ FinalsWhole /\ StuckHasCause)'
    BY TypeStep, StoreStep, ContentStep, NameStep, FinalsStep, StuckStep
  <1>3. TypeOK /\ NameInv /\ FinalsWhole /\ StuckHasCause => TransfersSound
    BY DEF NameInv, NamedInv, DeliveredStays, TransfersSound, TypeOK
  <1>4. QED
    BY <1>1, <1>2, <1>3, PTL DEF Spec
=============================================================================
