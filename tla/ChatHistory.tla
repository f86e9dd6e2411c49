---------------------------- MODULE ChatHistory -----------------------------
(***************************************************************************)
(* The messages of a conversation of two on one device: how they are kept, *)
(* how each hydration reads them again (security/messageStore.ts           *)
(* loadConversationMessages, App.tsx hydrateVault), and how they are       *)
(* deleted (App.tsx handleDeleteMessages, db/repo.ts).                     *)
(*                                                                         *)
(* A message of the user's is saved and then logged by the envelope that   *)
(* is sent; one of the peer's is logged and then saved.  A hydration lists *)
(* the store, the tombstones and the log, a transaction each, replays the  *)
(* log and puts what it has found on the screen.  Nothing keeps            *)
(* hydrations, messages and deletions apart.                               *)
(*                                                                         *)
(* Abstracted: contents, but for whether a message is whole or an empty    *)
(* row; the keys with which the log is opened (Conversation); receipts in  *)
(* it (ReadCursors); media (MediaTransfer); a hydration that is given up,  *)
(* which locks the vault (Vault).                                          *)
(***************************************************************************)
EXTENDS FiniteSets

CONSTANTS
    Texts,       \* messages
    Hydrations,  \* bound: hydrations that may overlap
    MayEnd       \* bound: whether the program may end

ASSUME HistoryAssumption == MayEnd \in BOOLEAN

VARIABLES
    mine,      \* the messages that the user sends; the others are the peer's
    kept,      \* db.messages: a message is "whole", an empty row ("blank") or not there ("no")
    logged,    \* db.events
    stones,    \* db.tombstones
    entering,  \* messages of which the second of the two is still to be written
    load,      \* the hydrations
    onScreen,  \* messagesByConv of the store that the view shows
    removal,   \* how far the deletion of a message has got
    ended      \* whether the program has ended once

\* History: what hydrations have shown of the store since the program began; whether the one
\* that ended last had been overtaken; messages that one may not have known to be deleted.
VARIABLES displayed, stale, unaware

historyState  == <<kept, logged, stones, entering>>
historyGhosts == <<displayed, stale, unaware>>
chatVars      == <<mine, historyState, load, onScreen, removal, ended, historyGhosts>>

Looks      == {"no", "whole", "blank"}
Nothing    == [m \in Texts |-> "no"]
LoadStages == {"idle", "tombstones", "events", "replay"}
Removals   == {"no", "asked", "blanked", "erased", "buried", "done", "broken", "untold"}

\* A hydration: where it is; the rows and tombstones it has listed; what it has found; the
\* envelopes it has still to replay; those that had listed the store before it did, and
\* whether it could not list it, or one that did so after it has ended.
Resting == [at |-> "idle", rows |-> Nothing, stones |-> {}, found |-> Nothing, events |-> {},
            elder |-> {}, passed |-> FALSE]
Load == [at : LoadStages, rows : [Texts -> Looks], stones : SUBSET Texts,
         found : [Texts -> Looks], events : SUBSET Texts, elder : SUBSET Hydrations,
         passed : BOOLEAN]

HistoryTypeOK ==
    /\ mine \subseteq Texts /\ kept \in [Texts -> Looks]
    /\ logged \subseteq Texts /\ stones \subseteq Texts /\ entering \subseteq Texts
    /\ load \in [Hydrations -> Load] /\ onScreen \in [Texts -> Looks]
    /\ removal \in [Texts -> Removals] /\ ended \in BOOLEAN
    /\ displayed \subseteq Texts /\ stale \in BOOLEAN /\ unaware \subseteq Texts

HistoryInit ==
    /\ mine \in SUBSET Texts
    /\ kept = Nothing /\ logged = {} /\ stones = {} /\ entering = {}
    /\ load = [h \in Hydrations |-> Resting] /\ onScreen = Nothing
    /\ removal = [m \in Texts |-> "no"] /\ ended = FALSE
    /\ displayed = {} /\ stale = FALSE /\ unaware = {}

-----------------------------------------------------------------------------
\* handleSendMessage saves the message; sendDirectEnvelope, for which nobody waits, logs it,
\* or fails.
SaveOwn(m) ==
    /\ m \in mine /\ kept[m] = "no" /\ removal[m] = "no" /\ m \notin logged
    /\ kept' = [kept EXCEPT ![m] = "whole"] /\ entering' = entering \cup {m}
    /\ UNCHANGED <<mine, logged, stones, load, onScreen, removal, ended, historyGhosts>>

LogOwn(m) ==
    /\ m \in mine \cap entering /\ entering' = entering \ {m}
    /\ logged' \in {logged, logged \cup {m}}
    /\ UNCHANGED <<mine, kept, stones, load, onScreen, removal, ended, historyGhosts>>

\* persistAppliedEnvelope and applyMessageEvent of the engine: what is logged is not applied
\* a second time.
LogReceived(m) ==
    /\ m \in Texts \ (mine \cup logged)
    /\ logged' = logged \cup {m} /\ entering' = entering \cup {m}
    /\ UNCHANGED <<mine, kept, stones, load, onScreen, removal, ended, historyGhosts>>

SaveReceived(m) ==
    /\ m \in entering \ mine /\ entering' = entering \ {m}
    /\ kept' \in {kept, [kept EXCEPT ![m] = "whole"]}
    /\ UNCHANGED <<mine, logged, stones, load, onScreen, removal, ended, historyGhosts>>

-----------------------------------------------------------------------------
\* loadConversationMessages begins with the store.  What cannot be listed is taken for empty.
Listed == {h \in Hydrations : load[h].at # "idle"}

ListMessages(h) ==
    /\ load[h].at = "idle"
    /\ \E rows \in {kept, Nothing} :
           load' = [load EXCEPT ![h] = [Resting EXCEPT !.at = "tombstones", !.rows = rows,
                                                      !.found = rows, !.elder = Listed,
                                                      !.passed = rows # kept]]
    /\ UNCHANGED <<mine, historyState, onScreen, removal, ended, historyGhosts>>

\* Of a friend whose keys are not known, the log is not read; and it may not be readable.
ListTombstones(h) ==
    /\ load[h].at = "tombstones"
    /\ \E next \in {"events", "replay"}, listed \in {stones, {}} :
           /\ load' = [load EXCEPT ![h].at = next, ![h].stones = listed]
           /\ unaware' = unaware \cup (stones \ listed)
    /\ UNCHANGED <<mine, historyState, onScreen, removal, ended, displayed, stale>>

ListEvents(h) ==
    /\ load[h].at = "events"
    /\ load' = [load EXCEPT ![h].at = "replay", ![h].events = logged]
    /\ UNCHANGED <<mine, historyState, onScreen, removal, ended, historyGhosts>>

\* The envelope of a message that is not there yet shows it when it is opened, an empty row
\* when it has to wait for a key, and nothing when that fails.
ReplayText(h, m) ==
    /\ load[h].at = "replay" /\ m \in load[h].events
    /\ \E look \in IF load[h].found[m] = "no" THEN Looks ELSE {load[h].found[m]} :
           load' = [load EXCEPT ![h].events = @ \ {m}, ![h].found[m] = look]
    /\ UNCHANGED <<mine, historyState, onScreen, removal, ended, historyGhosts>>

\* What has been found and is not deleted is set for the view.  Those that had listed the store
\* earlier have been overtaken.
ShowMessages(h) ==
    /\ load[h].at = "replay" /\ load[h].events = {}
    /\ onScreen' = [m \in Texts |-> IF m \in load[h].stones THEN "no" ELSE load[h].found[m]]
    /\ load' = [g \in Hydrations |->
                   IF g = h THEN Resting
                   ELSE [load[g] EXCEPT !.elder = @ \ {h},
                                        !.passed = @ \/ g \in load[h].elder]]
    /\ displayed' = displayed \cup {m \in Texts \ load[h].stones : load[h].rows[m] = "whole"}
    /\ stale' = load[h].passed
    /\ UNCHANGED <<mine, historyState, removal, ended, unaware>>

-----------------------------------------------------------------------------
\* handleDeleteMessages, of a message on the screen: secureEraseMessages overwrites the row and
\* removes it, where there is one; the tombstone follows; the view is told what remains.
AskRemoval(m) ==
    /\ onScreen[m] # "no" /\ removal[m] = "no"
    /\ removal' = [removal EXCEPT ![m] = "asked"]
    /\ UNCHANGED <<mine, historyState, load, onScreen, ended, historyGhosts>>

BlankRow(m) ==
    /\ removal[m] = "asked"
    /\ IF kept[m] = "no"
       THEN removal' = [removal EXCEPT ![m] = "erased"] /\ UNCHANGED kept
       ELSE /\ removal' = [removal EXCEPT ![m] = "blanked"]
            /\ kept' = [kept EXCEPT ![m] = "blank"]
    /\ UNCHANGED <<mine, logged, stones, entering, load, onScreen, ended, historyGhosts>>

EraseRow(m) ==
    /\ removal[m] = "blanked" /\ removal' = [removal EXCEPT ![m] = "erased"]
    /\ kept' = [kept EXCEPT ![m] = "no"]
    /\ UNCHANGED <<mine, logged, stones, entering, load, onScreen, ended, historyGhosts>>

Past(h) == load[h].at \in {"events", "replay"}

Bury(m) ==
    /\ removal[m] = "erased" /\ removal' = [removal EXCEPT ![m] = "buried"]
    /\ stones' = stones \cup {m}
    /\ unaware' = IF \E h \in Hydrations : Past(h) THEN unaware \cup {m} ELSE unaware
    /\ UNCHANGED <<mine, kept, logged, entering, load, onScreen, ended, displayed, stale>>

TakeAway(m) ==
    /\ removal[m] = "buried" /\ removal' = [removal EXCEPT ![m] = "done"]
    /\ onScreen' = [onScreen EXCEPT ![m] = "no"]
    /\ UNCHANGED <<mine, historyState, load, ended, historyGhosts>>

\* A write fails, of which the user is told: the last of them is that of the conversation.
RemovalFails(m) ==
    /\ removal[m] \in {"asked", "blanked", "erased", "buried"}
    /\ removal' = [removal EXCEPT ![m] = IF @ = "buried" THEN "untold" ELSE "broken"]
    /\ UNCHANGED <<mine, historyState, load, onScreen, ended, historyGhosts>>

-----------------------------------------------------------------------------
\* The program ends; the next one begins with a hydration.
ProgramEnds ==
    /\ MayEnd /\ ~ended /\ ended' = TRUE
    /\ load' = [h \in Hydrations |-> Resting] /\ onScreen' = Nothing /\ entering' = {}
    /\ removal' = [m \in Texts |-> CASE removal[m] \in {"asked", "blanked", "erased"} -> "broken"
                                     [] removal[m] \in {"buried", "untold"} -> "done"
                                     [] OTHER -> removal[m]]
    /\ displayed' = {} /\ stale' = FALSE
    /\ UNCHANGED <<mine, kept, logged, stones, unaware>>

HistoryNext ==
    \/ \E m \in Texts : \/ SaveOwn(m) \/ LogOwn(m) \/ LogReceived(m) \/ SaveReceived(m)
                        \/ AskRemoval(m) \/ BlankRow(m) \/ EraseRow(m) \/ Bury(m)
                        \/ TakeAway(m) \/ RemovalFails(m)
    \/ \E h \in Hydrations : \/ ListMessages(h) \/ ListTombstones(h)
                             \/ ListEvents(h) \/ ShowMessages(h)
                             \/ \E m \in Texts : ReplayText(h, m)
    \/ ProgramEnds

HistorySpec == HistoryInit /\ [][HistoryNext]_chatVars

-----------------------------------------------------------------------------
\* A message that has been deleted does not come back, although its envelope stays in the log
\* and is replayed by every hydration: it is on the screen only until the deletion tells the
\* view, which may fail, or as a hydration could not list the tombstones, or had done so
\* before it was among them.
DeletedStaysAway ==
    \A m \in stones : onScreen[m] # "no" => \/ removal[m] \in {"buried", "untold"}
                                            \/ m \in unaware

\* What has been shown of the store stays on the screen, unless the user has asked for its
\* deletion, or the hydration that ended last could not list the store, or is not the one
\* that has listed it last.
NothingVanishes ==
    \A m \in displayed : onScreen[m] = "whole" \/ removal[m] # "no" \/ stale

\* An empty row, once no key is missing for it, is a message that was being deleted when a
\* write failed or the program ended; no deletion that ended has left one.
NoRowIsLeft ==
    \A m \in Texts : kept[m] = "blank" => removal[m] \in {"blanked", "broken"}

HistorySound == HistoryTypeOK /\ DeletedStaysAway /\ NothingVanishes /\ NoRowIsLeft
=============================================================================
