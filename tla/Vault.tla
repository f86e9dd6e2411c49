-------------------------------- MODULE Vault --------------------------------
(***************************************************************************)
(* The encrypted vault of one device: the key that is held in memory       *)
(* (crypto/sessionKeyring.ts), the records, the header and the key's       *)
(* identifier in the database (db/repo.ts), the session and the PIN record *)
(* in the secret store (security/session.ts, security/pin.ts), and the     *)
(* handlers of app/App.tsx that create, open, lock, rotate and reset it.   *)
(*                                                                         *)
(* A key is named by where it comes from: the random one of a new account, *)
(* or the one derived from the user's start key under a header's salt.     *)
(* The key of any other start key is WrongKey.  A rotation is a step per   *)
(* write, everything else may happen between two of them; the other        *)
(* handlers are one step each.                                             *)
(***************************************************************************)
EXTENDS Naturals

CONSTANTS VaultRecords,  \* records of the database that opening the vault reads
          MaxHeaders     \* bound: vault headers that are made

ASSUME VaultAssumption == MaxHeaders \in Nat \ {0}

VARIABLES vaultMode,     \* the screen: "onboarding", "locked" or "app"
          vaultMemory,   \* the key in memory
          vaultHeader,   \* the header in the database, 0 when there is none
          vaultHeaders,  \* headers made so far
          vaultId,       \* the key whose identifier the database holds
          vaultStored,   \* record -> the key it is encrypted with
          vaultSession,  \* the key of the stored session
          vaultPin,      \* the key sealed by the PIN
          vaultReset,    \* the PIN must be set again
          rotation,      \* the rotation of the start key that is under way
          vaultHarm      \* what has happened that may make the vault unreadable

databaseVars == <<vaultHeader, vaultHeaders, vaultId, vaultStored>>
pinVars == <<vaultPin, vaultReset>>
vaultVars == <<vaultMode, vaultMemory, databaseVars, vaultSession, pinVars, rotation,
               vaultHarm>>

NoKey == <<"none", 0>>
WrongKey == <<"wrong", 0>>
Random(h) == <<"random", h>>
Derived(h) == <<"derived", h>>
VaultKeys == {NoKey, WrongKey} \union ({"random", "derived"} \X (1..MaxHeaders))

NotRotating == [at |-> "no", left |-> {}, foreign |-> {}, intact |-> FALSE, key |-> NoKey]

Kept == {r \in VaultRecords : vaultStored[r] # NoKey}
PinUsable == vaultPin # NoKey /\ ~vaultReset

\* Where the user is sent when the vault is closed.
Door == IF PinUsable THEN "locked" ELSE "onboarding"

VaultInit ==
    /\ vaultMode = "onboarding" /\ vaultMemory = NoKey
    /\ vaultHeader = 0 /\ vaultHeaders = 0 /\ vaultId = NoKey
    /\ vaultStored = [r \in VaultRecords |-> NoKey]
    /\ vaultSession = NoKey /\ vaultPin = NoKey /\ vaultReset = FALSE
    /\ rotation = NotRotating /\ vaultHarm = {}

-----------------------------------------------------------------------------
(* Opening and closing *)

\* setVaultKey, clearVaultKey overwrite the key that was in memory where it
\* is, so a rotation that still reads it has lost it.
OldKeyLost == rotation' = [rotation EXCEPT !.intact = FALSE]

\* Slip: the key is not cleared.
ClosedWithKey(screen) ==
    vaultMemory' = vaultMemory /\ vaultSession' = NoKey /\ vaultMode' = screen

ClosedTo(screen) == vaultMemory' = NoKey /\ vaultSession' = NoKey /\ vaultMode' = screen

\* resetDb: the database is deleted and made again.
Emptied ==
    /\ vaultHeader' = 0 /\ vaultId' = NoKey
    /\ vaultStored' = [r \in VaultRecords |-> NoKey]
    /\ UNCHANGED vaultHeaders

Matches(id, key) == id \in {NoKey, key}
Opens(key) == \A r \in Kept : vaultStored[r] = key

\* hydrateVault with `key` in memory and the identifier `id` in the
\* database: a key that is not the vault's, or does not decrypt a record,
\* resets the database.
Hydrate(id, key) ==
    \/ /\ Matches(id, key) /\ Opens(key)
       /\ IF Kept # {}
          THEN vaultMemory' = key /\ vaultSession' = key /\ vaultMode' = "app"
          ELSE ClosedTo("onboarding")
       /\ vaultId' = id
       /\ UNCHANGED <<vaultHeader, vaultHeaders, vaultStored>>
    \/ /\ ~(Matches(id, key) /\ Opens(key))
       /\ ClosedTo(IF Matches(id, key) THEN Door ELSE "onboarding")
       /\ Emptied

\* Leaving a rotation at one of these steps may leave records under two keys,
\* or a session, a PIN and an identifier of the old one.
LeavesRotation(steps) ==
    vaultHarm' = vaultHarm \union (IF rotation.at \in steps THEN {"left a rotation"} ELSE {})

\* handleCreate, up to the new account's records: the old vault is reset and
\* the new one gets a random key.
Create ==
    /\ vaultMode = "onboarding" /\ vaultHeaders < MaxHeaders
    /\ vaultHeaders' = vaultHeaders + 1 /\ vaultHeader' = vaultHeaders'
    /\ vaultMemory' = Random(vaultHeaders') /\ vaultId' = Random(vaultHeaders')
    /\ \E seeded \in SUBSET VaultRecords :
          vaultStored' = [r \in VaultRecords |-> IF r \in seeded THEN Random(vaultHeaders')
                                                                 ELSE NoKey]
    /\ vaultSession' = NoKey /\ vaultMode' = "creating"
    /\ vaultHarm' = IF rotation.at = "no" THEN {} ELSE {"left a rotation"}
    /\ OldKeyLost
    /\ UNCHANGED pinVars

\* The rest of it; or an error, which locks the vault.
CreateEnds ==
    /\ vaultMode = "creating"
    /\ \/ Kept = VaultRecords /\ Hydrate(vaultId, vaultMemory)
       \/ /\ vaultMemory' = NoKey /\ vaultMode' = "onboarding"
          /\ UNCHANGED <<databaseVars, vaultSession>>
    /\ OldKeyLost
    /\ UNCHANGED <<pinVars, vaultHarm>>

\* handleStartKeyUnlock with the key of the last rotation, or with another.
\* unlockVault stores the identifier of whatever key it is given; an error
\* leaves it there.
StartKeyUnlock(mistyped) ==
    LET header == IF vaultHeader = 0 THEN vaultHeaders + 1 ELSE vaultHeader
        key == IF mistyped THEN WrongKey ELSE Derived(header)
    IN  /\ vaultMode = "onboarding" /\ header <= MaxHeaders
        /\ IF Kept # {} /\ Opens(key)
           THEN Hydrate(key, key)
           ELSE /\ vaultMemory' = NoKey /\ vaultId' = key
                /\ vaultHeader' = header
                /\ vaultHeaders' = IF vaultHeader = 0 THEN header ELSE vaultHeaders
                /\ UNCHANGED <<vaultMode, vaultSession, vaultStored>>
        /\ vaultHarm' = IF Opens(key) THEN vaultHarm \ {"another start key"}
                                      ELSE vaultHarm \union {"another start key"}
        /\ OldKeyLost
        /\ UNCHANGED pinVars

\* Slip: the record stays when the PIN is marked for a reset.
PinOnlyMarked == vaultPin' = vaultPin /\ vaultReset' = TRUE

\* clearPinRecord.
PinForgotten == vaultPin' = NoKey /\ vaultReset' = TRUE

\* Slip: the key that the PIN seals is not compared with the vault's.
PinFitsAnyVault == vaultPin # NoKey

\* handlePinUnlock with the right PIN.
PinFits == Matches(vaultId, vaultPin)

PinUnlock ==
    /\ vaultMode = "locked" /\ vaultPin # NoKey
    /\ \/ /\ PinFits
          /\ Hydrate(vaultId, vaultPin)
          /\ OldKeyLost
          /\ UNCHANGED pinVars
       \/ /\ ~PinFits
          /\ PinForgotten
          /\ UNCHANGED <<vaultMode, vaultMemory, databaseVars, vaultSession, rotation>>
    /\ UNCHANGED vaultHarm

\* "Reset with the start key", offered when the PIN record is gone.
UseStartKey ==
    /\ vaultMode = "locked" /\ vaultPin = NoKey
    /\ PinForgotten /\ vaultMode' = "onboarding"
    /\ UNCHANGED <<vaultMemory, databaseVars, vaultSession, rotation, vaultHarm>>

\* handleLock (also when the window is hidden and shown again) and handleLogout.
Locks(screen) ==
    /\ vaultMode = "app"
    /\ ClosedTo(screen)
    /\ OldKeyLost
    /\ LeavesRotation({"records", "key"})
    /\ UNCHANGED <<databaseVars, pinVars>>

Lock == PinUsable /\ Locks("locked")
Logout == Locks(Door)

\* handleSetPin, handleDisablePin.
SetPin ==
    /\ vaultMode = "app" /\ vaultMemory # NoKey
    /\ vaultPin' = vaultMemory /\ vaultReset' = FALSE
    /\ UNCHANGED <<vaultMode, vaultMemory, databaseVars, vaultSession, rotation, vaultHarm>>

DisablePin ==
    /\ vaultMode = "app"
    /\ vaultPin' = NoKey /\ vaultReset' = FALSE
    /\ UNCHANGED <<vaultMode, vaultMemory, databaseVars, vaultSession, rotation, vaultHarm>>

-----------------------------------------------------------------------------
(* Writing and rotating *)

\* saveProfile, saveConversation, saveMessage.  A record that the rotation
\* under way will not write again stays under the old key.
Save(r) ==
    /\ vaultMemory # NoKey /\ vaultMode = "app"
    /\ vaultStored' = [vaultStored EXCEPT ![r] = vaultMemory]
    /\ vaultHarm' = vaultHarm \union
         (IF rotation.at \in {"records", "key"} /\ r \notin rotation.left
          THEN {"saved under the old key"} ELSE {})
    /\ UNCHANGED <<vaultMode, vaultMemory, vaultHeader, vaultHeaders, vaultId, vaultSession,
                   pinVars, rotation>>

\* Slip: a table is forgotten.
ToRotateButOne == Kept \ {CHOOSE r \in VaultRecords : TRUE}

\* The records a rotation writes again: all there are when it begins.
ToRotate == Kept

\* rotateVaultKeys, up to its reading of the tables.
RotateBegins ==
    /\ vaultMode = "app" /\ vaultMemory # NoKey /\ rotation.at = "no"
    /\ vaultHeaders < MaxHeaders
    /\ vaultHeaders' = vaultHeaders + 1
    /\ rotation' = [at |-> "records", left |-> ToRotate, intact |-> TRUE,
                    foreign |-> {r \in Kept : vaultStored[r] # vaultMemory},
                    key |-> Derived(vaultHeaders')]
    /\ UNCHANGED <<vaultMode, vaultMemory, vaultHeader, vaultId, vaultStored, vaultSession,
                   pinVars, vaultHarm>>

\* One record: what was read at the beginning is written under the new key,
\* unless the old one no longer decrypts it.
RotateRecord(r) ==
    /\ rotation.at = "records" /\ r \in rotation.left
    /\ IF rotation.intact /\ r \notin rotation.foreign
       THEN /\ vaultStored' = [vaultStored EXCEPT ![r] = rotation.key]
            /\ rotation' = [rotation EXCEPT !.left = @ \ {r}]
            /\ vaultHarm' = vaultHarm
       ELSE /\ rotation' = NotRotating /\ vaultStored' = vaultStored
            /\ LeavesRotation({"records"})
    /\ UNCHANGED <<vaultMode, vaultMemory, vaultHeader, vaultHeaders, vaultId, vaultSession,
                   pinVars>>

\* The new header, once every record is written.
RotateHeader ==
    /\ rotation.at = "records" /\ rotation.left = {}
    /\ vaultHeader' = rotation.key[2]
    /\ rotation' = [rotation EXCEPT !.at = "key"]
    /\ UNCHANGED <<vaultMode, vaultMemory, vaultHeaders, vaultId, vaultStored, vaultSession,
                   pinVars, vaultHarm>>

\* The new key in memory, with its identifier.
RotateKey ==
    /\ rotation.at = "key"
    /\ vaultMemory' = rotation.key /\ vaultId' = rotation.key
    /\ rotation' = [rotation EXCEPT !.at = "session", !.intact = FALSE]
    /\ UNCHANGED <<vaultMode, vaultHeader, vaultHeaders, vaultStored, vaultSession, pinVars,
                   vaultHarm>>

\* handleRotateStartKey: the session, if the vault is still open, and the PIN.
RotateEnds ==
    /\ rotation.at = "session"
    /\ vaultSession' = IF vaultMemory # NoKey THEN vaultMemory ELSE vaultSession
    /\ PinForgotten
    /\ rotation' = NotRotating
    /\ UNCHANGED <<vaultMode, vaultMemory, databaseVars, vaultHarm>>

-----------------------------------------------------------------------------
(* Starting again *)

\* The app ends, at any point, and boots: a usable PIN asks for it, a stored
\* session opens the vault.
Restart ==
    /\ LeavesRotation({"records", "key", "session"})
    /\ IF vaultHeader # 0 /\ ~PinUsable /\ vaultSession # NoKey
       THEN Hydrate(vaultId, vaultSession)
       ELSE /\ vaultMode' = IF vaultHeader = 0 THEN "onboarding" ELSE Door
            /\ vaultMemory' = NoKey
            /\ UNCHANGED <<databaseVars, vaultSession>>
    /\ rotation' = NotRotating
    /\ UNCHANGED pinVars

\* The user deletes the data: in the settings, or at the lock screen, which
\* leaves the PIN record.
Wipe ==
    /\ vaultMode \in {"app", "locked"}
    /\ Emptied
    /\ vaultMode' = "onboarding" /\ vaultMemory' = NoKey /\ vaultSession' = NoKey
    /\ rotation' = NotRotating /\ vaultHarm' = {}
    /\ IF vaultMode = "app" THEN vaultPin' = NoKey /\ vaultReset' = FALSE ELSE UNCHANGED pinVars

VaultNext ==
    \/ Create \/ CreateEnds
    \/ \E mistyped \in BOOLEAN : StartKeyUnlock(mistyped)
    \/ PinUnlock \/ UseStartKey \/ Lock \/ Logout \/ SetPin \/ DisablePin
    \/ \E r \in VaultRecords : Save(r) \/ RotateRecord(r)
    \/ RotateBegins \/ RotateHeader \/ RotateKey \/ RotateEnds
    \/ Restart \/ Wipe

VaultSpec == VaultInit /\ [][VaultNext]_vaultVars

-----------------------------------------------------------------------------
(* Properties *)

\* Every part of the vault's state is of the kind its comment says; a usable
\* PIN seals a key and the PIN that must be set again does not.
VaultTypeOK ==
    /\ vaultMode \in {"onboarding", "creating", "locked", "app"}
    /\ {vaultMemory, vaultId, vaultSession, vaultPin} \subseteq VaultKeys
    /\ vaultHeader \in 0..vaultHeaders /\ vaultHeaders \in 0..MaxHeaders
    /\ vaultStored \in [VaultRecords -> VaultKeys \ {WrongKey}]
    /\ vaultReset \in BOOLEAN /\ (vaultReset => vaultPin = NoKey)
    /\ rotation.at \in {"no", "records", "key", "session"}
    /\ rotation.left \subseteq VaultRecords /\ rotation.foreign \subseteq VaultRecords
    /\ rotation.intact \in BOOLEAN /\ rotation.key \in VaultKeys
    /\ vaultHarm \subseteq {"left a rotation", "another start key", "saved under the old key"}

\* Unless a rotation is under way, was left, or a record was saved behind
\* it, all records are under one key, and it is the key of the open vault:
\* rotateVaultKeys writes every table that hydrateVault reads.
OneKey ==
    (vaultMode = "app" /\ rotation.at = "no"
     /\ vaultHarm \intersect {"left a rotation", "saved under the old key"} = {})
        => \A r \in Kept : vaultStored[r] = vaultMemory

\* hydrateVault resets a vault that has records only after a rotation that
\* was left, a start key that was not this vault's, or a save behind a
\* rotation; never because a PIN or a session is older than the vault.
ResetHasCause ==
    [][Kept # {} /\ Kept' = {} /\ ~Create /\ ~Wipe => vaultHarm' # {}]_vaultVars

\* At the lock screen no key is in memory, on whatever path it was reached,
\* unless a rotation outlived the lock.
LockedIsClosed ==
    vaultMode = "locked" /\ "left a rotation" \notin vaultHarm => vaultMemory = NoKey

\* What the logout dialog says: the session ends and the local data stay.
\* They do if the PIN or the start key still opens them.
LogoutKeepsData ==
    [][Logout => Opens(vaultPin) \/ Opens(Derived(vaultHeader))]_vaultVars

\* The records, the header and the keys in memory agree over rotations, locks and logouts.
VaultSound == VaultTypeOK /\ OneKey /\ LockedIsClosed
=============================================================================
