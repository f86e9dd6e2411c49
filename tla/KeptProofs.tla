------------------------------ MODULE KeptProofs ------------------------------
(***************************************************************************)
(* Proofs about what a device keeps: the keys of its vault (Vault), the    *)
(* versions of its Tor component (OnionInstall), what waits in its outbox  *)
(* for a transport (Router), the keys of a conversation (Conversation),    *)
(* which devices it has paired with (DevicePairing) and how two of them    *)
(* connect (DirectLink), the transport of a conversation                   *)
(* (ConversationLink) and the files sent in one (MediaTransfer).  The      *)
(* theorems about the last four are about the specification that MCKept    *)
(* runs, the others about their component's own.                           *)
(***************************************************************************)
EXTENDS MCKept, FiniteSetTheorems, SequenceTheorems, TLAPS

-----------------------------------------------------------------------------
(***************************************************************************)
(* The vault (Vault).                                                      *)
(***************************************************************************)

\* No rotation was left behind, and nothing was saved behind one.
Whole == vaultHarm \intersect {"left a rotation", "saved under the old key"} = {}
NotLeft == "left a rotation" \notin vaultHarm
Rotating == rotation.at \in {"records", "key"}

Rotations == [at : {"no", "records", "key", "session"}, left : SUBSET VaultRecords,
              foreign : SUBSET VaultRecords, intact : BOOLEAN, key : VaultKeys]

RotationInv ==
    /\ rotation \in Rotations
    /\ rotation.at # "no" => \E h \in 1..vaultHeaders : rotation.key = Derived(h)
    /\ rotation.at = "key" => rotation.left = {}

\* A key that may become a record's is not that of another start key.
KeyInv ==
    /\ WrongKey \notin {vaultMemory, vaultSession, vaultPin}
    /\ vaultMode = "app" => Kept # {}
    /\ vaultMode = "creating" => vaultMemory # NoKey

\* A rotation that was not left goes on in an open vault; a closed one has no key.
OpenVault ==
    NotLeft =>
        /\ Rotating => vaultMode = "app"
        /\ vaultMode \in {"onboarding", "locked"} => vaultMemory = NoKey

\* The key that each record is under, before, in and after a rotation.
RecordInv ==
    Whole =>
        /\ vaultMode = "app" /\ ~Rotating => Opens(vaultMemory)
        /\ rotation.at = "records" =>
               /\ rotation.foreign = {}
               /\ \A r \in Kept : \/ vaultStored[r] = rotation.key
                                  \/ r \in rotation.left /\ vaultStored[r] = vaultMemory
        /\ rotation.at = "key" => Opens(rotation.key)

\* Without a harm the vault's identifier is that of the key of its records, and so is the
\* key of a session.
IdInv ==
    vaultHarm = {} =>
        /\ vaultMode = "creating" =>
               rotation.at = "no" /\ vaultId = vaultMemory /\ Opens(vaultMemory)
        /\ Kept # {} /\ ~Rotating => vaultId # NoKey /\ Opens(vaultId)
        /\ Kept # {} /\ rotation.at = "no" => vaultSession \in {NoKey, vaultId}
        /\ Kept # {} /\ rotation.at = "session" =>
               vaultSession \in {NoKey, vaultId} \/ vaultMemory = vaultId

VaultInv == VaultTypeOK /\ RotationInv /\ KeyInv /\ OpenVault /\ RecordInv /\ IdInv

LEMMA KeyFacts ==
    /\ NoKey \in VaultKeys /\ WrongKey \in VaultKeys /\ NoKey # WrongKey
    /\ \A h \in 1..MaxHeaders :
           /\ Derived(h) \in VaultKeys /\ Random(h) \in VaultKeys
           /\ Derived(h) \notin {NoKey, WrongKey} /\ Random(h) \notin {NoKey, WrongKey}
           /\ Derived(h)[2] = h
  BY DEF NoKey, WrongKey, VaultKeys, Derived, Random

\* What clearing the old key and ending a rotation do to the rotation.
LEMMA RotationFacts ==
    /\ NotRotating \in Rotations /\ NotRotating.at = "no"
    /\ \A rot \in Rotations :
           LET lost == [rot EXCEPT !.intact = FALSE]
           IN  /\ lost \in Rotations
               /\ lost.at = rot.at /\ lost.left = rot.left /\ lost.foreign = rot.foreign
               /\ lost.key = rot.key
<1>1. FALSE \in BOOLEAN  BY Zenon
<1>2. ASSUME NEW b \in BOOLEAN
      PROVE  [at |-> "no", left |-> {}, foreign |-> {}, intact |-> b, key |-> NoKey] \in Rotations
  BY KeyFacts DEF Rotations
<1>3. NotRotating \in Rotations  BY <1>1, <1>2, Zenon DEF NotRotating
<1>4. NotRotating.at = "no"  BY DEF NotRotating
<1>5. ASSUME NEW rot \in Rotations, NEW b \in BOOLEAN
      PROVE  LET lost == [rot EXCEPT !.intact = b]
             IN  /\ lost \in Rotations
                 /\ lost.at = rot.at /\ lost.left = rot.left /\ lost.foreign = rot.foreign
                 /\ lost.key = rot.key
  BY DEF Rotations
<1> QED  BY <1>1, <1>3, <1>4, <1>5, Zenon

\* The rotation after a step that leaves it, or only loses its old key.
Lost == /\ rotation' \in Rotations
        /\ rotation'.at = rotation.at /\ rotation'.left = rotation.left
        /\ rotation'.foreign = rotation.foreign /\ rotation'.key = rotation.key
LeftRotation == rotation' \in Rotations /\ rotation'.at = "no"

LEMMA OldKeyIsLost == ASSUME RotationInv, OldKeyLost PROVE Lost
  BY RotationFacts, Zenon DEF RotationInv, OldKeyLost, Lost

LEMMA RotationEnds == ASSUME rotation' = NotRotating PROVE LeftRotation
  BY RotationFacts, Zenon DEF LeftRotation

HarmOK == vaultHarm \subseteq {"left a rotation", "another start key", "saved under the old key"}

\* The rest of VaultTypeOK.
RestTypes ==
    /\ vaultMode \in {"onboarding", "creating", "locked", "app"}
    /\ vaultMemory \in VaultKeys /\ vaultId \in VaultKeys
    /\ vaultSession \in VaultKeys /\ vaultPin \in VaultKeys
    /\ vaultHeader \in 0..vaultHeaders /\ vaultHeaders \in 0..MaxHeaders
    /\ vaultStored \in [VaultRecords -> VaultKeys \ {WrongKey}]
    /\ vaultReset \in BOOLEAN
    /\ vaultReset => vaultPin = NoKey
    /\ HarmOK

LEMMA TypesAre == ASSUME VaultTypeOK PROVE RestTypes
  BY DEF VaultTypeOK, RestTypes, HarmOK

LEMMA TypesWillBe == ASSUME rotation' \in Rotations, RestTypes' PROVE VaultTypeOK'
  BY DEF VaultTypeOK, Rotations, RestTypes, HarmOK

\* What opening the vault comes to.
VaultOpened(id, key) ==
    /\ Matches(id, key) /\ Opens(key) /\ Kept # {}
    /\ vaultMemory' = key /\ vaultSession' = key /\ vaultMode' = "app" /\ vaultId' = id
    /\ UNCHANGED <<vaultHeader, vaultHeaders, vaultStored>>
NothingThere(id) ==
    /\ Kept = {}
    /\ vaultMemory' = NoKey /\ vaultSession' = NoKey /\ vaultMode' = "onboarding"
    /\ vaultId' = id
    /\ UNCHANGED <<vaultHeader, vaultHeaders, vaultStored>>
ResetDb ==
    /\ vaultMemory' = NoKey /\ vaultSession' = NoKey
    /\ vaultMode' \in {"locked", "onboarding"}
    /\ vaultHeader' = 0 /\ vaultId' = NoKey /\ vaultHeaders' = vaultHeaders
    /\ vaultStored' = [r \in VaultRecords |-> NoKey]

LEMMA Hydrated ==
    ASSUME NEW id, NEW key, Hydrate(id, key)
    PROVE  \/ VaultOpened(id, key)
           \/ NothingThere(id)
           \/ ResetDb /\ ~(Matches(id, key) /\ Opens(key))
<1>1. CASE Matches(id, key) /\ Opens(key)
  BY <1>1 DEF Hydrate, ClosedTo, VaultOpened, NothingThere
<1>2. CASE ~(Matches(id, key) /\ Opens(key))
  BY <1>2 DEF Hydrate, ClosedTo, Emptied, Door, ResetDb
<1> QED  BY <1>1, <1>2

\* The records stay what they are, and all of them.
LEMMA SameRecords ==
    ASSUME UNCHANGED vaultStored
    PROVE  Kept' = Kept /\ \A key : (Opens(key))' <=> Opens(key')
  BY DEF Kept, Opens

LEMMA NoRecords ==
    ASSUME vaultStored' = [r \in VaultRecords |-> NoKey]
    PROVE  Kept' = {}
  BY DEF Kept

\* A vault that is opened while no rotation goes on in it, by a key that may be a record's, keeps
\* the invariant.
LEMMA HydrateKeeps ==
    ASSUME VaultInv, NEW id \in VaultKeys, NEW key \in VaultKeys \ {WrongKey}, Hydrate(id, key),
           Lost \/ LeftRotation, NotLeft' => ~Rotating',
           vaultHarm' = {} /\ Kept # {} => id # NoKey,
           HarmOK',
           UNCHANGED pinVars
    PROVE  VaultInv'
<1>1. RestTypes /\ NoKey \in VaultKeys /\ NoKey # WrongKey
  BY TypesAre, KeyFacts DEF VaultInv
<1>2. RestTypes'
  <2>1. vaultReset' \in BOOLEAN /\ (vaultReset' => vaultPin' = NoKey) /\ vaultPin' \in VaultKeys
    BY <1>1, Zenon DEF RestTypes, pinVars
  <2>2. CASE VaultOpened(id, key) \/ NothingThere(id)
    BY <1>1, <2>1, <2>2 DEF RestTypes, VaultOpened, NothingThere
  <2>3. CASE ResetDb
    <3>1. vaultHeader' \in 0..vaultHeaders' /\ vaultHeaders' \in 0..MaxHeaders
      <4>1. vaultHeaders \in 0..MaxHeaders  BY <1>1, Zenon DEF RestTypes
      <4>2. vaultHeader' = 0 /\ vaultHeaders' = vaultHeaders  BY <2>3 DEF ResetDb
      <4>3. 0 \in 0..vaultHeaders  BY <4>1, VaultAssumption DEF VaultAssumption
      <4> QED  BY <4>1, <4>2, <4>3
    <3>2. vaultStored' \in [VaultRecords -> VaultKeys \ {WrongKey}]
      BY <1>1, <2>3 DEF ResetDb
    <3>3. /\ vaultMemory' \in VaultKeys /\ vaultId' \in VaultKeys /\ vaultSession' \in VaultKeys
          /\ vaultMode' \in {"onboarding", "creating", "locked", "app"}
      BY <1>1, <2>3 DEF ResetDb
    <3> QED  BY <2>1, <3>1, <3>2, <3>3 DEF RestTypes
  <2> QED  BY <2>2, <2>3, Hydrated
<1>3. rotation' \in Rotations /\ (Lost \/ LeftRotation)  BY DEF Lost, LeftRotation
<1>4. VaultTypeOK'  BY <1>2, <1>3, TypesWillBe, Zenon
<1>5. vaultHeaders' = vaultHeaders  BY Hydrated DEF VaultOpened, NothingThere, ResetDb
<1>6. RotationInv'  BY <1>3, <1>5 DEF VaultInv, RotationInv, Lost, LeftRotation
<1>7. Whole' => NotLeft'  BY DEF Whole, NotLeft
<1>8. vaultHarm' = {} => NotLeft'  BY DEF NotLeft
<1>9. WrongKey \notin {vaultMemory', vaultSession', vaultPin'}
  BY <1>1, Hydrated DEF VaultOpened, NothingThere, ResetDb, VaultInv, KeyInv, pinVars
<1>10. CASE VaultOpened(id, key)
  <2>1. Kept' = Kept /\ Kept # {} /\ vaultMemory' = key /\ vaultMode' = "app"
    BY <1>10, SameRecords DEF VaultOpened
  <2>2. \A r \in Kept' : vaultStored'[r] = key  BY <1>10, <2>1 DEF VaultOpened, Opens
  <2>3. KeyInv'  BY <1>9, <2>1 DEF KeyInv
  <2>4. OpenVault'  BY <2>1 DEF OpenVault
  <2>5. RecordInv'  BY <1>7, <2>1, <2>2 DEF RecordInv, Opens, Rotating
  <2>6. vaultHarm' = {} => vaultId' = key /\ vaultId' # NoKey /\ vaultSession' = key
    BY <1>10, <2>1 DEF VaultOpened, Matches
  <2>7. IdInv'  BY <2>1, <2>2, <2>6 DEF IdInv, Opens
  <2> QED  BY <1>4, <1>6, <2>3, <2>4, <2>5, <2>7 DEF VaultInv
<1>11. CASE NothingThere(id) \/ ResetDb
  <2>1. /\ Kept' = {} /\ vaultMemory' = NoKey
        /\ vaultMode' \in {"onboarding", "locked"}
    BY <1>11, SameRecords, NoRecords DEF NothingThere, ResetDb
  <2>2. KeyInv'  BY <1>9, <2>1 DEF KeyInv
  <2>3. OpenVault'  BY <2>1 DEF OpenVault
  <2>4. RecordInv'  BY <1>7, <2>1 DEF RecordInv, Rotating
  <2>5. IdInv'  BY <2>1 DEF IdInv
  <2> QED  BY <1>4, <1>6, <2>2, <2>3, <2>4, <2>5 DEF VaultInv
<1> QED  BY <1>10, <1>11, Hydrated

\* A vault that is closed or wiped keeps it too, with its records or without.
LEMMA ClosedKeeps ==
    ASSUME VaultInv, Lost \/ LeftRotation, NotLeft' => ~Rotating',
           vaultMemory' = NoKey, vaultMode' \in {"onboarding", "locked"},
           RestTypes', vaultHeaders' >= vaultHeaders,
           WrongKey \notin {vaultSession', vaultPin'},
           \/ Kept' = {}
           \/ vaultHarm' = {} =>
                  /\ Opens(vaultId)' /\ vaultId' # NoKey
                  /\ vaultSession' \in {NoKey, vaultId'}
    PROVE  VaultInv'
<1>1. NoKey # WrongKey  BY KeyFacts
<1>2. VaultTypeOK'  BY TypesWillBe, Zenon DEF Lost, LeftRotation
<1>3. RotationInv'
  <2>1. vaultHeaders \in Int /\ vaultHeaders' \in Int
    <3>1. RestTypes  BY TypesAre DEF VaultInv
    <3>2. vaultHeaders \in 0..MaxHeaders /\ vaultHeaders' \in 0..MaxHeaders
      BY <3>1, Zenon DEF RestTypes
    <3> QED  BY <3>2, VaultAssumption DEF VaultAssumption
  <2>2. \A h \in 1..vaultHeaders : h \in 1..vaultHeaders'  BY <2>1
  <2> QED  BY <2>2 DEF VaultInv, RotationInv, Lost, LeftRotation
<1>4. Whole' => NotLeft'  BY DEF Whole, NotLeft
<1>5. vaultHarm' = {} => NotLeft'  BY DEF NotLeft
<1>6. KeyInv'  BY <1>1 DEF KeyInv
<1>7. OpenVault'  BY DEF OpenVault
<1>8. RecordInv'  BY <1>4 DEF RecordInv, Rotating
<1>9. IdInv'  BY <1>5 DEF IdInv
<1> QED  BY <1>2, <1>3, <1>6, <1>7, <1>8, <1>9 DEF VaultInv

\* The steps that open, close or wipe a vault.
LEMMA OpenSteps ==
    ASSUME VaultInv,
           \/ Create \/ CreateEnds \/ \E mistyped \in BOOLEAN : StartKeyUnlock(mistyped)
           \/ PinUnlock \/ UseStartKey \/ Lock \/ Logout \/ Restart \/ Wipe
    PROVE  VaultInv'
<1> USE VaultAssumption DEF VaultAssumption
<1>0. /\ RestTypes /\ NoKey \in VaultKeys /\ WrongKey \in VaultKeys /\ NoKey # WrongKey
      /\ RotationInv /\ rotation \in Rotations
  BY TypesAre, KeyFacts DEF VaultInv, RotationInv
<1>h. vaultHeader \in 0..vaultHeaders /\ vaultHeaders \in 0..MaxHeaders
  BY <1>0, Zenon DEF RestTypes
<1>p. /\ vaultReset \in BOOLEAN /\ (vaultReset => vaultPin = NoKey) /\ vaultPin \in VaultKeys
      /\ HarmOK
  BY <1>0, Zenon DEF RestTypes
<1>k. /\ vaultMemory \in VaultKeys /\ vaultId \in VaultKeys /\ vaultSession \in VaultKeys
      /\ vaultStored \in [VaultRecords -> VaultKeys \ {WrongKey}]
      /\ vaultMode \in {"onboarding", "creating", "locked", "app"}
  BY <1>0, Zenon DEF RestTypes
<1>w. WrongKey \notin {vaultMemory, vaultSession, vaultPin}  BY DEF VaultInv, KeyInv
<1>1. CASE Create
  <2> DEFINE key == Random(vaultHeaders + 1)
  <2>1. /\ vaultMode = "onboarding" /\ vaultHeaders' = vaultHeaders + 1
        /\ vaultHeaders < MaxHeaders /\ vaultHeader' = vaultHeaders'
        /\ vaultMemory' = key /\ vaultId' = key /\ vaultSession' = NoKey
        /\ vaultMode' = "creating"
    BY <1>1 DEF Create
  <2>a. vaultHeaders + 1 \in 1..MaxHeaders /\ vaultHeaders' \in 1..MaxHeaders
    <3>1. vaultHeaders < MaxHeaders /\ vaultHeaders' = vaultHeaders + 1  BY <2>1, Zenon
    <3> QED  BY <1>h, <3>1
  <2>2. key \in VaultKeys /\ key \notin {NoKey, WrongKey}  BY <2>a, KeyFacts
  <2>3. PICK seeded \in SUBSET VaultRecords :
            vaultStored' = [r \in VaultRecords |-> IF r \in seeded THEN key ELSE NoKey]
    BY <1>1, <2>1 DEF Create
  <2>4. Lost /\ UNCHANGED pinVars  BY <1>0, <1>1, OldKeyIsLost DEF Create
  <2>5. vaultHarm' = IF rotation.at = "no" THEN {} ELSE {"left a rotation"}
    BY <1>1 DEF Create
  <2>6. HarmOK'  BY <2>5 DEF HarmOK
  <2> HIDE DEF key
  <2>7. vaultStored' \in [VaultRecords -> VaultKeys \ {WrongKey}]  BY <1>0, <2>2, <2>3
  <2>8. vaultReset' \in BOOLEAN /\ (vaultReset' => vaultPin' = NoKey) /\ vaultPin' = vaultPin
    BY <1>p, <2>4, Zenon DEF pinVars
  <2>9. RestTypes'  BY <1>0, <1>p, <2>a, <2>1, <2>2, <2>6, <2>7, <2>8 DEF RestTypes
  <2>10. VaultTypeOK'  BY <2>4, <2>9, TypesWillBe DEF Lost
  <2>11. RotationInv'
    <3>1. \A h \in 1..vaultHeaders : h \in 1..vaultHeaders'  BY <1>h, <2>1
    <3> QED  BY <1>0, <2>4, <3>1 DEF RotationInv, Lost
  <2>12. NotLeft' => rotation'.at = "no"  BY <2>4, <2>5 DEF NotLeft, Lost
  <2>13. Whole' => NotLeft'  BY DEF Whole, NotLeft
  <2>14. \A r \in Kept' : vaultStored'[r] = key  BY <2>3 DEF Kept
  <2>15. KeyInv'  BY <1>0, <1>w, <2>1, <2>2, <2>8 DEF KeyInv
  <2>16. OpenVault'  BY <2>1, <2>12 DEF OpenVault, Rotating
  <2>17. RecordInv'  BY <2>1, <2>12, <2>13 DEF RecordInv, Rotating
  <2>18. vaultHarm' = {} => NotLeft'  BY DEF NotLeft
  <2>19. IdInv'  BY <2>1, <2>2, <2>12, <2>14, <2>18 DEF IdInv, Opens
  <2> QED  BY <2>10, <2>11, <2>15, <2>16, <2>17, <2>19 DEF VaultInv
<1>2. CASE CreateEnds
  <2>1. /\ vaultMode = "creating" /\ Lost /\ UNCHANGED pinVars /\ vaultHarm' = vaultHarm
    BY <1>0, <1>2, OldKeyIsLost DEF CreateEnds
  <2>2. ~Rotating' \/ ~NotLeft'
    BY <2>1 DEF VaultInv, OpenVault, Rotating, NotLeft, Lost
  <2>3. HarmOK'  BY <1>p, <2>1 DEF HarmOK
  <2>4. CASE Hydrate(vaultId, vaultMemory)
    <3>1. vaultHarm' = {} => vaultId # NoKey  BY <2>1 DEF VaultInv, IdInv, KeyInv
    <3> QED  BY <1>k, <1>w, <2>1, <2>2, <2>3, <2>4, <3>1, HydrateKeeps
  <2>5. CASE /\ vaultMemory' = NoKey /\ vaultMode' = "onboarding"
             /\ UNCHANGED <<databaseVars, vaultSession>>
    <3>1. UNCHANGED <<vaultHeader, vaultHeaders, vaultId, vaultStored, vaultSession>>
      BY <2>5 DEF databaseVars
    <3>2. vaultReset' \in BOOLEAN /\ (vaultReset' => vaultPin' = NoKey) /\ vaultPin' = vaultPin
      BY <1>p, <2>1, Zenon DEF pinVars
    <3>3. RestTypes'  BY <1>0, <1>h, <1>k, <1>p, <2>3, <2>5, <3>1, <3>2 DEF RestTypes
    <3>4. \/ Kept' = {}
          \/ vaultHarm' = {} =>
                 Opens(vaultId)' /\ vaultId' # NoKey /\ vaultSession' \in {NoKey, vaultId'}
      <4>1. Kept' = Kept /\ (Opens(vaultId)' <=> Opens(vaultId))  BY <3>1 DEF Kept, Opens
      <4>2. vaultHarm = {} => rotation.at = "no"  BY <2>1 DEF VaultInv, IdInv
      <4> QED  BY <2>1, <3>1, <4>1, <4>2 DEF VaultInv, IdInv, Rotating
    <3>5. vaultHeaders' >= vaultHeaders  BY <1>h, <3>1
    <3> QED  BY <1>w, <2>1, <2>2, <2>5, <3>1, <3>2, <3>3, <3>4, <3>5, ClosedKeeps
  <2> QED  BY <1>2, <2>4, <2>5 DEF CreateEnds
<1>3. ASSUME NEW mistyped \in BOOLEAN, StartKeyUnlock(mistyped) PROVE VaultInv'
  <2> DEFINE header == IF vaultHeader = 0 THEN vaultHeaders + 1 ELSE vaultHeader
             key == IF mistyped THEN WrongKey ELSE Derived(header)
  <2>1. /\ vaultMode = "onboarding" /\ header <= MaxHeaders /\ Lost /\ UNCHANGED pinVars
        /\ vaultHarm' = IF Opens(key) THEN vaultHarm \ {"another start key"}
                                      ELSE vaultHarm \union {"another start key"}
    BY <1>0, <1>3, OldKeyIsLost DEF StartKeyUnlock
  <2>2. header \in 1..MaxHeaders
    <3>1. header <= MaxHeaders  BY <2>1, Zenon
    <3> QED  BY <1>h, <3>1
  <2>3. key \in VaultKeys /\ key # NoKey
    BY <1>0, <2>2, KeyFacts
  <2>4. HarmOK'  BY <1>p, <2>1 DEF HarmOK
  <2>5. ~Rotating' \/ ~NotLeft'
    BY <2>1 DEF VaultInv, OpenVault, Rotating, NotLeft, Lost
  <2>6. CASE Kept # {} /\ Opens(key)
    <3>1. Hydrate(key, key)  BY <1>3, <2>6 DEF StartKeyUnlock
    <3>2. key # WrongKey  BY <1>k, <2>6 DEF Kept, Opens
    <3> HIDE DEF key
    <3> QED  BY <2>1, <2>3, <2>4, <2>5, <3>1, <3>2, HydrateKeeps
  <2>7. CASE ~(Kept # {} /\ Opens(key))
    <3>1. /\ vaultMemory' = NoKey /\ vaultId' = key /\ vaultHeader' = header
          /\ vaultHeaders' = IF vaultHeader = 0 THEN header ELSE vaultHeaders
          /\ UNCHANGED <<vaultMode, vaultSession, vaultStored>>
      BY <1>3, <2>7 DEF StartKeyUnlock
    <3>2. vaultHeader' \in 0..vaultHeaders' /\ vaultHeaders' \in 0..MaxHeaders
          /\ vaultHeaders' >= vaultHeaders
      BY <1>h, <2>2, <3>1
    <3> HIDE DEF key, header
    <3>3. vaultReset' \in BOOLEAN /\ (vaultReset' => vaultPin' = NoKey) /\ vaultPin' = vaultPin
      BY <1>p, <2>1, Zenon DEF pinVars
    <3>4. RestTypes'
      BY <1>0, <1>k, <1>p, <2>3, <2>4, <3>1, <3>2, <3>3 DEF RestTypes
    <3>5. Kept' = {} \/ vaultHarm' # {}
      <4>1. Kept' = Kept  BY <3>1 DEF Kept
      <4> QED  BY <2>1, <2>7, <4>1
    <3> QED  BY <1>w, <2>1, <2>5, <3>1, <3>2, <3>3, <3>4, <3>5, ClosedKeeps
  <2> QED  BY <2>6, <2>7
<1>4. CASE PinUnlock
  <2>1. vaultMode = "locked" /\ vaultHarm' = vaultHarm  BY <1>4 DEF PinUnlock
  <2>2. HarmOK'  BY <1>p, <2>1 DEF HarmOK
  <2>3. CASE PinFits /\ Hydrate(vaultId, vaultPin) /\ OldKeyLost /\ UNCHANGED pinVars
    <3>1. Lost  BY <1>0, <2>3, OldKeyIsLost
    <3>2. ~Rotating' \/ ~NotLeft'
      BY <2>1, <3>1 DEF VaultInv, OpenVault, Rotating, NotLeft, Lost
    <3>3. vaultHarm' = {} /\ Kept # {} => vaultId # NoKey
      BY <2>1 DEF VaultInv, IdInv, OpenVault, NotLeft
    <3> QED  BY <1>k, <1>p, <1>w, <2>2, <2>3, <3>1, <3>2, <3>3, HydrateKeeps
  <2>4. CASE ~PinFits /\ PinForgotten
             /\ UNCHANGED <<vaultMode, vaultMemory, databaseVars, vaultSession, rotation>>
    <3>1. UNCHANGED <<vaultHeader, vaultHeaders, vaultId, vaultStored>>
      BY <2>4 DEF databaseVars
    <3>2. vaultReset' \in BOOLEAN /\ vaultPin' = NoKey  BY <2>4, Zenon DEF PinForgotten
    <3>3. RestTypes'  BY <1>0, <1>h, <1>k, <2>2, <2>4, <3>1, <3>2 DEF RestTypes
    <3>4. VaultTypeOK'  BY <1>0, <2>4, <3>3, TypesWillBe
    <3>5. Kept' = Kept /\ \A key : Opens(key)' <=> Opens(key')  BY <3>1, SameRecords
    <3> QED
      BY <1>0, <2>1, <2>4, <3>1, <3>2, <3>4, <3>5 DEF VaultInv, RotationInv, KeyInv, OpenVault,
         RecordInv, IdInv, Rotating, Whole, NotLeft, Opens
  <2> QED  BY <1>4, <2>3, <2>4 DEF PinUnlock
<1>5. CASE UseStartKey
  <2>1. /\ vaultMode = "locked" /\ vaultMode' = "onboarding"
        /\ UNCHANGED <<vaultMemory, databaseVars, vaultSession, rotation, vaultHarm>>
    BY <1>5 DEF UseStartKey
  <2>2. UNCHANGED <<vaultHeader, vaultHeaders, vaultId, vaultStored>>  BY <2>1 DEF databaseVars
  <2>3. vaultReset' \in BOOLEAN /\ vaultPin' = NoKey  BY <1>5, Zenon DEF UseStartKey, PinForgotten
  <2>4. HarmOK'  BY <1>p, <2>1 DEF HarmOK
  <2>5. RestTypes'  BY <1>0, <1>h, <1>k, <2>1, <2>2, <2>3, <2>4 DEF RestTypes
  <2>6. VaultTypeOK'  BY <1>0, <2>1, <2>5, TypesWillBe
  <2> QED
    BY <1>0, <2>1, <2>2, <2>3, <2>6 DEF VaultInv, RotationInv, KeyInv, OpenVault,
       RecordInv, IdInv, Rotating, Whole, NotLeft, Opens, Kept
<1>6. CASE Lock \/ Logout
  <2>1. PICK screen \in {"locked", "onboarding"} : Locks(screen)
    BY <1>6 DEF Lock, Logout, Door
  <2>2. /\ vaultMode = "app" /\ vaultMode' = screen /\ vaultMemory' = NoKey /\ vaultSession' = NoKey
        /\ Lost /\ UNCHANGED databaseVars /\ UNCHANGED pinVars
        /\ vaultHarm' = vaultHarm \union
               (IF rotation.at \in {"records", "key"} THEN {"left a rotation"} ELSE {})
    BY <1>0, <2>1, OldKeyIsLost DEF Locks, ClosedTo, LeavesRotation
  <2>3. UNCHANGED <<vaultHeader, vaultHeaders, vaultId, vaultStored>>  BY <2>2 DEF databaseVars
  <2>4. HarmOK'  BY <1>p, <2>2 DEF HarmOK
  <2>5. vaultReset' \in BOOLEAN /\ (vaultReset' => vaultPin' = NoKey) /\ vaultPin' = vaultPin
    BY <1>p, <2>2, Zenon DEF pinVars
  <2>6. RestTypes'  BY <1>0, <1>h, <1>k, <1>p, <2>2, <2>3, <2>4, <2>5 DEF RestTypes
  <2>7. NotLeft' => ~Rotating'  BY <2>2 DEF NotLeft, Rotating, Lost
  <2>8. \/ Kept' = {}
        \/ vaultHarm' = {} =>
               Opens(vaultId)' /\ vaultId' # NoKey /\ vaultSession' \in {NoKey, vaultId'}
    <3>1. Kept' = Kept /\ (Opens(vaultId)' <=> Opens(vaultId))  BY <2>3 DEF Kept, Opens
    <3>2. vaultHarm' = {} => vaultHarm = {} /\ ~Rotating  BY <2>2 DEF Rotating
    <3> QED  BY <2>2, <2>3, <3>1, <3>2 DEF VaultInv, IdInv
  <2>9. vaultHeaders' >= vaultHeaders  BY <1>h, <2>3
  <2> QED  BY <1>0, <1>w, <2>2, <2>5, <2>6, <2>7, <2>8, <2>9, ClosedKeeps
<1>7. CASE Restart
  <2>1. /\ LeftRotation /\ UNCHANGED pinVars
        /\ vaultHarm' = vaultHarm \union
               (IF rotation.at \in {"records", "key", "session"} THEN {"left a rotation"} ELSE {})
    BY <1>7, RotationEnds DEF Restart, LeavesRotation
  <2>2. HarmOK'  BY <1>p, <2>1 DEF HarmOK
  <2>3. ~Rotating'  BY <2>1 DEF LeftRotation, Rotating
  <2>4. vaultHarm' = {} => vaultHarm = {} /\ rotation.at = "no"
    BY <1>0, <2>1 DEF Rotations
  <2>5. CASE Hydrate(vaultId, vaultSession)
    <3>1. vaultHarm' = {} /\ Kept # {} => vaultId # NoKey
      BY <2>4 DEF VaultInv, IdInv, Rotating
    <3> QED  BY <1>k, <1>w, <2>1, <2>2, <2>3, <2>5, <3>1, HydrateKeeps
  <2>6. CASE /\ vaultMode' = IF vaultHeader = 0 THEN "onboarding" ELSE Door
             /\ vaultMemory' = NoKey
             /\ UNCHANGED <<databaseVars, vaultSession>>
    <3>1. UNCHANGED <<vaultHeader, vaultHeaders, vaultId, vaultStored, vaultSession>>
      BY <2>6 DEF databaseVars
    <3>2. vaultReset' \in BOOLEAN /\ (vaultReset' => vaultPin' = NoKey) /\ vaultPin' = vaultPin
      BY <1>p, <2>1, Zenon DEF pinVars
    <3>3. vaultMode' \in {"locked", "onboarding"}  BY <2>6 DEF Door
    <3>4. RestTypes'  BY <1>0, <1>h, <1>k, <1>p, <2>2, <2>6, <3>1, <3>2, <3>3 DEF RestTypes
    <3>5. \/ Kept' = {}
          \/ vaultHarm' = {} =>
                 Opens(vaultId)' /\ vaultId' # NoKey /\ vaultSession' \in {NoKey, vaultId'}
      <4>1. Kept' = Kept /\ (Opens(vaultId)' <=> Opens(vaultId))  BY <3>1 DEF Kept, Opens
      <4> QED  BY <2>4, <3>1, <4>1 DEF VaultInv, IdInv, Rotating
    <3>6. vaultHeaders' >= vaultHeaders  BY <1>h, <3>1
    <3> QED  BY <1>w, <2>1, <2>3, <2>6, <3>1, <3>2, <3>3, <3>4, <3>5, <3>6, ClosedKeeps
  <2> QED  BY <1>7, <2>5, <2>6 DEF Restart
<1>8. CASE Wipe
  <2>1. /\ LeftRotation /\ Emptied /\ vaultMode' = "onboarding" /\ vaultMemory' = NoKey
        /\ vaultSession' = NoKey /\ vaultHarm' = {}
    BY <1>8, RotationEnds DEF Wipe
  <2>2. /\ vaultHeader' = 0 /\ vaultId' = NoKey /\ vaultHeaders' = vaultHeaders
        /\ vaultStored' = [r \in VaultRecords |-> NoKey]
    BY <2>1 DEF Emptied
  <2>3. /\ vaultReset' \in BOOLEAN /\ (vaultReset' => vaultPin' = NoKey)
        /\ vaultPin' \in {NoKey, vaultPin}
    <3>1. CASE vaultMode = "app"
      <4>1. vaultPin' = NoKey /\ vaultReset' \in BOOLEAN  BY <1>8, <3>1, Zenon DEF Wipe
      <4> QED  BY <4>1
    <3>2. CASE vaultMode # "app"
      <4>1. UNCHANGED pinVars  BY <1>8, <3>2, Zenon DEF Wipe
      <4> QED  BY <1>p, <4>1, Zenon DEF pinVars
    <3> QED  BY <3>1, <3>2
  <2>4. HarmOK'  BY <2>1 DEF HarmOK
  <2>5. vaultStored' \in [VaultRecords -> VaultKeys \ {WrongKey}]  BY <1>0, <2>2
  <2>6. RestTypes'  BY <1>0, <1>h, <1>p, <2>1, <2>2, <2>3, <2>4, <2>5 DEF RestTypes
  <2>7. Kept' = {}  BY <2>2, NoRecords
  <2>8. ~Rotating'  BY <2>1 DEF LeftRotation, Rotating
  <2>9. vaultHeaders' >= vaultHeaders  BY <1>h, <2>2
  <2> QED  BY <1>0, <1>w, <2>1, <2>3, <2>6, <2>7, <2>8, <2>9, ClosedKeeps
<1> QED  BY <1>1, <1>2, <1>3, <1>4, <1>5, <1>6, <1>7, <1>8

\* The steps inside of an open vault, and those of a rotation.
LEMMA VaultSteps ==
    ASSUME VaultInv,
           \/ SetPin \/ DisablePin \/ \E r \in VaultRecords : Save(r) \/ RotateRecord(r)
           \/ RotateBegins \/ RotateHeader \/ RotateKey \/ RotateEnds \/ UNCHANGED vaultVars
    PROVE  VaultInv'
<1> USE VaultAssumption DEF VaultAssumption
<1>0. /\ RestTypes /\ NoKey \in VaultKeys /\ WrongKey \in VaultKeys /\ NoKey # WrongKey
      /\ RotationInv /\ rotation \in Rotations
  BY TypesAre, KeyFacts DEF VaultInv, RotationInv
<1>h. vaultHeader \in 0..vaultHeaders /\ vaultHeaders \in 0..MaxHeaders
  BY <1>0, Zenon DEF RestTypes
<1>p. /\ vaultReset \in BOOLEAN /\ (vaultReset => vaultPin = NoKey) /\ vaultPin \in VaultKeys
      /\ HarmOK
  BY <1>0, Zenon DEF RestTypes
<1>k. /\ vaultMemory \in VaultKeys /\ vaultId \in VaultKeys /\ vaultSession \in VaultKeys
      /\ vaultStored \in [VaultRecords -> VaultKeys \ {WrongKey}]
      /\ vaultMode \in {"onboarding", "creating", "locked", "app"}
  BY <1>0, Zenon DEF RestTypes
<1>w. WrongKey \notin {vaultMemory, vaultSession, vaultPin}  BY DEF VaultInv, KeyInv
<1>r. rotation.at # "no" => rotation.key \in VaultKeys /\ rotation.key \notin {NoKey, WrongKey}
  <2>1. ASSUME NEW h \in 1..vaultHeaders PROVE h \in 1..MaxHeaders  BY <1>h
  <2> QED  BY <1>0, <2>1, KeyFacts DEF RotationInv
<1>1. CASE SetPin \/ DisablePin
  <2>1. /\ UNCHANGED <<vaultMode, vaultMemory, databaseVars, vaultSession, rotation, vaultHarm>>
        /\ vaultPin' \in {NoKey, vaultMemory}
    BY <1>1 DEF SetPin, DisablePin
  <2>2. ~vaultReset' /\ vaultReset' \in BOOLEAN  BY <1>1, Zenon DEF SetPin, DisablePin
  <2>3. UNCHANGED <<vaultHeader, vaultHeaders, vaultId, vaultStored>>  BY <2>1 DEF databaseVars
  <2>4. HarmOK'  BY <1>p, <2>1 DEF HarmOK
  <2>5. RestTypes'  BY <1>0, <1>h, <1>k, <2>1, <2>2, <2>3, <2>4 DEF RestTypes
  <2>6. VaultTypeOK'  BY <1>0, <2>1, <2>5, TypesWillBe
  <2>7. RotationInv' /\ KeyInv' /\ OpenVault'
    BY <1>0, <1>w, <2>1, <2>3
    DEF VaultInv, RotationInv, KeyInv, OpenVault, Rotating, NotLeft, Kept
  <2>8. RecordInv' /\ IdInv'
    BY <1>0, <2>1, <2>3 DEF VaultInv, RecordInv, IdInv, Rotating, Whole, Opens, Kept
  <2> QED
    BY <2>6, <2>7, <2>8 DEF VaultInv
<1>2. ASSUME NEW r \in VaultRecords, Save(r) PROVE VaultInv'
  <2>1. /\ vaultMemory # NoKey /\ vaultMode = "app"
        /\ vaultStored' = [vaultStored EXCEPT ![r] = vaultMemory]
        /\ UNCHANGED <<vaultMode, vaultMemory, vaultHeader, vaultHeaders, vaultId, vaultSession,
                       pinVars, rotation>>
        /\ vaultHarm' = vaultHarm \union
             (IF rotation.at \in {"records", "key"} /\ r \notin rotation.left
              THEN {"saved under the old key"} ELSE {})
    BY <1>2 DEF Save
  <2>2. HarmOK'  BY <1>p, <2>1 DEF HarmOK
  <2>3. vaultReset' \in BOOLEAN /\ (vaultReset' => vaultPin' = NoKey) /\ vaultPin' = vaultPin
    BY <1>p, <2>1, Zenon DEF pinVars
  <2>4. vaultStored' \in [VaultRecords -> VaultKeys \ {WrongKey}]  BY <1>k, <1>w, <2>1
  <2>5. RestTypes'  BY <1>0, <1>h, <1>k, <1>p, <2>1, <2>2, <2>3, <2>4 DEF RestTypes
  <2>6. VaultTypeOK'  BY <1>0, <2>1, <2>5, TypesWillBe
  <2>7. Kept' = Kept \cup {r}  BY <1>k, <2>1 DEF Kept
  <2>a. \A x \in Kept' : IF x = r THEN vaultStored'[x] = vaultMemory
                                   ELSE x \in Kept /\ vaultStored'[x] = vaultStored[x]
    <3> TAKE x \in Kept'
    <3>1. x \in VaultRecords  BY DEF Kept
    <3>2. CASE x = r  BY <1>k, <2>1, <3>1, <3>2
    <3>3. CASE x # r  BY <1>k, <2>1, <2>7, <3>1, <3>3
    <3> QED  BY <3>2, <3>3
  <2>8. RotationInv' /\ KeyInv' /\ OpenVault'
    BY <1>0, <1>w, <2>1, <2>3, <2>7 DEF VaultInv, RotationInv, KeyInv, OpenVault, NotLeft, Rotating
  <2>9. RecordInv'
    <3> SUFFICES ASSUME Whole' PROVE RecordInv'  BY DEF RecordInv
    <3>1. Whole /\ (Rotating => r \in rotation.left)
      BY <2>1 DEF Whole, Rotating
    <3>2. rotation.at # "key"  BY <1>0, <3>1 DEF RotationInv, Rotating
    <3>3. ~Rotating => Opens(vaultMemory)  BY <2>1, <3>1 DEF VaultInv, RecordInv
    <3>4. CASE ~Rotating
      <4>1. \A x \in Kept' : vaultStored'[x] = vaultMemory
        BY <2>a, <3>3, <3>4 DEF Opens
      <4> QED  BY <2>1, <3>4, <4>1 DEF RecordInv, Opens, Rotating
    <3>5. CASE Rotating
      <4>1. rotation.at = "records"  BY <3>2, <3>5 DEF Rotating
      <4>2. /\ rotation.foreign = {}
            /\ \A x \in Kept : \/ vaultStored[x] = rotation.key
                               \/ x \in rotation.left /\ vaultStored[x] = vaultMemory
        BY <3>1, <4>1 DEF VaultInv, RecordInv
      <4>3. \A x \in Kept' : \/ vaultStored'[x] = rotation.key
                             \/ x \in rotation.left /\ vaultStored'[x] = vaultMemory
        BY <2>a, <3>1, <3>5, <4>2
      <4> QED  BY <2>1, <4>1, <4>2, <4>3 DEF RecordInv, Rotating
    <3> QED  BY <3>4, <3>5
  <2>10. IdInv'
    <3> SUFFICES ASSUME vaultHarm' = {} PROVE IdInv'  BY DEF IdInv
    <3>1. vaultHarm = {} /\ Whole  BY <2>1 DEF Whole
    <3>2. ~Rotating => Opens(vaultMemory) /\ vaultId # NoKey /\ Opens(vaultId) /\ Kept # {}
      BY <2>1, <3>1 DEF VaultInv, RecordInv, IdInv, KeyInv
    <3>3. ~Rotating => vaultId = vaultMemory  BY <3>2 DEF Opens
    <3>4. ~Rotating => \A x \in Kept' : vaultStored'[x] = vaultId
      BY <2>a, <3>2, <3>3 DEF Opens
    <3>5. Kept # {}  BY <2>1 DEF VaultInv, KeyInv
    <3> QED  BY <2>1, <3>1, <3>2, <3>4, <3>5 DEF VaultInv, IdInv, Rotating, Opens
  <2> QED  BY <2>6, <2>8, <2>9, <2>10 DEF VaultInv
<1>3. ASSUME NEW r \in VaultRecords, RotateRecord(r) PROVE VaultInv'
  <2>1. /\ rotation.at = "records" /\ r \in rotation.left
        /\ UNCHANGED <<vaultMode, vaultMemory, vaultHeader, vaultHeaders, vaultId, vaultSession,
                       pinVars>>
    BY <1>3 DEF RotateRecord
  <2>2. vaultReset' \in BOOLEAN /\ (vaultReset' => vaultPin' = NoKey) /\ vaultPin' = vaultPin
    BY <1>p, <2>1, Zenon DEF pinVars
  <2>3. CASE rotation.intact /\ r \notin rotation.foreign
    <3>1. /\ vaultStored' = [vaultStored EXCEPT ![r] = rotation.key]
          /\ rotation' = [rotation EXCEPT !.left = rotation.left \ {r}]
          /\ vaultHarm' = vaultHarm
      BY <1>3, <2>3 DEF RotateRecord
    <3>2. HarmOK'  BY <1>p, <3>1 DEF HarmOK
    <3>3. vaultStored' \in [VaultRecords -> VaultKeys \ {WrongKey}]  BY <1>k, <1>r, <2>1, <3>1
    <3>4. RestTypes'  BY <1>0, <1>h, <1>k, <1>p, <2>1, <2>2, <3>2, <3>3 DEF RestTypes
    <3>5. /\ rotation' \in Rotations /\ rotation'.at = "records"
          /\ rotation'.left = rotation.left \ {r} /\ rotation'.foreign = rotation.foreign
          /\ rotation'.key = rotation.key
      BY <1>0, <2>1, <3>1 DEF Rotations
    <3>6. VaultTypeOK'  BY <3>4, <3>5, TypesWillBe
    <3>7. Kept' = Kept \cup {r}  BY <1>k, <1>r, <2>1, <3>1 DEF Kept
    <3>8. RotationInv' /\ KeyInv' /\ OpenVault'
      BY <1>0, <1>w, <2>1, <2>2, <3>1, <3>5, <3>7 DEF VaultInv, RotationInv, KeyInv, OpenVault,
         NotLeft, Rotating
    <3>9. Whole' => Whole  BY <3>1 DEF Whole
    <3>10. Whole => \A x \in Kept' : \/ vaultStored'[x] = rotation.key
                                     \/ x \in rotation'.left /\ vaultStored'[x] = vaultMemory
      BY <1>k, <2>1, <3>1, <3>5, <3>7 DEF VaultInv, RecordInv
    <3>11. RecordInv'
      BY <2>1, <3>5, <3>9, <3>10 DEF VaultInv, RecordInv, Rotating
    <3>12. vaultHarm = {} => NotLeft  BY DEF NotLeft
    <3>13. IdInv'
      BY <2>1, <3>1, <3>5, <3>12 DEF VaultInv, IdInv, OpenVault, Rotating
    <3> QED  BY <3>6, <3>8, <3>11, <3>13 DEF VaultInv
  <2>4. CASE ~(rotation.intact /\ r \notin rotation.foreign)
    <3>1. /\ LeftRotation /\ vaultStored' = vaultStored
          /\ vaultHarm' = vaultHarm \union {"left a rotation"}
      BY <1>3, <2>1, <2>4, RotationEnds DEF RotateRecord, LeavesRotation
    <3>2. HarmOK'  BY <1>p, <3>1 DEF HarmOK
    <3>3. RestTypes'  BY <1>0, <1>h, <1>k, <1>p, <2>1, <2>2, <3>1, <3>2 DEF RestTypes
    <3>4. VaultTypeOK'  BY <3>1, <3>3, TypesWillBe DEF LeftRotation
    <3>5. ~NotLeft' /\ ~Whole' /\ vaultHarm' # {}  BY <3>1 DEF NotLeft, Whole
    <3>6. Kept' = Kept  BY <3>1 DEF Kept
    <3> QED
      BY <1>w, <2>1, <2>2, <3>1, <3>4, <3>5, <3>6 DEF VaultInv, RotationInv, KeyInv, OpenVault,
         RecordInv, IdInv, LeftRotation
  <2> QED  BY <2>3, <2>4
<1>4. CASE RotateBegins
  <2> DEFINE key == Derived(vaultHeaders + 1)
             foreign == {r \in Kept : vaultStored[r] # vaultMemory}
  <2>1. /\ vaultMode = "app" /\ vaultMemory # NoKey /\ rotation.at = "no"
        /\ vaultHeaders < MaxHeaders /\ vaultHeaders' = vaultHeaders + 1
        /\ UNCHANGED <<vaultMode, vaultMemory, vaultHeader, vaultId, vaultStored, vaultSession,
                       pinVars, vaultHarm>>
    BY <1>4 DEF RotateBegins
  <2>2. rotation' = [at |-> "records", left |-> Kept, intact |-> TRUE, foreign |-> foreign,
                     key |-> key]
    BY <1>4, <2>1, Zenon DEF RotateBegins, ToRotate
  <2>3. vaultHeaders' \in 1..MaxHeaders /\ vaultHeader' \in 0..vaultHeaders'
        /\ \A h \in 1..vaultHeaders : h \in 1..vaultHeaders'
    <3>1. /\ vaultHeaders < MaxHeaders /\ vaultHeaders' = vaultHeaders + 1
          /\ vaultHeader' = vaultHeader
      BY <2>1, Zenon
    <3> QED  BY <1>h, <3>1
  <2>4. key \in VaultKeys
    <3>1. vaultHeaders + 1 \in 1..MaxHeaders  BY <1>h, <2>1, <2>3
    <3> QED  BY <3>1, KeyFacts
  <2>5. Kept \subseteq VaultRecords /\ foreign \subseteq VaultRecords  BY DEF Kept
  <2> HIDE DEF foreign, key
  <2>6. /\ rotation' \in Rotations /\ rotation'.at = "records" /\ rotation'.left = Kept
        /\ rotation'.foreign = foreign /\ rotation'.key = key
    <3>1. ASSUME NEW b \in BOOLEAN
          PROVE  LET rot == [at |-> "records", left |-> Kept, intact |-> b, foreign |-> foreign,
                             key |-> key]
                 IN  /\ rot \in Rotations /\ rot.at = "records" /\ rot.left = Kept
                     /\ rot.foreign = foreign /\ rot.key = key
      BY <2>4, <2>5 DEF Rotations
    <3>2. TRUE \in BOOLEAN  BY Zenon
    <3> QED  BY <2>2, <3>1, <3>2, Zenon
  <2>7. HarmOK'  BY <1>p, <2>1 DEF HarmOK
  <2>8. vaultReset' \in BOOLEAN /\ (vaultReset' => vaultPin' = NoKey) /\ vaultPin' = vaultPin
    BY <1>p, <2>1, Zenon DEF pinVars
  <2>9. RestTypes'
    <3>1. vaultHeaders' \in 0..MaxHeaders  BY <2>3
    <3> QED  BY <1>0, <1>k, <1>p, <2>1, <2>3, <2>7, <2>8, <3>1 DEF RestTypes
  <2>10. VaultTypeOK'  BY <2>6, <2>9, TypesWillBe
  <2>11. RotationInv'
    <3>1. \E h \in 1..vaultHeaders' : rotation'.key = Derived(h)
      BY <2>1, <2>3, <2>6 DEF key
    <3> QED  BY <2>6, <3>1 DEF RotationInv
  <2>12. Kept' = Kept  BY <2>1 DEF Kept
  <2>13. KeyInv' /\ OpenVault'
    BY <1>w, <2>1, <2>8, <2>12 DEF VaultInv, KeyInv, OpenVault, NotLeft
  <2>14. RecordInv'
    <3>1. Whole' => Whole  BY <2>1 DEF Whole
    <3>2. Whole => Opens(vaultMemory)  BY <2>1 DEF VaultInv, RecordInv, Rotating
    <3>3. Whole => foreign = {}  BY <3>2 DEF foreign, Opens
    <3>4. Whole => \A r \in Kept' : vaultStored'[r] = vaultMemory /\ r \in rotation'.left
      BY <2>1, <2>6, <2>12, <3>2 DEF Opens
    <3> QED  BY <2>1, <2>6, <3>1, <3>3, <3>4 DEF RecordInv, Rotating
  <2>15. IdInv'  BY <2>1, <2>6 DEF IdInv, Rotating
  <2> QED  BY <2>10, <2>11, <2>13, <2>14, <2>15 DEF VaultInv
<1>5. CASE RotateHeader
  <2>1. /\ rotation.at = "records" /\ rotation.left = {}
        /\ vaultHeader' = rotation.key[2]
        /\ rotation' = [rotation EXCEPT !.at = "key"]
        /\ UNCHANGED <<vaultMode, vaultMemory, vaultHeaders, vaultId, vaultStored, vaultSession,
                       pinVars, vaultHarm>>
    BY <1>5 DEF RotateHeader
  <2>2. /\ rotation' \in Rotations /\ rotation'.at = "key" /\ rotation'.left = {}
        /\ rotation'.key = rotation.key
    BY <1>0, <2>1 DEF Rotations
  <2>3. vaultHeader' \in 0..vaultHeaders'
    <3>1. PICK h \in 1..vaultHeaders : rotation.key = Derived(h)  BY <1>0, <2>1 DEF RotationInv
    <3>2. Derived(h)[2] = h  BY <1>h, KeyFacts
    <3>3. vaultHeader' = h /\ vaultHeaders' = vaultHeaders  BY <2>1, <3>1, <3>2
    <3> QED  BY <1>h, <3>3
  <2>4. HarmOK'  BY <1>p, <2>1 DEF HarmOK
  <2>5. vaultReset' \in BOOLEAN /\ (vaultReset' => vaultPin' = NoKey) /\ vaultPin' = vaultPin
    BY <1>p, <2>1, Zenon DEF pinVars
  <2>6. RestTypes'  BY <1>0, <1>h, <1>k, <1>p, <2>1, <2>3, <2>4, <2>5 DEF RestTypes
  <2>7. VaultTypeOK'  BY <2>2, <2>6, TypesWillBe
  <2>8. Kept' = Kept  BY <2>1 DEF Kept
  <2>9. RotationInv' /\ KeyInv' /\ OpenVault'
    BY <1>0, <1>w, <2>1, <2>2, <2>5, <2>8 DEF VaultInv, RotationInv, KeyInv, OpenVault, NotLeft,
       Rotating
  <2>10. RecordInv'
    <3>1. Whole' => Whole  BY <2>1 DEF Whole
    <3>2. Whole => Opens(rotation.key)  BY <2>1 DEF VaultInv, RecordInv, Opens
    <3>3. Whole => Opens(rotation.key)'  BY <2>1, <2>2, <2>8, <3>2 DEF Opens
    <3> QED  BY <2>2, <3>1, <3>3 DEF RecordInv, Rotating
  <2>11. vaultHarm = {} => vaultMode # "creating"
    BY <2>1 DEF VaultInv, OpenVault, NotLeft, Rotating
  <2>12. IdInv'  BY <2>1, <2>2, <2>11 DEF IdInv, Rotating
  <2> QED  BY <2>7, <2>9, <2>10, <2>12 DEF VaultInv
<1>6. CASE RotateKey
  <2>1. /\ rotation.at = "key"
        /\ vaultMemory' = rotation.key /\ vaultId' = rotation.key
        /\ UNCHANGED <<vaultMode, vaultHeader, vaultHeaders, vaultStored, vaultSession, pinVars,
                       vaultHarm>>
    BY <1>6 DEF RotateKey
  <2>2. rotation' = [rotation EXCEPT !.at = "session", !.intact = FALSE]
    BY <1>6, Zenon DEF RotateKey
  <2>3. rotation' \in Rotations /\ rotation'.at = "session" /\ rotation'.key = rotation.key
    <3>1. ASSUME NEW b \in BOOLEAN
          PROVE  LET rot == [rotation EXCEPT !.at = "session", !.intact = b]
                 IN  rot \in Rotations /\ rot.at = "session" /\ rot.key = rotation.key
      BY <1>0 DEF Rotations
    <3>2. FALSE \in BOOLEAN  BY Zenon
    <3> QED  BY <2>2, <3>1, <3>2, Zenon
  <2>4. HarmOK'  BY <1>p, <2>1 DEF HarmOK
  <2>5. vaultReset' \in BOOLEAN /\ (vaultReset' => vaultPin' = NoKey) /\ vaultPin' = vaultPin
    BY <1>p, <2>1, Zenon DEF pinVars
  <2>6. rotation.key \in VaultKeys /\ rotation.key \notin {NoKey, WrongKey}  BY <1>r, <2>1
  <2>7. RestTypes'  BY <1>0, <1>h, <1>k, <1>p, <2>1, <2>4, <2>5, <2>6 DEF RestTypes
  <2>8. VaultTypeOK'  BY <2>3, <2>7, TypesWillBe
  <2>9. Kept' = Kept  BY <2>1 DEF Kept
  <2>10. RotationInv' /\ KeyInv' /\ OpenVault'
    BY <1>0, <1>w, <2>1, <2>3, <2>5, <2>6, <2>9 DEF VaultInv, RotationInv, KeyInv, OpenVault,
       NotLeft, Rotating
  <2>11. Whole => Opens(rotation.key)  BY <2>1 DEF VaultInv, RecordInv
  <2>12. Whole => \A r \in Kept' : vaultStored'[r] = vaultMemory'
    BY <2>1, <2>9, <2>11 DEF Opens
  <2>13. Whole' => Whole  BY <2>1 DEF Whole
  <2>14. RecordInv'  BY <2>3, <2>12, <2>13 DEF RecordInv, Rotating, Opens
  <2>15. vaultHarm = {} => Whole /\ vaultMode # "creating"
    BY <2>1 DEF VaultInv, OpenVault, NotLeft, Rotating, Whole
  <2>16. IdInv'  BY <2>1, <2>3, <2>6, <2>12, <2>15 DEF IdInv, Rotating, Opens
  <2> QED  BY <2>8, <2>10, <2>14, <2>16 DEF VaultInv
<1>7. CASE RotateEnds
  <2>1. /\ rotation.at = "session" /\ LeftRotation
        /\ vaultSession' = IF vaultMemory # NoKey THEN vaultMemory ELSE vaultSession
        /\ UNCHANGED <<vaultMode, vaultMemory, databaseVars, vaultHarm>>
    BY <1>7, RotationEnds DEF RotateEnds
  <2>2. vaultReset' \in BOOLEAN /\ vaultPin' = NoKey  BY <1>7, Zenon DEF RotateEnds, PinForgotten
  <2>3. UNCHANGED <<vaultHeader, vaultHeaders, vaultId, vaultStored>>  BY <2>1 DEF databaseVars
  <2>4. HarmOK'  BY <1>p, <2>1 DEF HarmOK
  <2>5. RestTypes'  BY <1>0, <1>h, <1>k, <2>1, <2>2, <2>3, <2>4 DEF RestTypes
  <2>6. VaultTypeOK'  BY <2>1, <2>5, TypesWillBe DEF LeftRotation
  <2>7. Kept' = Kept  BY <2>3 DEF Kept
  <2>8. RotationInv' /\ KeyInv' /\ OpenVault'
    BY <1>0, <1>w, <2>1, <2>2, <2>7 DEF VaultInv, RotationInv, KeyInv, OpenVault,
       NotLeft, Rotating, LeftRotation
  <2>9. Whole' => Whole  BY <2>1 DEF Whole
  <2>10. RecordInv'
    BY <2>1, <2>3, <2>7, <2>9 DEF VaultInv, RecordInv, Rotating, LeftRotation, Opens
  <2>11. IdInv'
    <3> SUFFICES ASSUME vaultHarm' = {} PROVE IdInv'  BY DEF IdInv
    <3>1. vaultHarm = {} /\ Whole /\ NotLeft /\ ~Rotating  BY <2>1 DEF Whole, NotLeft, Rotating
    <3>2. vaultMode # "creating"  BY <2>1, <3>1 DEF VaultInv, IdInv
    <3>3. Kept # {} => vaultId # NoKey /\ Opens(vaultId)  BY <3>1 DEF VaultInv, IdInv
    <3>4. Kept # {} /\ vaultMemory # NoKey => vaultMemory = vaultId
      BY <1>k, <3>1, <3>2, <3>3 DEF VaultInv, OpenVault, RecordInv, Opens
    <3>5. Kept # {} => vaultSession' \in {NoKey, vaultId}
      BY <2>1, <3>1, <3>3, <3>4 DEF VaultInv, IdInv
    <3> QED  BY <2>1, <2>3, <2>7, <3>2, <3>3, <3>5 DEF IdInv, Opens, LeftRotation
  <2> QED  BY <2>6, <2>8, <2>10, <2>11 DEF VaultInv
<1>8. CASE UNCHANGED vaultVars
  <2>1. /\ UNCHANGED <<vaultMode, vaultMemory, vaultHeader, vaultHeaders, vaultId, vaultStored,
                       vaultSession, vaultPin, rotation, vaultHarm>>
        /\ UNCHANGED pinVars
    BY <1>8 DEF vaultVars, databaseVars, pinVars
  <2>2. HarmOK'  BY <1>p, <2>1 DEF HarmOK
  <2>3. vaultReset' \in BOOLEAN /\ (vaultReset' => vaultPin' = NoKey) /\ vaultPin' = vaultPin
    BY <1>p, <2>1, Zenon DEF pinVars
  <2>4. RestTypes'  BY <1>0, <1>h, <1>k, <1>p, <2>1, <2>2, <2>3 DEF RestTypes
  <2>5. VaultTypeOK'  BY <1>0, <2>1, <2>4, TypesWillBe
  <2> QED
    BY <1>0, <2>1, <2>5 DEF VaultInv, RotationInv, KeyInv, OpenVault,
       RecordInv, IdInv, Rotating, Whole, NotLeft, Opens, Kept
<1> QED  BY <1>1, <1>2, <1>3, <1>4, <1>5, <1>6, <1>7, <1>8

LEMMA VaultStarts == ASSUME VaultInit PROVE VaultInv
<1>1. rotation \in Rotations /\ rotation.at = "no"
  BY RotationFacts, Zenon DEF VaultInit
<1>2. vaultReset \in BOOLEAN /\ ~vaultReset  BY Zenon DEF VaultInit
<1>3. Kept = {}  BY DEF VaultInit, Kept
<1>4. VaultTypeOK
  <2>1. vaultStored \in [VaultRecords -> VaultKeys \ {WrongKey}]  BY KeyFacts DEF VaultInit
  <2> QED
    BY <1>1, <1>2, <2>1, KeyFacts, VaultAssumption
    DEF VaultAssumption, VaultInit, VaultTypeOK, Rotations
<1> QED
  BY <1>1, <1>3, <1>4, KeyFacts DEF VaultInit, VaultInv, RotationInv, KeyInv, OpenVault,
     RecordInv, IdInv, Rotating

LEMMA VaultStep == ASSUME VaultInv, [VaultNext]_vaultVars PROVE VaultInv'
  BY OpenSteps, VaultSteps, Zenon DEF VaultNext

\* Unless a rotation was left or a record saved behind it, all records are under one key, which
\* is the one in the memory of an open vault, and a locked vault has no key in memory.
THEOREM OneVaultKey == VaultSpec => []VaultSound
<1>1. VaultInv => VaultSound
  <2> SUFFICES ASSUME VaultInv PROVE OneKey /\ LockedIsClosed  BY DEF VaultInv, VaultSound
  <2>1. OneKey  BY DEF VaultInv, RecordInv, Whole, Rotating, Opens, OneKey
  <2>2. LockedIsClosed  BY DEF VaultInv, OpenVault, NotLeft, LockedIsClosed
  <2> QED  BY <2>1, <2>2
<1> QED  BY <1>1, VaultStarts, VaultStep, PTL DEF VaultSpec

\* A database with records is emptied by opening the vault only after a rotation that was left,
\* a save behind one, or another start key: a vault nothing was done to is never reset because
\* of a PIN or a session that is older than it.
THEOREM ResetsHaveACause == VaultSpec => ResetHasCause
<1> DEFINE Resets == Kept # {} /\ Kept' = {} /\ ~Create /\ ~Wipe => vaultHarm' # {}
<1>1. ASSUME VaultInv, [VaultNext]_vaultVars, Kept # {}, Kept' = {}, ~Create, ~Wipe,
             vaultHarm' = {}
      PROVE  FALSE
  <2>0. RestTypes /\ NoKey # WrongKey  BY <1>1, TypesAre, KeyFacts DEF VaultInv
  <2>k. /\ vaultMemory \in VaultKeys /\ vaultId \in VaultKeys /\ vaultSession \in VaultKeys
        /\ vaultPin \in VaultKeys
        /\ vaultStored \in [VaultRecords -> VaultKeys \ {WrongKey}]
    BY <2>0, Zenon DEF RestTypes
  <2>s. vaultStored' # vaultStored  BY <1>1, SameRecords
  <2>1. CASE CreateEnds
    <3>1. vaultMode = "creating" /\ vaultHarm = {}  BY <1>1, <2>1 DEF CreateEnds
    <3>2. vaultId = vaultMemory /\ Opens(vaultMemory)  BY <1>1, <3>1 DEF VaultInv, IdInv
    <3>3. Hydrate(vaultId, vaultMemory)  BY <2>1, <2>s DEF CreateEnds, databaseVars
    <3> QED  BY <1>1, <2>s, <3>2, <3>3, Hydrated DEF VaultOpened, NothingThere, Matches
  <2>2. ASSUME NEW mistyped \in BOOLEAN, StartKeyUnlock(mistyped) PROVE FALSE
    <3>1. PICK key : Hydrate(key, key) /\ Opens(key)
      BY <2>2, <2>s DEF StartKeyUnlock
    <3> QED  BY <1>1, <2>s, <3>1, Hydrated DEF VaultOpened, NothingThere, Matches
  <2>3. CASE PinUnlock
    <3>1. /\ vaultMode = "locked" /\ vaultHarm = {} /\ vaultPin # NoKey
          /\ Hydrate(vaultId, vaultPin) /\ Matches(vaultId, vaultPin)
      BY <1>1, <2>3, <2>s DEF PinUnlock, PinFits, databaseVars
    <3>2. vaultId # NoKey /\ Opens(vaultId)
      BY <1>1, <3>1 DEF VaultInv, OpenVault, NotLeft, IdInv
    <3>3. vaultPin = vaultId  BY <3>1, <3>2 DEF Matches
    <3> QED  BY <1>1, <2>s, <3>1, <3>2, <3>3, Hydrated DEF VaultOpened, NothingThere
  <2>4. CASE Restart
    <3>1. Hydrate(vaultId, vaultSession) /\ vaultSession # NoKey
      BY <2>4, <2>s DEF Restart, databaseVars
    <3>2. vaultHarm = {} /\ rotation.at \notin {"records", "key", "session"}
      BY <1>1, <2>4 DEF Restart, LeavesRotation
    <3>3. rotation.at = "no"  BY <1>1, <3>2 DEF VaultInv, RotationInv, Rotations
    <3>4. vaultSession = vaultId /\ Opens(vaultId)
      BY <1>1, <3>1, <3>2, <3>3 DEF VaultInv, IdInv, Rotating
    <3> QED  BY <1>1, <2>s, <3>1, <3>4, Hydrated DEF VaultOpened, NothingThere, Matches
  <2>5. ASSUME NEW r \in VaultRecords, Save(r) PROVE FALSE
    <3>1. vaultStored'[r] = vaultMemory /\ vaultMemory # NoKey  BY <2>k, <2>5 DEF Save
    <3> QED  BY <1>1, <3>1 DEF Kept
  <2>6. ASSUME NEW r \in VaultRecords, RotateRecord(r) PROVE FALSE
    <3>1. rotation.at # "no" /\ vaultStored' = [vaultStored EXCEPT ![r] = rotation.key]
      BY <2>6, <2>s DEF RotateRecord
    <3>2. PICK h \in 1..vaultHeaders : rotation.key = Derived(h)
      BY <1>1, <3>1 DEF VaultInv, RotationInv
    <3>3. rotation.key # NoKey  BY <3>2 DEF Derived, NoKey
    <3>4. vaultStored'[r] # NoKey  BY <2>k, <3>1, <3>3
    <3> QED  BY <1>1, <3>4 DEF Kept
  <2>7. CASE UseStartKey \/ Lock \/ Logout \/ SetPin \/ DisablePin \/ RotateBegins
             \/ RotateHeader \/ RotateKey \/ RotateEnds \/ UNCHANGED vaultVars
    <3>1. vaultStored' = vaultStored
      BY <2>7 DEF UseStartKey, Lock, Logout, Locks, SetPin, DisablePin, RotateBegins,
         RotateHeader, RotateKey, RotateEnds, vaultVars, databaseVars
    <3> QED  BY <2>s, <3>1
  <2> QED  BY <1>1, <2>1, <2>2, <2>3, <2>4, <2>5, <2>6, <2>7 DEF VaultNext
<1>2. VaultInv /\ [VaultNext]_vaultVars => [Resets]_vaultVars
  BY <1>1
<1> QED  BY <1>2, VaultStarts, VaultStep, PTL DEF VaultSpec, ResetHasCause
-----------------------------------------------------------------------------
(***************************************************************************)
(* The Tor component's versions and its process (OnionInstall).            *)
(***************************************************************************)

Starts == {"start", "read", "spawn", "spawning", "socks", "proxy", "giveup", "refused"}
Stops == {"stop", "stopping"}
Launches == {"read", "spawn", "giveup"}
OfFiles == {"check", "fetch", "clear", "unpack", "swap", "prune"}

Requests == [op : Ops \cup {"none"},
             at : Starts \cup Stops \cup OfFiles \cup {"started", "remove", "done"},
             ver : 0..LastVersion, prev : 0..LastVersion, again : BOOLEAN, tries : Int,
             victim : 0..MaxTors, then : Launches \cup {"fetch", "done"}, undone : BOOLEAN]

\* Which request is where: its place tells its operation.
Fits(j) ==
    /\ j.at = "done" <=> j.op = "none"
    /\ j.at \in OfFiles \/ (j.at \in Stops /\ j.then = "fetch") => j.op \in {"install", "update"}
    /\ j.at \in Stops /\ j.then = "done" => j.op \in {"uninstall", "disable"}
    /\ j.at \in Starts \/ (j.at \in Stops /\ j.then \in Launches) =>
           j.op \in {"install", "update", "enable"}
    /\ j.at = "started" => j.op \in {"install", "update", "enable"}
    /\ j.at = "remove" => j.op = "uninstall"
    /\ j.op \in {"install", "update"} /\ j.at # "check" => j.ver \in Versions
    /\ j.at = "prune" => ~j.undone

\* The pointer has been set to the request's version.
Activated(j) ==
    /\ j.op \in {"install", "update"}
    /\ \/ j.at \in Starts \cup {"started", "prune"}
       \/ j.at \in Stops /\ j.then # "fetch"

JobInv == job \in [Slots -> Requests] /\ \A s \in Slots : Fits(job[s])

Cards == [latest : 0..LastVersion, version : 0..LastVersion,
          status : {"idle", "downloading", "ready", "failed"}]

RestOk ==
    /\ published \in Versions /\ pointer \in 0..LastVersion
    /\ folder \in [Versions -> {"none", "part", "whole"}]
    /\ card \in Cards
    /\ mode \in {"idle", "starting", "running", "failed"}
    /\ tors \in 0..MaxTors /\ torHandle \in 0..tors /\ alive \subseteq 1..tors

\* One request changes the directories at a time, and what the pointer may be set to is whole.
AloneInv == \A s, t \in Slots : {job[s].op, job[t].op} \subseteq Mutations => s = t
PartInv ==
    pointer # 0 /\ folder[pointer] # "whole" =>
        \E s \in Slots : job[s].at = "unpack" /\ job[s].ver = pointer
TargetInv(j) ==
    /\ j.at = "swap" => folder[j.ver] = "whole"
    /\ Activated(j) /\ ~j.undone => pointer = j.ver /\ folder[j.ver] = "whole"
    /\ Activated(j) /\ j.at # "prune" /\ j.prev # 0 => folder[j.prev] = "whole"
CardInv ==
    card.status = "ready" =>
        /\ pointer # 0
        /\ \/ card.version = pointer
           \/ \E s \in Slots : Activated(job[s]) /\ job[s].at # "prune"
FilesInv ==
    /\ ~mixed => AloneInv
    /\ ~mixed /\ ~damaged => PartInv /\ CardInv /\ \A s \in Slots : TargetInv(job[s])

\* While no two requests met, the process that runs is the one that is held or being stopped.
SoloInv == \A s, t \in Slots : Busy(s) /\ Busy(t) => s = t
HeldInv ==
    \A p \in alive : p = torHandle \/ \E s \in Slots : Where(s, "stopping") /\ job[s].victim = p
StartsInv(j) ==
    /\ j.at \in {"stopping", "spawning"} => torHandle = 0
    /\ j.at \in {"read", "giveup"} => alive = {}
    /\ \/ j.at \in Launches \cup {"spawning", "socks", "proxy"}
       \/ j.at \in Stops /\ j.then \in {"spawn", "giveup"}
       => mode = "starting"
RunInv ==
    ~met =>
        /\ SoloInv /\ HeldInv
        /\ \A s \in Slots : StartsInv(job[s])
        /\ mode \in {"idle", "failed"} => alive = {}

InstallInv == RestOk /\ JobInv /\ FilesInv /\ RunInv

Places == Starts \cup Stops \cup OfFiles \cup {"started", "remove", "done"}

\* A request goes to another place.
LEMMA Moved ==
    ASSUME NEW i \in Requests, NEW p \in Places
    PROVE  LET j == [i EXCEPT !.at = p]
           IN  /\ j \in Requests /\ j.at = p /\ j.op = i.op /\ j.ver = i.ver /\ j.prev = i.prev
               /\ j.then = i.then /\ j.victim = i.victim /\ j.undone = i.undone
  BY DEF Requests, Places

\* No request.
LEMMA NothingAsked ==
    /\ NoJob \in Requests /\ NoJob.op = "none" /\ NoJob.at = "done" /\ NoJob.ver = 0
    /\ NoJob.then = "done"
    /\ Fits(NoJob) /\ ~Activated(NoJob)
<1>1. ASSUME NEW a \in BOOLEAN, NEW u \in BOOLEAN
      PROVE  LET j == [op |-> "none", at |-> "done", ver |-> 0, prev |-> 0, again |-> a,
                       tries |-> 0, victim |-> 0, then |-> "done", undone |-> u]
             IN  /\ j \in Requests /\ j.op = "none" /\ j.at = "done" /\ j.ver = 0
                 /\ j.then = "done"
  BY InstallAssumption DEF Requests, InstallAssumption
<1>2. FALSE \in BOOLEAN  BY Zenon
<1>3. /\ NoJob \in Requests /\ NoJob.op = "none" /\ NoJob.at = "done" /\ NoJob.ver = 0
      /\ NoJob.then = "done"
  BY <1>1, <1>2, Zenon DEF NoJob
<1> QED  BY <1>3 DEF Fits, Activated, Starts, Stops, OfFiles, Launches

\* A step of one request leaves the others.
LEMMA JobGoes ==
    ASSUME JobInv, NEW s \in Slots, NEW j, j \in Requests, Fits(j), job' = [job EXCEPT ![s] = j]
    PROVE  /\ JobInv' /\ job'[s] = j
           /\ \A t \in Slots : t # s => job'[t] = job[t]
<1>1. job'[s] = j /\ \A t \in Slots : t # s => job'[t] = job[t]  BY DEF JobInv
<1>2. job' \in [Slots -> Requests]  BY DEF JobInv
<1>3. \A t \in Slots : Fits(job'[t])  BY <1>1 DEF JobInv
<1> QED  BY <1>1, <1>2, <1>3 DEF JobInv

\* The next place of a request that leaves the directories alone.
Follows(i, j) ==
    /\ j.op \in {i.op, "none"} /\ i.at # "unpack" /\ j.at # "swap"
    /\ Activated(j) => /\ Activated(i) /\ j.ver = i.ver /\ j.prev = i.prev
                       /\ i.at = "prune" => j.at = "prune"
                       /\ ~j.undone => ~i.undone
    /\ Activated(i) /\ i.at # "prune" => Activated(j) /\ j.at # "prune"

LEMMA FilesStay ==
    ASSUME JobInv, FilesInv, NEW s \in Slots, NEW j, Follows(job[s], j),
           job'[s] = j, \A t \in Slots : t # s => job'[t] = job[t],
           UNCHANGED <<folder, pointer, damaged, mixed>>,
           card'.status = "ready" => card' = card
    PROVE  FilesInv'
<1>1. ~mixed' => AloneInv'  BY NothingAsked DEF FilesInv, AloneInv, Follows, Mutations
<1>2. ASSUME ~mixed, ~damaged PROVE PartInv' /\ CardInv' /\ \A t \in Slots : TargetInv(job[t])'
  <2>1. PartInv'  BY <1>2 DEF FilesInv, PartInv, Follows
  <2>2. CardInv'
    <3>1. ASSUME card'.status = "ready", NEW t \in Slots, Activated(job[t]), job[t].at # "prune"
          PROVE  \E u \in Slots : Activated(job'[u]) /\ job'[u].at # "prune"
      BY <3>1 DEF Follows
    <3>2. Activated(job[s])' <=> Activated(job'[s])  BY DEF Activated
    <3>3. \A u \in Slots : Activated(job[u])' <=> Activated(job'[u])  BY DEF Activated
    <3> QED  BY <1>2, <3>1, <3>3 DEF FilesInv, CardInv
  <2>3. \A t \in Slots : TargetInv(job[t])'
    <3>1. \A t \in Slots : TargetInv(job[t])  BY <1>2 DEF FilesInv
    <3>2. TargetInv(job[s])'  BY <3>1 DEF TargetInv, Follows, Activated
    <3>3. ASSUME NEW t \in Slots, t # s PROVE TargetInv(job[t])'
      BY <3>1, <3>3 DEF TargetInv, Activated
    <3> QED  BY <3>2, <3>3
  <2> QED  BY <2>1, <2>2, <2>3
<1> QED  BY <1>1, <1>2 DEF FilesInv

\* A place that says nothing of the process.
Calm(j) ==
    /\ j.at \notin {"read", "spawn", "spawning", "socks", "proxy", "giveup", "stopping"}
    /\ j.at = "stop" => j.then \notin {"spawn", "giveup"}

LEMMA RunStays ==
    ASSUME RunInv, NEW s \in Slots, NEW j, Calm(j), j.op \in {job[s].op, "none"},
           job[s].at # "stopping",
           job'[s] = j, \A t \in Slots : t # s => job'[t] = job[t],
           UNCHANGED <<mode, torHandle, alive, met>>
    PROVE  RunInv'
<1> SUFFICES ASSUME ~met PROVE RunInv'  BY DEF RunInv
<1>1. SoloInv'  BY DEF RunInv, SoloInv, Busy
<1>2. HeldInv'  BY DEF RunInv, HeldInv, Where
<1>3. \A t \in Slots : StartsInv(job[t])'
  <2>1. StartsInv(job[s])'  BY DEF Calm, StartsInv, Stops, Launches
  <2>2. ASSUME NEW t \in Slots, t # s PROVE StartsInv(job[t])'  BY <2>2 DEF RunInv, StartsInv
  <2> QED  BY <2>1, <2>2
<1> QED  BY <1>1, <1>2, <1>3 DEF RunInv

LEMMA Bounds ==
    /\ LastVersion \in Nat \ {0} /\ StartTries \in Nat \ {0} /\ MaxTors \in Nat \ {0}
    /\ Versions = 1..LastVersion
  BY InstallAssumption DEF InstallAssumption, Versions

LEMMA CardFails ==
    ASSUME RestOk PROVE Failed \in Cards /\ Failed.status = "failed"
  BY DEF RestOk, Cards, Failed

\* The request once the check has answered.
Rechecked(i, v, b) == [i EXCEPT !.ver = v, !.at = "stop", !.then = "fetch", !.again = b]

LEMMA WhenChecked ==
    ASSUME NEW i \in Requests, NEW v \in Versions, NEW b \in BOOLEAN
    PROVE  /\ Rechecked(i, v, b) \in Requests /\ Rechecked(i, v, b).at = "stop"
           /\ Rechecked(i, v, b).op = i.op /\ Rechecked(i, v, b).ver = v
           /\ Rechecked(i, v, b).then = "fetch"
<1>1. v \in 0..LastVersion  BY Bounds
<1> QED  BY <1>1 DEF Requests, Stops, Rechecked

\* What the check for a new version leads to.
LEMMA CheckSteps ==
    ASSUME InstallInv, NEW s \in Slots, Checked(s) \/ CheckFails(s) \/ Downloaded(s)
    PROVE  InstallInv'
<1> DEFINE i == job[s]
<1>0. /\ RestOk /\ JobInv /\ FilesInv /\ RunInv /\ i \in Requests /\ Fits(i)
  BY DEF InstallInv, JobInv
<1>1. CASE Checked(s)
  <2> DEFINE j == [i EXCEPT !.ver = published', !.at = "stop", !.then = "fetch",
                            !.again = i.op = "update" /\ mode = "running"]
  <2>1. /\ i.at = "check" /\ published' \in published..LastVersion
        /\ job' = [job EXCEPT ![s] = j]
        /\ UNCHANGED <<folder, pointer, mode, torHandle, alive, tors, damaged, mixed, met>>
        /\ card' = card \/ card' = [card EXCEPT !.status = "downloading"]
    BY <1>1 DEF Checked, Where, To, folderVars, runVars, History
  <2>2. published' \in Versions  BY <1>0, <2>1, Bounds DEF RestOk
  <2>3. j \in Requests /\ j.at = "stop" /\ j.op = i.op /\ j.ver = published' /\ j.then = "fetch"
    <3>1. (i.op = "update" /\ mode = "running") \in BOOLEAN  BY Zenon
    <3>2. j = Rechecked(i, published', i.op = "update" /\ mode = "running")
      BY Zenon DEF Rechecked
    <3> DEFINE b == i.op = "update" /\ mode = "running"
    <3>3. j = Rechecked(i, published', b)  BY <3>2
    <3>4. b \in BOOLEAN  BY <3>1
    <3> HIDE DEF j, b, i
    <3> QED  BY <1>0, <2>2, <3>3, <3>4, WhenChecked
  <2> HIDE DEF j
  <2>4. Fits(j)
    BY <1>0, <2>1, <2>2, <2>3 DEF Fits, Stops, OfFiles, Starts, Launches
  <2>5. JobInv' /\ job'[s] = j /\ \A t \in Slots : t # s => job'[t] = job[t]
    BY <1>0, <2>1, <2>3, <2>4, JobGoes
  <2>6. Follows(i, j)
    BY <2>1, <2>3 DEF Follows, Activated, Starts, Stops
  <2>7. card' \in Cards /\ (card'.status = "ready" => card' = card)
    BY <1>0, <2>1 DEF RestOk, Cards
  <2>8. FilesInv'  BY <1>0, <2>1, <2>5, <2>6, <2>7, FilesStay
  <2>9. RunInv'  BY <1>0, <2>1, <2>3, <2>5, RunStays DEF Calm
  <2>10. RestOk'  BY <1>0, <2>1, <2>2, <2>7 DEF RestOk
  <2> QED  BY <2>5, <2>8, <2>9, <2>10 DEF InstallInv
<1>2. CASE CheckFails(s)
  <2>1. /\ i.at = "check" /\ job' = [job EXCEPT ![s] = NoJob]
        /\ UNCHANGED <<published, folder, pointer, mode, torHandle, alive, tors, damaged, mixed,
                       met>>
        /\ card' = card \/ card' = Failed
    BY <1>2 DEF CheckFails, Where, To, End, folderVars, runVars, History
  <2>2. JobInv' /\ job'[s] = NoJob /\ \A t \in Slots : t # s => job'[t] = job[t]
    BY <1>0, <2>1, NothingAsked, JobGoes
  <2>3. Follows(i, NoJob)
    BY <2>1, NothingAsked DEF Follows, Activated, Starts, Stops
  <2>4. card' \in Cards /\ (card'.status = "ready" => card' = card)
    BY <1>0, <2>1, CardFails DEF RestOk
  <2>5. FilesInv'  BY <1>0, <2>1, <2>2, <2>3, <2>4, FilesStay
  <2>6. Calm(NoJob)  BY NothingAsked DEF Calm
  <2>7. RunInv'  BY <1>0, <2>1, <2>2, <2>6, NothingAsked, RunStays
  <2>8. RestOk'  BY <1>0, <2>1, <2>4 DEF RestOk
  <2> QED  BY <2>2, <2>5, <2>7, <2>8 DEF InstallInv
<1>3. CASE Downloaded(s)
  <2> DEFINE j == [i EXCEPT !.at = "clear"]
  <2>1. /\ i.at = "fetch" /\ job' = [job EXCEPT ![s] = j]
        /\ UNCHANGED <<published, folder, pointer, card, mode, torHandle, alive, tors, damaged,
                       mixed, met>>
    BY <1>3 DEF Downloaded, Where, To, Goto, folderVars, runVars, History
  <2>2. /\ j \in Requests /\ j.at = "clear" /\ j.op = i.op /\ j.ver = i.ver /\ j.prev = i.prev
        /\ j.then = i.then
    BY <1>0, Moved DEF Places, OfFiles
  <2> HIDE DEF j
  <2>3. Fits(j)  BY <1>0, <2>1, <2>2 DEF Fits, Stops, OfFiles, Starts, Launches
  <2>4. JobInv' /\ job'[s] = j /\ \A t \in Slots : t # s => job'[t] = job[t]
    BY <1>0, <2>1, <2>2, <2>3, JobGoes
  <2>5. Follows(i, j)  BY <2>1, <2>2 DEF Follows, Activated, Starts, Stops
  <2>6. FilesInv'  BY <1>0, <2>1, <2>4, <2>5, FilesStay
  <2>7. RunInv'  BY <1>0, <2>1, <2>2, <2>4, RunStays DEF Calm
  <2>8. RestOk'  BY <1>0, <2>1 DEF RestOk
  <2> QED  BY <2>4, <2>6, <2>7, <2>8 DEF InstallInv
<1> QED  BY <1>1, <1>2, <1>3

\* The only request under way, and the process it knows.
LEMMA OnlyRequest ==
    ASSUME JobInv, RunInv, ~met, NEW s \in Slots, job[s].op # "none"
    PROVE  /\ \A t \in Slots : t # s => job[t].at = "done"
           /\ \A p \in alive : p = torHandle \/ (job[s].at = "stopping" /\ job[s].victim = p)
           /\ StartsInv(job[s]) /\ (mode \in {"idle", "failed"} => alive = {})
<1>1. \A t \in Slots : t # s => job[t].at = "done"
  BY DEF RunInv, SoloInv, Busy, JobInv, Fits
<1> QED  BY <1>1 DEF RunInv, HeldInv, Where

LEMMA RunGoes ==
    ASSUME JobInv, RunInv, NEW s \in Slots, NEW j, job[s].op # "none", j.op \in {job[s].op, "none"},
           job'[s] = j, \A t \in Slots : t # s => job'[t] = job[t], met' = met,
           ~met => /\ \A p \in alive' : p = torHandle' \/ (j.at = "stopping" /\ j.victim = p)
                   /\ StartsInv(job[s])' /\ (mode' \in {"idle", "failed"} => alive' = {})
    PROVE  RunInv'
<1> SUFFICES ASSUME ~met PROVE RunInv'  BY DEF RunInv
<1>1. SoloInv'  BY DEF RunInv, SoloInv, Busy
<1>2. HeldInv'  BY DEF HeldInv, Where
<1>3. \A t \in Slots : StartsInv(job[t])'
  <2>1. \A t \in Slots : t # s => job[t].at = "done"  BY OnlyRequest
  <2>2. ASSUME NEW t \in Slots, t # s PROVE StartsInv(job[t])'
    BY <2>1, <2>2 DEF StartsInv, Stops, Launches
  <2> QED  BY <2>2
<1> QED  BY <1>1, <1>2, <1>3 DEF RunInv

\* A request goes on to a place where one of its operation may be.
LEMMA GoesOver ==
    ASSUME JobInv, NEW s \in Slots, NEW q \in Places, Goto(s, q),
           \A j \in Requests : j.at = q /\ j.op = job[s].op /\ j.ver = job[s].ver
                               /\ j.then = job[s].then /\ j.undone = job[s].undone => Fits(j)
    PROVE  /\ JobInv' /\ \A t \in Slots : t # s => job'[t] = job[t]
           /\ job'[s].at = q /\ job'[s].op = job[s].op /\ job'[s].ver = job[s].ver
           /\ job'[s].prev = job[s].prev /\ job'[s].then = job[s].then
           /\ job'[s].victim = job[s].victim /\ job'[s].undone = job[s].undone
<1> DEFINE j == [job[s] EXCEPT !.at = q]
<1>1. job[s] \in Requests /\ job' = [job EXCEPT ![s] = j]  BY DEF JobInv, Goto, To
<1>2. /\ j \in Requests /\ j.at = q /\ j.op = job[s].op /\ j.ver = job[s].ver
      /\ j.prev = job[s].prev /\ j.then = job[s].then /\ j.victim = job[s].victim
      /\ j.undone = job[s].undone
  BY <1>1, Moved
<1> HIDE DEF j
<1>3. Fits(j)  BY <1>2
<1> QED  BY <1>1, <1>2, <1>3, JobGoes

\* The places of a process that comes up.
LEMMA ComingUp ==
    ASSUME InstallInv, NEW s \in Slots,
           LookForProcess(s) \/ Spawn(s) \/ SocksReady(s) \/ ProxySet(s) \/ GiveUp(s)
    PROVE  InstallInv'
<1> DEFINE i == job[s]
<1>0. /\ RestOk /\ JobInv /\ FilesInv /\ RunInv /\ Fits(i)
  BY DEF InstallInv, JobInv
<1>1. /\ i.at \in {"spawn", "spawning", "socks", "proxy", "giveup"}
      /\ UNCHANGED <<published, folder, pointer, card, damaged, mixed, met>>
      /\ \E q \in {"spawning", "socks", "proxy", "started", "refused"} : Goto(s, q)
  BY DEF LookForProcess, Spawn, SocksReady, ProxySet, GiveUp, Where, folderVars, runVars,
         History
<1>2. PICK q \in {"spawning", "socks", "proxy", "started", "refused"} : Goto(s, q)  BY <1>1
<1>3. i.op \in {"install", "update", "enable"}  BY <1>0, <1>1 DEF Fits, Starts
<1>4. q \in Places  BY DEF Places, Starts
<1>5. ASSUME NEW j \in Requests, j.at = q, j.op = i.op, j.ver = i.ver, j.then = i.then
      PROVE  Fits(j)
  BY <1>0, <1>1, <1>3, <1>5 DEF Fits, Starts, Stops, OfFiles
<1>6. /\ JobInv' /\ \A t \in Slots : t # s => job'[t] = job[t]
      /\ job'[s].at = q /\ job'[s].op = i.op /\ job'[s].ver = i.ver
      /\ job'[s].prev = i.prev /\ job'[s].undone = i.undone
  BY <1>0, <1>2, <1>4, <1>5, GoesOver
<1>7. Follows(i, job'[s])
  BY <1>1, <1>3, <1>6 DEF Follows, Activated, Starts
<1>8. FilesInv'  BY <1>0, <1>1, <1>6, <1>7, FilesStay
<1>9. i.op # "none"  BY <1>3
<1>10. RestOk'
  <2>1. CASE Spawn(s)
    <3>1. tors < MaxTors /\ tors' = tors + 1 /\ torHandle' = tors' /\ alive' = alive \cup {tors'}
          /\ mode' = mode
      BY <2>1 DEF Spawn
    <3>2. tors' \in 0..MaxTors /\ torHandle' \in 0..tors' /\ alive' \subseteq 1..tors'
      BY <1>0, <3>1, Bounds DEF RestOk
    <3> QED  BY <1>0, <1>1, <3>1, <3>2 DEF RestOk
  <2>2. CASE ~Spawn(s)
    <3>1. mode' \in {mode, "running", "failed"} /\ UNCHANGED <<torHandle, alive, tors>>
      BY <2>2 DEF LookForProcess, SocksReady, ProxySet, GiveUp, runVars
    <3> QED  BY <1>0, <1>1, <3>1 DEF RestOk
  <2> QED  BY <2>1, <2>2
<1>11. ASSUME ~met
       PROVE  /\ \A p \in alive' : p = torHandle' \/ (job'[s].at = "stopping" /\ job'[s].victim = p)
              /\ StartsInv(job[s])' /\ (mode' \in {"idle", "failed"} => alive' = {})
  <2>1. /\ \A p \in alive : p = torHandle \/ (i.at = "stopping" /\ i.victim = p)
        /\ StartsInv(i) /\ (mode \in {"idle", "failed"} => alive = {})
    BY <1>0, <1>9, <1>11, OnlyRequest
  <2>2. mode = "starting" \/ i.at = "spawn" \/ i.at = "giveup"
    BY <1>1, <2>1 DEF StartsInv, Launches
  <2>3. i.at \in {"spawn", "giveup"} => mode = "starting"
    BY <2>1 DEF StartsInv, Launches
  <2>4. mode = "starting"  BY <2>2, <2>3
  <2>5. CASE LookForProcess(s)
    <3>1. UNCHANGED <<mode, torHandle, alive>> /\ i.at = "spawn"
          /\ Goto(s, IF torHandle = 0 THEN "spawning" ELSE "socks")
      BY <2>5 DEF LookForProcess, runVars, Where
    <3>2. job'[s].at = (IF torHandle = 0 THEN "spawning" ELSE "socks")
      BY <1>0, <3>1 DEF Goto, To, JobInv, Requests
    <3> QED  BY <2>1, <2>4, <3>1, <3>2 DEF StartsInv, Stops
  <2>6. CASE Spawn(s)
    <3>1. /\ mode' = mode /\ torHandle' = tors' /\ alive' = alive \cup {tors'}
          /\ i.at = "spawning" /\ Goto(s, "socks")
      BY <2>6 DEF Spawn, Where
    <3>2. job'[s].at = "socks"
      BY <1>0, <3>1 DEF Goto, To, JobInv, Requests
    <3>3. torHandle = 0  BY <2>1, <3>1 DEF StartsInv
    <3>4. alive = {}  BY <1>0, <2>1, <3>1, <3>3 DEF RestOk
    <3> QED  BY <2>4, <3>1, <3>2, <3>4 DEF StartsInv, Stops
  <2>7. CASE SocksReady(s)
    <3>1. UNCHANGED <<mode, torHandle, alive>> /\ i.at = "socks" /\ Goto(s, "proxy")
      BY <2>7 DEF SocksReady, runVars, Where
    <3>2. job'[s].at = "proxy"
      BY <1>0, <3>1 DEF Goto, To, JobInv, Requests
    <3> QED  BY <2>1, <2>4, <3>1, <3>2 DEF StartsInv, Stops
  <2>8. CASE ProxySet(s) \/ GiveUp(s)
    <3>1. /\ UNCHANGED <<torHandle, alive>>
          /\ \/ i.at = "proxy" /\ mode' = "running" /\ Goto(s, "started")
             \/ i.at = "giveup" /\ mode' = "failed" /\ Goto(s, "refused")
      BY <2>8 DEF ProxySet, GiveUp, Where
    <3>2. job'[s].at \in {"started", "refused"}
      BY <1>0, <3>1 DEF Goto, To, JobInv, Requests
    <3>3. mode' = "failed" => alive = {}  BY <2>1, <3>1 DEF StartsInv
    <3>4. i.at # "stopping"  BY <1>1
    <3> QED  BY <2>1, <3>1, <3>2, <3>3, <3>4 DEF StartsInv, Stops, Launches
  <2> QED  BY <2>5, <2>6, <2>7, <2>8
<1>12. RunInv'
  BY <1>0, <1>1, <1>6, <1>9, <1>11, RunGoes
<1> QED  BY <1>6, <1>8, <1>10, <1>12 DEF InstallInv

\* The request that begins to stop the process, and the one whose process is to be stopped.
Stopping(i, p) == [i EXCEPT !.at = "stopping", !.victim = p]
Restarting(i, n) == [i EXCEPT !.at = "stop", !.then = n]
Retrying(i, n) == [i EXCEPT !.at = "stop", !.tries = @ - 1, !.then = n]
Launching(i) == [i EXCEPT !.at = "spawn", !.tries = StartTries]

LEMMA WhenStopping ==
    ASSUME NEW i \in Requests
    PROVE  /\ \A p \in 0..MaxTors :
                 LET j == Stopping(i, p)
                 IN  /\ j \in Requests /\ j.at = "stopping" /\ j.op = i.op /\ j.ver = i.ver
                     /\ j.prev = i.prev /\ j.then = i.then /\ j.victim = p /\ j.undone = i.undone
           /\ \A n \in Launches : \A j \in {Restarting(i, n), Retrying(i, n)} :
                  /\ j \in Requests /\ j.at = "stop" /\ j.op = i.op /\ j.ver = i.ver
                  /\ j.prev = i.prev /\ j.then = n /\ j.undone = i.undone
           /\ LET j == Launching(i)
              IN  /\ j \in Requests /\ j.at = "spawn" /\ j.op = i.op /\ j.ver = i.ver
                  /\ j.prev = i.prev /\ j.then = i.then /\ j.undone = i.undone
<1>1. \A p \in 0..MaxTors :
          LET j == Stopping(i, p)
          IN  /\ j \in Requests /\ j.at = "stopping" /\ j.op = i.op /\ j.ver = i.ver
              /\ j.prev = i.prev /\ j.then = i.then /\ j.victim = p /\ j.undone = i.undone
  BY DEF Requests, Stopping, Stops
<1>2. ASSUME NEW n \in Launches
      PROVE  LET j == Restarting(i, n)
             IN  /\ j \in Requests /\ j.at = "stop" /\ j.op = i.op /\ j.ver = i.ver
                 /\ j.prev = i.prev /\ j.then = n /\ j.undone = i.undone
  BY DEF Requests, Restarting, Stops
<1>3. ASSUME NEW n \in Launches
      PROVE  LET j == Retrying(i, n)
             IN  /\ j \in Requests /\ j.at = "stop" /\ j.op = i.op /\ j.ver = i.ver
                 /\ j.prev = i.prev /\ j.then = n /\ j.undone = i.undone
  <2>1. i.tries - 1 \in Int  BY DEF Requests
  <2> QED  BY <2>1 DEF Requests, Retrying, Stops
<1>4. LET j == Launching(i)
      IN  /\ j \in Requests /\ j.at = "spawn" /\ j.op = i.op /\ j.ver = i.ver
          /\ j.prev = i.prev /\ j.then = i.then /\ j.undone = i.undone
  <2>1. StartTries \in Int  BY Bounds
  <2> QED  BY <2>1 DEF Requests, Launching, Starts
<1> QED  BY <1>1, <1>2, <1>3, <1>4

\* The process is given up and waited for.
LEMMA StopSteps ==
    ASSUME InstallInv, NEW s \in Slots, Stop(s) \/ Stopped(s)
    PROVE  InstallInv'
<1> DEFINE i == job[s]
<1>0. /\ RestOk /\ JobInv /\ FilesInv /\ RunInv /\ i \in Requests /\ Fits(i)
  BY DEF InstallInv, JobInv
<1>1. CASE Stop(s)
  <2> DEFINE j == Stopping(i, torHandle)
  <2>1. /\ i.at = "stop" /\ torHandle' = 0 /\ job' = [job EXCEPT ![s] = j]
        /\ UNCHANGED <<published, folder, pointer, card, mode, alive, tors, damaged, mixed, met>>
    BY <1>1 DEF Stop, Where, To, Stopping, folderVars, History
  <2>2. torHandle \in 0..MaxTors  BY <1>0, Bounds DEF RestOk
  <2>3. /\ j \in Requests /\ j.at = "stopping" /\ j.op = i.op /\ j.ver = i.ver /\ j.prev = i.prev
        /\ j.then = i.then /\ j.victim = torHandle /\ j.undone = i.undone
    BY <1>0, <2>2, WhenStopping
  <2> HIDE DEF j
  <2>4. Fits(j)  BY <1>0, <2>1, <2>3 DEF Fits, Starts, Stops, OfFiles
  <2>5. JobInv' /\ job'[s] = j /\ \A t \in Slots : t # s => job'[t] = job[t]
    BY <1>0, <2>1, <2>3, <2>4, JobGoes
  <2>6. Follows(i, j)  BY <2>1, <2>3 DEF Follows, Activated, Starts, Stops
  <2>7. FilesInv'  BY <1>0, <2>1, <2>5, <2>6, FilesStay
  <2>8. i.op # "none"  BY <1>0, <2>1 DEF Fits
  <2>9. ASSUME ~met
        PROVE  /\ \A p \in alive' : p = torHandle' \/ (j.at = "stopping" /\ j.victim = p)
               /\ StartsInv(job[s])' /\ (mode' \in {"idle", "failed"} => alive' = {})
    <3>1. /\ \A p \in alive : p = torHandle \/ (i.at = "stopping" /\ i.victim = p)
          /\ StartsInv(i) /\ (mode \in {"idle", "failed"} => alive = {})
      BY <1>0, <2>8, <2>9, OnlyRequest
    <3> QED  BY <2>1, <2>3, <2>5, <3>1 DEF StartsInv, Stops, Launches
  <2>10. RunInv'  BY <1>0, <2>1, <2>3, <2>5, <2>8, <2>9, RunGoes
  <2>11. RestOk'  BY <1>0, <2>1, Bounds DEF RestOk
  <2> QED  BY <2>5, <2>7, <2>10, <2>11 DEF InstallInv
<1>2. CASE Stopped(s)
  <2> DEFINE next == IF i.op = "uninstall" THEN "remove" ELSE i.then
  <2>1. /\ i.at = "stopping" /\ alive' = alive \ {i.victim} /\ mode' = AfterStop(i.then)
        /\ IF next = "done" THEN End(s) ELSE Goto(s, next)
        /\ UNCHANGED <<published, folder, pointer, card, torHandle, tors, damaged, mixed, met>>
    BY <1>2 DEF Stopped, Where, folderVars, History
  <2>2. i.then \in Launches \cup {"fetch", "done"}  BY <1>0 DEF Requests
  <2>3. mode' = (IF i.then = "read" THEN "starting"
                 ELSE IF i.then \in {"spawn", "giveup"} THEN mode ELSE "idle")
    BY <2>1 DEF AfterStop
  <2>4. i.op # "none"  BY <1>0, <2>1 DEF Fits
  <2>5. RestOk'
    BY <1>0, <2>1, <2>3 DEF RestOk
  <2>6. /\ JobInv' /\ \A t \in Slots : t # s => job'[t] = job[t]
        /\ job'[s].op \in {i.op, "none"} /\ job'[s].at = next
        /\ Follows(i, job'[s])
    <3>1. CASE next = "done"
      <4>1. job' = [job EXCEPT ![s] = NoJob]  BY <2>1, <3>1 DEF End, To
      <4>2. JobInv' /\ job'[s] = NoJob /\ \A t \in Slots : t # s => job'[t] = job[t]
        BY <1>0, <4>1, NothingAsked, JobGoes
      <4>3. i.op \in {"uninstall", "disable"}
        BY <1>0, <2>1, <2>2, <3>1 DEF Fits, Stops
      <4> QED  BY <2>1, <3>1, <4>2, <4>3, NothingAsked DEF Follows, Activated
    <3>2. CASE next # "done"
      <4>1. next \in Places /\ Goto(s, next)
        BY <2>1, <2>2, <3>2 DEF Places, Starts, Launches, OfFiles
      <4>2. ASSUME NEW j \in Requests, j.at = next, j.op = i.op, j.ver = i.ver, j.then = i.then
            PROVE  Fits(j)
        BY <1>0, <2>1, <2>2, <3>2, <4>2 DEF Fits, Starts, Stops, OfFiles, Launches
      <4>3. /\ JobInv' /\ \A t \in Slots : t # s => job'[t] = job[t]
            /\ job'[s].at = next /\ job'[s].op = i.op /\ job'[s].ver = i.ver
            /\ job'[s].prev = i.prev /\ job'[s].undone = i.undone
        BY <1>0, <4>1, <4>2, GoesOver
      <4>4. Follows(i, job'[s])
        BY <1>0, <2>1, <2>2, <3>2, <4>3 DEF Follows, Activated, Starts, Stops, Fits, Launches
      <4> QED  BY <4>3, <4>4
    <3> QED  BY <3>1, <3>2
  <2>7. FilesInv'  BY <1>0, <2>1, <2>6, FilesStay
  <2>8. ASSUME ~met
        PROVE  alive' = {} /\ StartsInv(job[s])'
    <3>1. /\ \A p \in alive : p = torHandle \/ (i.at = "stopping" /\ i.victim = p)
          /\ StartsInv(i) /\ (mode \in {"idle", "failed"} => alive = {})
      BY <1>0, <2>4, <2>8, OnlyRequest
    <3>2. torHandle = 0  BY <2>1, <3>1 DEF StartsInv
    <3>3. alive' = {}
      <4>1. 0 \notin alive  BY <1>0 DEF RestOk
      <4>2. \A p \in alive : p = i.victim  BY <3>1, <3>2, <4>1
      <4> QED  BY <2>1, <4>2
    <3>4. next \in Launches => i.then = next  BY DEF Launches
    <3>5. i.then \in {"spawn", "giveup"} => mode = "starting"
      BY <2>1, <3>1 DEF StartsInv, Stops
    <3>6. next \in Launches \cup {"fetch", "done", "remove"}  BY <2>2
    <3> QED  BY <2>1, <2>3, <2>6, <3>2, <3>3, <3>4, <3>5, <3>6 DEF StartsInv, Stops, Launches
  <2>9. RunInv'  BY <1>0, <2>1, <2>4, <2>6, <2>8, RunGoes
  <2> QED  BY <2>5, <2>6, <2>7, <2>9 DEF InstallInv
<1> QED  BY <1>1, <1>2

\* A start from its beginning, and what follows on an attempt that failed.
LEMMA StartSteps ==
    ASSUME InstallInv, NEW s \in Slots, Start(s) \/ ReadPointer(s) \/ SocksFail(s)
    PROVE  InstallInv'
<1> DEFINE i == job[s]
<1>0. /\ RestOk /\ JobInv /\ FilesInv /\ RunInv /\ i \in Requests /\ Fits(i)
  BY DEF InstallInv, JobInv
<1>1. /\ i.at \in {"start", "read", "socks"}
      /\ UNCHANGED <<published, folder, pointer, card, torHandle, alive, tors, damaged, mixed, met>>
      /\ mode' \in {mode, "failed"} /\ (i.at # "read" => mode' = mode)
  BY DEF Start, ReadPointer, SocksFail, Where, folderVars, runVars, History
<1>2. i.op \in {"install", "update", "enable"}  BY <1>0, <1>1 DEF Fits, Starts
<1>3. PICK j \in Requests :
          /\ job' = [job EXCEPT ![s] = j]
          /\ j.op = i.op /\ j.ver = i.ver /\ j.prev = i.prev /\ j.undone = i.undone
          /\ \/ i.at = "start" /\ j.at = "started"
             \/ i.at = "start" /\ j.at = "stop" /\ j.then = "read"
             \/ i.at = "read" /\ j.at = "spawn" /\ mode' = mode
             \/ i.at = "read" /\ j.at = "refused" /\ mode' = "failed"
             \/ i.at = "socks" /\ j.at = "stop" /\ j.then \in {"spawn", "giveup"}
  <2>1. CASE Start(s) /\ mode = "running"
    <3> DEFINE j == [i EXCEPT !.at = "started"]
    <3>1. i.at = "start" /\ job' = [job EXCEPT ![s] = j]
      BY <2>1 DEF Start, Where, Goto, To
    <3>2. /\ j \in Requests /\ j.op = i.op /\ j.ver = i.ver /\ j.prev = i.prev
          /\ j.undone = i.undone /\ j.at = "started"
      BY <1>0, Moved DEF Places
    <3> HIDE DEF j
    <3> QED  BY <3>1, <3>2
  <2>2. CASE Start(s) /\ mode # "running"
    <3> DEFINE j == Restarting(i, "read")
    <3>1. i.at = "start" /\ job' = [job EXCEPT ![s] = j]
      BY <2>2 DEF Start, Where, To, Restarting
    <3>2. "read" \in Launches  BY DEF Launches
    <3>3. /\ j \in Requests /\ j.op = i.op /\ j.ver = i.ver /\ j.prev = i.prev
          /\ j.undone = i.undone /\ j.at = "stop" /\ j.then = "read"
      BY <1>0, <3>2, WhenStopping
    <3> HIDE DEF j
    <3> QED  BY <3>1, <3>3
  <2>3. CASE ReadPointer(s) /\ Launchable
    <3> DEFINE j == Launching(i)
    <3>1. i.at = "read" /\ job' = [job EXCEPT ![s] = j] /\ mode' = mode
      BY <2>3 DEF ReadPointer, Where, To, Launching
    <3>2. /\ j \in Requests /\ j.op = i.op /\ j.ver = i.ver /\ j.prev = i.prev
          /\ j.undone = i.undone /\ j.at = "spawn"
      BY <1>0, WhenStopping
    <3> HIDE DEF j
    <3> QED  BY <3>1, <3>2
  <2>4. CASE ReadPointer(s) /\ ~Launchable
    <3> DEFINE j == [i EXCEPT !.at = "refused"]
    <3>1. i.at = "read" /\ job' = [job EXCEPT ![s] = j] /\ mode' = "failed"
      BY <2>4 DEF ReadPointer, Where, Goto, To
    <3>2. "refused" \in Places  BY DEF Places, Starts
    <3>3. /\ j \in Requests /\ j.op = i.op /\ j.ver = i.ver /\ j.prev = i.prev
          /\ j.undone = i.undone /\ j.at = "refused"
      BY <1>0, <3>2, Moved
    <3> HIDE DEF j
    <3> QED  BY <3>1, <3>3
  <2>5. CASE SocksFail(s)
    <3>1. PICK n \in {"spawn", "giveup"} :
              i.at = "socks" /\ job' = [job EXCEPT ![s] = Retrying(i, n)]
      BY <2>5 DEF SocksFail, Where, To, Retrying
    <3> DEFINE j == Retrying(i, n)
    <3>2. n \in Launches  BY DEF Launches
    <3>3. /\ j \in Requests /\ j.op = i.op /\ j.ver = i.ver /\ j.prev = i.prev
          /\ j.undone = i.undone /\ j.at = "stop" /\ j.then = n
      BY <1>0, <3>2, WhenStopping
    <3>4. job' = [job EXCEPT ![s] = j]  BY <3>1
    <3> HIDE DEF j
    <3> QED  BY <3>1, <3>3, <3>4
  <2> QED  BY <2>1, <2>2, <2>3, <2>4, <2>5
<1>4. Fits(j)  BY <1>0, <1>2, <1>3 DEF Fits, Starts, Stops, OfFiles, Launches
<1>5. JobInv' /\ job'[s] = j /\ \A t \in Slots : t # s => job'[t] = job[t]
  BY <1>0, <1>3, <1>4, JobGoes
<1>6. Follows(i, j)  BY <1>1, <1>2, <1>3 DEF Follows, Activated, Starts, Stops
<1>7. FilesInv'  BY <1>0, <1>1, <1>5, <1>6, FilesStay
<1>8. ASSUME ~met
      PROVE  /\ \A p \in alive' : p = torHandle' \/ (j.at = "stopping" /\ j.victim = p)
             /\ StartsInv(job[s])' /\ (mode' \in {"idle", "failed"} => alive' = {})
  <2>1. /\ \A p \in alive : p = torHandle \/ (i.at = "stopping" /\ i.victim = p)
        /\ StartsInv(i) /\ (mode \in {"idle", "failed"} => alive = {})
    BY <1>0, <1>2, <1>8, OnlyRequest
  <2>2. i.at = "read" => alive = {} /\ mode = "starting"  BY <2>1 DEF StartsInv, Launches
  <2>3. i.at = "socks" => mode = "starting"  BY <2>1 DEF StartsInv
  <2>4. i.at # "stopping"  BY <1>1
  <2> QED  BY <1>1, <1>3, <1>5, <2>1, <2>2, <2>3, <2>4 DEF StartsInv, Stops, Launches
<1>9. RunInv'  BY <1>0, <1>1, <1>2, <1>3, <1>5, <1>8, RunGoes
<1>10. RestOk'  BY <1>0, <1>1 DEF RestOk
<1> QED  BY <1>5, <1>7, <1>9, <1>10 DEF InstallInv

\* The request that changes the directories is the only one of its kind.
LEMMA OnlyChange ==
    ASSUME JobInv, FilesInv, NEW s \in Slots, job[s].op \in Mutations, ~mixed
    PROVE  /\ \A t \in Slots : t # s => job[t].op \notin Mutations
           /\ ~damaged =>
                /\ pointer # 0 /\ folder[pointer] # "whole" =>
                       job[s].at = "unpack" /\ job[s].ver = pointer
                /\ card.status = "ready" =>
                       /\ pointer # 0
                       /\ card.version = pointer \/ (Activated(job[s]) /\ job[s].at # "prune")
                /\ TargetInv(job[s])
<1>1. \A t \in Slots : t # s => job[t].op \notin Mutations  BY DEF FilesInv, AloneInv
<1>2. \A t \in Slots : t # s => job[t].at # "unpack" /\ ~Activated(job[t])
  BY <1>1 DEF JobInv, Fits, OfFiles, Activated, Mutations
<1> QED  BY <1>1, <1>2 DEF FilesInv, PartInv, CardInv

LEMMA FilesGo ==
    ASSUME JobInv, FilesInv, NEW s \in Slots, NEW j, job[s].op \in Mutations,
           j.op \in {job[s].op, "none"},
           job'[s] = j, \A t \in Slots : t # s => job'[t] = job[t], mixed' = mixed,
           ~mixed /\ ~damaged' =>
                /\ pointer' # 0 /\ folder'[pointer'] # "whole" =>
                       j.at = "unpack" /\ j.ver = pointer'
                /\ card'.status = "ready" =>
                       /\ pointer' # 0
                       /\ card'.version = pointer' \/ (Activated(j) /\ j.at # "prune")
                /\ TargetInv(job[s])'
    PROVE  FilesInv'
<1> SUFFICES ASSUME ~mixed PROVE FilesInv'  BY DEF FilesInv
<1>1. \A t \in Slots : t # s => job[t].op \notin Mutations  BY DEF FilesInv, AloneInv
<1>2. AloneInv'  BY <1>1 DEF AloneInv
<1>3. ASSUME ~damaged' PROVE PartInv' /\ CardInv' /\ \A t \in Slots : TargetInv(job[t])'
  <2>1. PartInv'  BY <1>3 DEF PartInv
  <2>2. CardInv'
    <3>1. Activated(job[s])' <=> Activated(j)  BY DEF Activated
    <3> QED  BY <1>3, <3>1 DEF CardInv
  <2>3. ASSUME NEW t \in Slots, t # s PROVE TargetInv(job[t])'
    <3>1. job[t].at # "swap" /\ job[t].op \notin {"install", "update"}
      BY <1>1, <2>3 DEF JobInv, Fits, OfFiles, Mutations
    <3> QED  BY <2>3, <3>1 DEF TargetInv, Activated
  <2> QED  BY <1>3, <2>1, <2>2, <2>3
<1> QED  BY <1>2, <1>3 DEF FilesInv

\* The steps of an installation.
LEMMA InstallSteps ==
    ASSUME InstallInv, NEW s \in Slots,
           InstallFails(s) \/ Clear(s) \/ Unpacked(s) \/ LeavesTemp(s)
    PROVE  InstallInv'
<1> DEFINE i == job[s]
<1>0. /\ RestOk /\ JobInv /\ FilesInv /\ RunInv /\ i \in Requests /\ Fits(i)
  BY DEF InstallInv, JobInv
<1>1. /\ i.at \in {"fetch", "clear", "unpack", "swap"}
      /\ UNCHANGED <<published, mode, torHandle, alive, tors, mixed, met>>
  BY DEF InstallFails, Clear, Unpacked, LeavesTemp, Where, runVars, History
<1>2. i.op \in {"install", "update"} /\ i.ver \in Versions /\ i.op \in Mutations /\ ~Activated(i)
  BY <1>0, <1>1 DEF Fits, OfFiles, Mutations, Activated, Starts, Stops
<1>3. ~mixed /\ ~damaged =>
        /\ pointer # 0 /\ folder[pointer] # "whole" => i.at = "unpack" /\ i.ver = pointer
        /\ card.status = "ready" => pointer # 0 /\ card.version = pointer
        /\ TargetInv(i)
  BY <1>0, <1>2, OnlyChange
<1>4. CASE InstallFails(s) \/ LeavesTemp(s)
  <2>1. /\ job' = [job EXCEPT ![s] = NoJob] /\ card' = Failed
        /\ pointer' \in {pointer, i.ver}
        /\ \/ folder' = folder
           \/ \E d \in {folder[i.ver], "part"} : folder' = [folder EXCEPT ![i.ver] = d]
    BY <1>4 DEF InstallFails, LeavesTemp, Where, End, To
  <2>2. JobInv' /\ job'[s] = NoJob /\ \A t \in Slots : t # s => job'[t] = job[t]
    BY <1>0, <2>1, NothingAsked, JobGoes
  <2>3. folder' \in [Versions -> {"none", "part", "whole"}]  BY <1>0, <1>2, <2>1 DEF RestOk
  <2>4. RestOk'  BY <1>0, <1>1, <1>2, <2>1, <2>3, CardFails, Bounds DEF RestOk
  <2>5. card'.status # "ready"  BY <1>0, <2>1, CardFails
  <2>6. ASSUME ~mixed, ~damaged' PROVE pointer' # 0 => folder'[pointer'] = "whole"
    <3>1. CASE InstallFails(s)
      <4>1. damaged' = (damaged \/ (pointer # 0 /\ folder'[pointer] # "whole"))
            /\ pointer' = pointer
        BY <3>1 DEF InstallFails
      <4> QED  BY <2>6, <4>1
    <3>2. CASE LeavesTemp(s)
      <4>1. i.at = "swap" /\ pointer' = i.ver /\ folder' = folder /\ damaged' = damaged
        BY <3>2 DEF LeavesTemp, Where, History
      <4> QED  BY <1>3, <2>6, <4>1 DEF TargetInv
    <3> QED  BY <1>4, <3>1, <3>2
  <2>7. TargetInv(job[s])'  BY <2>2, NothingAsked DEF TargetInv, Activated
  <2>8. NoJob.op \in {i.op, "none"}  BY NothingAsked
  <2>9. FilesInv'  BY <1>0, <1>1, <1>2, <2>2, <2>5, <2>6, <2>7, <2>8, FilesGo
  <2>10. Calm(NoJob)  BY NothingAsked DEF Calm
  <2>11. RunInv'  BY <1>0, <1>1, <2>2, <2>8, <2>10, RunStays
  <2> QED  BY <2>2, <2>4, <2>9, <2>11 DEF InstallInv
<1>5. CASE Clear(s) \/ Unpacked(s)
  <2>1. PICK q \in {"unpack", "swap"} :
            /\ Goto(s, q)
            /\ UNCHANGED <<pointer, card, damaged>>
            /\ \/ i.at = "clear" /\ q = "unpack" /\ folder' = [folder EXCEPT ![i.ver] = "part"]
               \/ i.at = "unpack" /\ q = "swap" /\ folder' = [folder EXCEPT ![i.ver] = "whole"]
    BY <1>5 DEF Clear, Unpacked, Where, History
  <2>2. q \in Places  BY DEF Places, OfFiles
  <2>3. ASSUME NEW j \in Requests, j.at = q, j.op = i.op, j.ver = i.ver, j.then = i.then
        PROVE  Fits(j)
    BY <1>0, <1>2, <2>3 DEF Fits, Starts, Stops, OfFiles
  <2>4. /\ JobInv' /\ \A t \in Slots : t # s => job'[t] = job[t]
        /\ job'[s].at = q /\ job'[s].op = i.op /\ job'[s].ver = i.ver
    BY <1>0, <2>1, <2>2, <2>3, GoesOver
  <2>5. RestOk'  BY <1>0, <1>1, <2>1 DEF RestOk
  <2>6. ASSUME ~mixed, ~damaged
        PROVE  /\ pointer' # 0 /\ folder'[pointer'] # "whole" => q = "unpack" /\ i.ver = pointer'
               /\ card'.status = "ready" => pointer' # 0 /\ card'.version = pointer'
               /\ TargetInv(job[s])'
    <3>1. /\ pointer # 0 /\ folder[pointer] # "whole" => i.at = "unpack" /\ i.ver = pointer
          /\ card.status = "ready" => pointer # 0 /\ card.version = pointer
      BY <1>3, <2>6
    <3>2. pointer # 0 => pointer \in Versions  BY <1>0, Bounds DEF RestOk
    <3>3. folder \in [Versions -> {"none", "part", "whole"}]  BY <1>0 DEF RestOk
    <3>4. ~Activated(job'[s])  BY <2>4 DEF Activated, Starts, Stops
    <3>5. TargetInv(job[s])'
      BY <1>2, <2>1, <2>4, <3>3, <3>4 DEF TargetInv, Activated
    <3>6. pointer' # 0 /\ folder'[pointer'] # "whole" => q = "unpack" /\ i.ver = pointer'
      BY <1>2, <2>1, <3>1, <3>2, <3>3
    <3> QED  BY <2>1, <3>1, <3>5, <3>6
  <2>7. FilesInv'  BY <1>0, <1>1, <1>2, <2>1, <2>4, <2>6, FilesGo
  <2>8. Calm(job'[s])  BY <2>4 DEF Calm
  <2>9. RunInv'  BY <1>0, <1>1, <2>4, <2>8, RunStays
  <2> QED  BY <2>4, <2>5, <2>7, <2>9 DEF InstallInv
<1> QED  BY <1>4, <1>5

\* The pointer is set: what was current is what a roll-back goes back to.
LEMMA ActivateStep ==
    ASSUME InstallInv, NEW s \in Slots, Activate(s)
    PROVE  InstallInv'
<1> DEFINE i == job[s]
<1>0. /\ RestOk /\ JobInv /\ FilesInv /\ RunInv /\ i \in Requests /\ Fits(i)
  BY DEF InstallInv, JobInv
<1>1. PICK q \in {"start", "started"} :
          /\ i.at = "swap" /\ pointer' = i.ver
          /\ job' = [job EXCEPT ![s] = [i EXCEPT !.at = q, !.prev = pointer]]
          /\ UNCHANGED <<published, folder, card, mode, torHandle, alive, tors, damaged, mixed,
                         met>>
  BY DEF Activate, Where, To, runVars, History
<1>2. i.op \in {"install", "update"} /\ i.ver \in Versions /\ i.op \in Mutations /\ ~Activated(i)
  BY <1>0, <1>1 DEF Fits, OfFiles, Mutations, Activated, Starts, Stops
<1>3. pointer \in 0..LastVersion /\ i.ver \in 0..LastVersion /\ i.ver # 0
  BY <1>0, <1>2, Bounds DEF RestOk
<1> DEFINE j == [i EXCEPT !.at = q, !.prev = pointer]
<1>4. /\ j \in Requests /\ j.at = q /\ j.op = i.op /\ j.ver = i.ver /\ j.prev = pointer
      /\ j.undone = i.undone
  BY <1>0, <1>3 DEF Requests, Starts
<1>5. job' = [job EXCEPT ![s] = j]  BY <1>1
<1> HIDE DEF j
<1>6. Fits(j)  BY <1>2, <1>4 DEF Fits, Starts, Stops, OfFiles
<1>7. JobInv' /\ job'[s] = j /\ \A t \in Slots : t # s => job'[t] = job[t]
  BY <1>0, <1>4, <1>5, <1>6, JobGoes
<1>8. RestOk'  BY <1>0, <1>1, <1>3 DEF RestOk
<1>9. Activated(j) /\ j.at # "prune" /\ j.at # "swap" /\ j.at # "unpack"
  BY <1>2, <1>4 DEF Activated, Starts
<1>10. ASSUME ~mixed, ~damaged
       PROVE  /\ folder'[pointer'] = "whole"
              /\ card'.status = "ready" => pointer' # 0 /\ Activated(j) /\ j.at # "prune"
              /\ TargetInv(job[s])'
  <2>1. /\ pointer # 0 => folder[pointer] = "whole"
        /\ folder[i.ver] = "whole"
    BY <1>0, <1>1, <1>2, <1>10, OnlyChange DEF TargetInv
  <2> QED  BY <1>1, <1>3, <1>4, <1>7, <1>9, <2>1 DEF TargetInv
<1>11. FilesInv'  BY <1>0, <1>1, <1>2, <1>4, <1>7, <1>10, FilesGo
<1>12. Calm(j)  BY <1>4 DEF Calm
<1>13. RunInv'  BY <1>0, <1>1, <1>4, <1>7, <1>12, RunStays
<1> QED  BY <1>7, <1>8, <1>11, <1>13 DEF InstallInv

\* The card after a start that succeeded; the version is shown as ready.
LEMMA StartedStep ==
    ASSUME InstallInv, NEW s \in Slots, Started(s)
    PROVE  InstallInv'
<1> DEFINE i == job[s]
<1>0. /\ RestOk /\ JobInv /\ FilesInv /\ RunInv /\ i \in Requests /\ Fits(i)
  BY DEF InstallInv, JobInv
<1>1. /\ i.at = "started"
      /\ UNCHANGED <<published, folder, pointer, mode, torHandle, alive, tors, damaged, mixed, met>>
      /\ \/ i.op = "enable" /\ End(s) /\ card' = card
         \/ i.op # "enable" /\ i.undone /\ End(s) /\ card' = Failed
         \/ /\ i.op # "enable" /\ ~i.undone /\ Goto(s, "prune")
            /\ card' = [card EXCEPT !.status = "ready", !.version = i.ver]
  <2>1. CASE i.op = "enable"
    BY <2>1 DEF Started, Where, folderVars, runVars, History
  <2>2. CASE i.op # "enable" /\ i.undone
    BY <2>2 DEF Started, Where, folderVars, runVars, History
  <2>3. CASE i.op # "enable" /\ ~i.undone
    BY <2>3 DEF Started, Where, folderVars, runVars, History
  <2> QED  BY <2>1, <2>2, <2>3
<1>2. i.op \in {"install", "update", "enable"}  BY <1>0, <1>1 DEF Fits
<1>3. CASE End(s)
  <2>1. job' = [job EXCEPT ![s] = NoJob]  BY <1>3 DEF End, To
  <2>2. JobInv' /\ job'[s] = NoJob /\ \A t \in Slots : t # s => job'[t] = job[t]
    BY <1>0, <2>1, NothingAsked, JobGoes
  <2>3. job'[s].at # "prune"  BY <2>2, NothingAsked
  <2>4. ~Goto(s, "prune")
    <3>1. Goto(s, "prune") => job'[s].at = "prune"
      BY <1>0 DEF Goto, To, JobInv, Requests
    <3> QED  BY <2>3, <3>1
  <2>5. RestOk'  BY <1>0, <1>1, <2>4, CardFails DEF RestOk
  <2>6. NoJob.op \in {i.op, "none"} /\ Calm(NoJob)  BY NothingAsked DEF Calm
  <2>7. RunInv'  BY <1>0, <1>1, <2>2, <2>6, RunStays
  <2>8. FilesInv'
    <3>1. CASE i.op = "enable"
      <4>1. card' = card  BY <1>1, <3>1
      <4>2. Follows(i, NoJob)
        BY <1>1, <3>1, NothingAsked DEF Follows, Activated
      <4> QED  BY <1>0, <1>1, <2>2, <4>1, <4>2, FilesStay
    <3>2. CASE i.op # "enable"
      <4>1. card' = Failed  BY <1>1, <2>4, <3>2
      <4>2. card'.status # "ready"  BY <1>0, <4>1, CardFails
      <4>3. i.op \in Mutations  BY <1>2, <3>2 DEF Mutations
      <4>4. TargetInv(job[s])'  BY <2>2, NothingAsked DEF TargetInv, Activated
      <4>5. ~mixed /\ ~damaged => (pointer # 0 => folder[pointer] = "whole")
        BY <1>0, <1>1, <4>3, OnlyChange
      <4> QED  BY <1>0, <1>1, <2>2, <2>6, <4>2, <4>3, <4>4, <4>5, FilesGo
    <3> QED  BY <3>1, <3>2
  <2> QED  BY <2>2, <2>5, <2>7, <2>8 DEF InstallInv
<1>4. CASE ~End(s)
  <2>1. /\ i.op # "enable" /\ ~i.undone /\ Goto(s, "prune")
        /\ card' = [card EXCEPT !.status = "ready", !.version = i.ver]
    BY <1>1, <1>4
  <2>2. i.op \in {"install", "update"} /\ i.op \in Mutations  BY <1>2, <2>1 DEF Mutations
  <2>3. i.ver \in Versions /\ i.ver # 0 /\ i.ver \in 0..LastVersion
    BY <1>0, <1>1, <2>2, Bounds DEF Fits
  <2>4. "prune" \in Places  BY DEF Places, OfFiles
  <2>5. ASSUME NEW j \in Requests, j.at = "prune", j.op = i.op, j.ver = i.ver, j.undone = i.undone
        PROVE  Fits(j)
    BY <2>1, <2>2, <2>3, <2>5 DEF Fits, Starts, Stops, OfFiles
  <2>6. /\ JobInv' /\ \A t \in Slots : t # s => job'[t] = job[t]
        /\ job'[s].at = "prune" /\ job'[s].op = i.op /\ job'[s].ver = i.ver
        /\ job'[s].undone = i.undone
    BY <1>0, <2>1, <2>4, <2>5, GoesOver
  <2>7. card' \in Cards /\ card'.version = i.ver
    BY <1>0, <2>1, <2>3 DEF RestOk, Cards
  <2>8. RestOk'  BY <1>0, <1>1, <2>7 DEF RestOk
  <2>9. RunInv'
    <3>1. Calm(job'[s])  BY <2>6 DEF Calm
    <3> QED  BY <1>0, <1>1, <2>6, <3>1, RunStays
  <2>10. Activated(i)  BY <1>1, <2>2 DEF Activated
  <2>11. ASSUME ~mixed, ~damaged
         PROVE  pointer = i.ver /\ folder[pointer] = "whole" /\ TargetInv(job[s])'
    <3>1. pointer = i.ver /\ folder[pointer] = "whole"
      BY <1>0, <2>1, <2>2, <2>10, <2>11, OnlyChange DEF TargetInv
    <3> QED  BY <1>1, <2>6, <3>1 DEF TargetInv
  <2>12. FilesInv'  BY <1>0, <1>1, <2>2, <2>3, <2>6, <2>7, <2>11, FilesGo
  <2> QED  BY <2>6, <2>8, <2>9, <2>12 DEF InstallInv
<1> QED  BY <1>3, <1>4

\* The request that goes back to the version before.
Undoing(i, b) == [i EXCEPT !.at = "start", !.undone = b]

LEMMA WhenUndoing ==
    ASSUME NEW i \in Requests, NEW b \in BOOLEAN
    PROVE  /\ Undoing(i, b) \in Requests /\ Undoing(i, b).at = "start"
           /\ Undoing(i, b).op = i.op /\ Undoing(i, b).ver = i.ver
           /\ Undoing(i, b).prev = i.prev /\ Undoing(i, b).undone = b
  BY DEF Requests, Starts, Undoing

\* A start was refused: an update goes back, any other request ends.
LEMMA RefusedStep ==
    ASSUME InstallInv, NEW s \in Slots, Refused(s)
    PROVE  InstallInv'
<1> DEFINE i == job[s]
<1>0. /\ RestOk /\ JobInv /\ FilesInv /\ RunInv /\ i \in Requests /\ Fits(i)
  BY DEF InstallInv, JobInv
<1>1. /\ i.at = "refused"
      /\ UNCHANGED <<published, folder, mode, torHandle, alive, tors, damaged, mixed, met>>
  BY DEF Refused, Where, runVars, History
<1>2. i.op \in {"install", "update", "enable"}  BY <1>0, <1>1 DEF Fits, Starts
<1>3. CASE i.op = "update" /\ ~i.undone
  <2> DEFINE j == Undoing(i, TRUE)
  <2>1. /\ pointer' = IF i.prev # 0 THEN i.prev ELSE pointer
        /\ job' = [job EXCEPT ![s] = j] /\ card' = card
    BY <1>3 DEF Refused, RollBack, To, Undoing
  <2>2. /\ j \in Requests /\ j.at = "start" /\ j.op = i.op /\ j.ver = i.ver /\ j.prev = i.prev
        /\ j.undone = TRUE
    <3>1. TRUE \in BOOLEAN  BY Zenon
    <3> QED  BY <1>0, <3>1, WhenUndoing, Zenon
  <2> HIDE DEF j
  <2>3. Fits(j)
    BY <1>0, <1>1, <1>3, <2>2 DEF Fits, Starts, Stops, OfFiles
  <2>4. JobInv' /\ job'[s] = j /\ \A t \in Slots : t # s => job'[t] = job[t]
    BY <1>0, <2>1, <2>2, <2>3, JobGoes
  <2>5. pointer' \in 0..LastVersion  BY <1>0, <2>1 DEF RestOk, Requests
  <2>6. RestOk'  BY <1>0, <1>1, <2>1, <2>5 DEF RestOk
  <2>7. i.op \in Mutations /\ Activated(i) /\ Activated(j) /\ i.ver \in Versions
    BY <1>0, <1>1, <1>3, <2>2 DEF Mutations, Activated, Starts, Fits
  <2>8. ASSUME ~mixed, ~damaged
        PROVE  /\ pointer' # 0 /\ folder'[pointer'] = "whole" /\ TargetInv(job[s])'
    <3>1. TargetInv(i)  BY <1>0, <2>7, <2>8, OnlyChange
    <3>2. pointer = i.ver /\ folder[i.ver] = "whole" /\ (i.prev # 0 => folder[i.prev] = "whole")
      BY <1>1, <1>3, <2>7, <3>1 DEF TargetInv
    <3>3. i.ver # 0  BY <2>7, Bounds
    <3> QED  BY <1>1, <2>1, <2>2, <2>4, <3>2, <3>3 DEF TargetInv
  <2>9. FilesInv'  BY <1>0, <1>1, <2>2, <2>4, <2>7, <2>8, FilesGo
  <2>10. Calm(j)  BY <2>2 DEF Calm
  <2>11. RunInv'  BY <1>0, <1>1, <2>2, <2>4, <2>10, RunStays
  <2> QED  BY <2>4, <2>6, <2>9, <2>11 DEF InstallInv
<1>4. CASE ~(i.op = "update" /\ ~i.undone)
  <2>1. /\ job' = [job EXCEPT ![s] = NoJob] /\ pointer' = pointer
        /\ card' = IF i.op = "enable" THEN card ELSE Failed
    BY <1>4 DEF Refused, End, To
  <2>2. JobInv' /\ job'[s] = NoJob /\ \A t \in Slots : t # s => job'[t] = job[t]
    BY <1>0, <2>1, NothingAsked, JobGoes
  <2>3. RestOk'  BY <1>0, <1>1, <2>1, CardFails DEF RestOk
  <2>4. NoJob.op \in {i.op, "none"} /\ Calm(NoJob)  BY NothingAsked DEF Calm
  <2>5. RunInv'  BY <1>0, <1>1, <2>2, <2>4, RunStays
  <2>6. FilesInv'
    <3>1. CASE i.op = "enable"
      <4>1. Follows(i, NoJob)  BY <1>1, <3>1, NothingAsked DEF Follows, Activated
      <4>2. card' = card  BY <2>1, <3>1
      <4> QED  BY <1>0, <1>1, <2>1, <2>2, <4>1, <4>2, FilesStay
    <3>2. CASE i.op # "enable"
      <4>1. card'.status # "ready"  BY <1>0, <2>1, <3>2, CardFails
      <4>2. i.op \in Mutations  BY <1>2, <3>2 DEF Mutations
      <4>3. TargetInv(job[s])'  BY <2>2, NothingAsked DEF TargetInv, Activated
      <4>4. ~mixed /\ ~damaged => (pointer # 0 => folder[pointer] = "whole")
        BY <1>0, <1>1, <4>2, OnlyChange
      <4> QED  BY <1>0, <1>1, <2>1, <2>2, <2>4, <4>1, <4>2, <4>3, <4>4, FilesGo
    <3> QED  BY <3>1, <3>2
  <2> QED  BY <2>2, <2>3, <2>5, <2>6 DEF InstallInv
<1> QED  BY <1>3, <1>4

\* What is removed: the other versions, or everything.
LEMMA RemovalSteps ==
    ASSUME InstallInv, NEW s \in Slots, Prune(s) \/ Remove(s) \/ RemoveFails(s)
    PROVE  InstallInv'
<1> DEFINE i == job[s]
<1>0. /\ RestOk /\ JobInv /\ FilesInv /\ RunInv /\ i \in Requests /\ Fits(i)
  BY DEF InstallInv, JobInv
<1>1. /\ i.at \in {"prune", "remove"}
      /\ UNCHANGED <<published, mode, torHandle, alive, tors, mixed, met>>
      /\ job' = [job EXCEPT ![s] = NoJob]
  BY DEF Prune, Remove, RemoveFails, Where, End, To, runVars, History
<1>2. i.op \in Mutations  BY <1>0, <1>1 DEF Fits, OfFiles, Mutations
<1>3. JobInv' /\ job'[s] = NoJob /\ \A t \in Slots : t # s => job'[t] = job[t]
  BY <1>0, <1>1, NothingAsked, JobGoes
<1>4. NoJob.op \in {i.op, "none"} /\ Calm(NoJob)  BY NothingAsked DEF Calm
<1>5. RunInv'  BY <1>0, <1>1, <1>3, <1>4, RunStays
<1>6. TargetInv(job[s])'  BY <1>3, NothingAsked DEF TargetInv, Activated
<1>7. CASE Prune(s)
  <2>1. PICK gone \in SUBSET OtherVersions(s) :
            folder' = [v \in Versions |-> IF v \in gone THEN "none" ELSE folder[v]]
    BY <1>7 DEF Prune
  <2>2. i.at = "prune" /\ UNCHANGED <<pointer, card, damaged>>
    BY <1>7 DEF Prune, Where, History
  <2>3. folder' \in [Versions -> {"none", "part", "whole"}]  BY <1>0, <2>1 DEF RestOk
  <2>4. RestOk'  BY <1>0, <1>1, <2>2, <2>3 DEF RestOk
  <2>5. Activated(i) /\ ~i.undone /\ i.ver \in Versions
    BY <1>0, <2>2 DEF Activated, Fits, OfFiles
  <2>6. ASSUME ~mixed, ~damaged
        PROVE  /\ folder'[pointer'] = "whole"
               /\ card'.status = "ready" => pointer' # 0 /\ card'.version = pointer'
    <3>1. /\ TargetInv(i) /\ (card.status = "ready" => pointer # 0 /\ card.version = pointer)
      BY <1>0, <1>2, <2>2, <2>6, OnlyChange
    <3>2. pointer = i.ver /\ folder[i.ver] = "whole"  BY <2>5, <3>1 DEF TargetInv
    <3>3. i.ver \notin gone  BY <2>1 DEF OtherVersions
    <3> QED  BY <2>1, <2>2, <2>5, <3>1, <3>2, <3>3
  <2>7. FilesInv'  BY <1>0, <1>1, <1>2, <1>3, <1>4, <1>6, <2>2, <2>6, FilesGo
  <2> QED  BY <1>3, <1>5, <2>4, <2>7 DEF InstallInv
<1>8. CASE Remove(s)
  <2>1. /\ folder' = [v \in Versions |-> "none"] /\ pointer' = 0 /\ damaged' = damaged
        /\ card' = [latest |-> 0, status |-> "idle", version |-> 0]
    BY <1>8 DEF Remove, History
  <2>2. card' \in Cards /\ card'.status # "ready"  BY <2>1, Bounds DEF Cards
  <2>3. pointer' \in 0..LastVersion  BY <2>1, Bounds
  <2>4. RestOk'  BY <1>0, <1>1, <2>1, <2>2, <2>3 DEF RestOk
  <2>5. FilesInv'  BY <1>0, <1>1, <1>2, <1>3, <1>4, <1>6, <2>1, <2>2, FilesGo
  <2> QED  BY <1>3, <1>5, <2>4, <2>5 DEF InstallInv
<1>9. CASE RemoveFails(s)
  <2>1. /\ i.at = "remove" /\ pointer' \in {pointer, 0} /\ card' = card
        /\ damaged' = (damaged \/ <<folder', pointer'>> # <<folder, pointer>>)
    BY <1>9 DEF RemoveFails, Where, folderVars
  <2>2. folder' \in [Versions -> {"none", "part", "whole"}]
    BY <1>0, <1>9 DEF RemoveFails, RestOk
  <2>3. pointer' \in 0..LastVersion  BY <1>0, <2>1, Bounds DEF RestOk
  <2>4. RestOk'  BY <1>0, <1>1, <2>1, <2>2, <2>3 DEF RestOk
  <2>5. ~damaged' => ~damaged /\ folder' = folder /\ pointer' = pointer  BY <2>1
  <2>6. i.at # "unpack" /\ ~Activated(i)
    BY <1>0, <2>1 DEF Activated, Starts, Stops, Fits
  <2>7. ~mixed /\ ~damaged' =>
           /\ pointer' # 0 => folder'[pointer'] = "whole"
           /\ card'.status = "ready" => pointer' # 0 /\ card'.version = pointer'
    BY <1>0, <1>2, <2>1, <2>5, <2>6, OnlyChange
  <2>8. FilesInv'  BY <1>0, <1>1, <1>2, <1>3, <1>4, <1>6, <2>7, FilesGo
  <2> QED  BY <1>3, <1>5, <2>4, <2>8 DEF InstallInv
<1> QED  BY <1>7, <1>8, <1>9

\* A request begins: two that change the directories are counted as mixed, any two as met.
Beginning(verb, p) == [NoJob EXCEPT !.op = verb, !.at = p]

LEMMA WhenBeginning ==
    ASSUME NEW verb \in Ops, NEW p \in Places
    PROVE  /\ Beginning(verb, p) \in Requests /\ Beginning(verb, p).op = verb
           /\ Beginning(verb, p).at = p /\ Beginning(verb, p).then = "done"
           /\ Beginning(verb, p).ver = 0
<1>1. ASSUME NEW i \in Requests, i.then = "done", i.ver = 0
      PROVE  LET j == [i EXCEPT !.op = verb, !.at = p]
             IN  /\ j \in Requests /\ j.op = verb /\ j.at = p /\ j.then = "done" /\ j.ver = 0
  BY <1>1 DEF Requests, Places
<1> QED  BY <1>1, NothingAsked DEF Beginning

LEMMA AskStep ==
    ASSUME InstallInv, NEW s \in Slots, NEW verb \in Ops, Ask(s, verb)
    PROVE  InstallInv'
<1> DEFINE o == CHOOSE x \in Slots : x # s
<1>0. /\ RestOk /\ JobInv /\ FilesInv /\ RunInv /\ Fits(job[s])
  BY DEF InstallInv, JobInv
<1>1. o \in Slots /\ o # s /\ \A t \in Slots : t \in {s, o}  BY DEF Slots
<1> HIDE DEF o
<1>2. PICK q \in {"check", "start", "stop"} :
          /\ job' = [job EXCEPT ![s] = Beginning(verb, q)]
          /\ verb \in {"install", "update"} => q = "check"
          /\ verb = "enable" => q = "start"
          /\ verb \in {"uninstall", "disable"} => q = "stop"
  BY DEF Ask, To, Beginning, Ops
<1>3. /\ job[s].op = "none"
      /\ UNCHANGED <<published, folder, pointer, card, mode, torHandle, alive, tors, damaged>>
  BY DEF Ask, Busy, folderVars, runVars
<1>4. (met' <=> met \/ job[o].op # "none")
      /\ (mixed' <=> mixed \/ {verb, job[o].op} \subseteq Mutations)
  BY Zenon DEF Ask, Busy, o
<1> DEFINE j == Beginning(verb, q)
<1>5. q \in Places  BY DEF Places, Starts, Stops, OfFiles
<1>6. /\ j \in Requests /\ j.op = verb /\ j.at = q /\ j.then = "done" /\ j.ver = 0
  BY <1>5, WhenBeginning
<1>a. verb # "none" /\ verb \in {"install", "update", "uninstall", "enable", "disable"}  BY DEF Ops
<1>7. job' = [job EXCEPT ![s] = j]  BY <1>2
<1> HIDE DEF j
<1>8. Fits(j)
  BY <1>2, <1>6, <1>a DEF Fits, OfFiles, Stops, Starts, Launches
<1>9. JobInv' /\ job'[s] = j /\ \A t \in Slots : t # s => job'[t] = job[t]
  BY <1>0, <1>6, <1>7, <1>8, JobGoes
<1>10. RestOk'  BY <1>0, <1>3 DEF RestOk
<1>11. job[s].at = "done"  BY <1>0, <1>3 DEF Fits
<1>12. ~Activated(j)  BY <1>2, <1>6, <1>a DEF Activated, Starts, Stops
<1>13. FilesInv'
  <2>1. ASSUME ~mixed' PROVE AloneInv'
    <3>1. AloneInv /\ ~({verb, job[o].op} \subseteq Mutations)
      BY <1>0, <1>4, <2>1 DEF FilesInv
    <3> QED  BY <1>1, <1>6, <1>9, <3>1 DEF AloneInv
  <2>2. ASSUME ~mixed, ~damaged
        PROVE  PartInv' /\ CardInv' /\ \A t \in Slots : TargetInv(job[t])'
    <3>1. PartInv'  BY <1>0, <1>3, <1>9, <1>11, <2>2 DEF FilesInv, PartInv
    <3>2. CardInv'
      <4>1. ~Activated(job[s])  BY <1>3 DEF Activated
      <4>2. \A t \in Slots : t # s => (Activated(job[t])' <=> Activated(job[t]))
        BY <1>9 DEF Activated
      <4>3. card.status = "ready" =>
                /\ pointer # 0
                /\ \/ card.version = pointer
                   \/ \E t \in Slots : t # s /\ Activated(job[t]) /\ job[t].at # "prune"
        BY <1>0, <2>2, <4>1 DEF FilesInv, CardInv
      <4> QED  BY <1>3, <1>9, <4>2, <4>3 DEF CardInv
    <3>3. TargetInv(job[s])'
      BY <1>2, <1>6, <1>9, <1>12 DEF TargetInv, Activated
    <3>4. ASSUME NEW t \in Slots, t # s PROVE TargetInv(job[t])'
      <4>1. TargetInv(job[t])  BY <1>0, <2>2 DEF FilesInv
      <4> QED  BY <1>3, <1>9, <3>4, <4>1 DEF TargetInv, Activated
    <3> QED  BY <3>1, <3>2, <3>3, <3>4
  <2>3. ~mixed' => ~mixed  BY <1>4
  <2>4. damaged' = damaged  BY <1>3
  <2> QED  BY <2>1, <2>2, <2>3, <2>4 DEF FilesInv
<1>14. RunInv'
  <2> SUFFICES ASSUME ~met' PROVE RunInv'  BY DEF RunInv
  <2>1. ~met /\ job[o].op = "none"  BY <1>4
  <2>2. SoloInv'  BY <1>1, <1>9, <2>1 DEF SoloInv, Busy
  <2>3. HeldInv'  BY <1>0, <1>3, <1>9, <1>11, <2>1 DEF RunInv, HeldInv, Where
  <2>4. StartsInv(job[s])'
    BY <1>2, <1>6, <1>9 DEF StartsInv, Launches, Stops
  <2>5. ASSUME NEW t \in Slots, t # s PROVE StartsInv(job[t])'
    BY <1>0, <1>3, <1>9, <2>1, <2>5 DEF RunInv, StartsInv
  <2>6. mode' \in {"idle", "failed"} => alive' = {}  BY <1>0, <1>3, <2>1 DEF RunInv
  <2> QED  BY <2>2, <2>3, <2>4, <2>5, <2>6 DEF RunInv
<1> QED  BY <1>9, <1>10, <1>13, <1>14 DEF InstallInv

\* The card is refreshed; a process ends by itself.
LEMMA OutsideSteps ==
    ASSUME InstallInv,
           \/ \E found \in BOOLEAN : CheckUpdates(found)
           \/ \E p \in alive : TorEnds(p)
           \/ UNCHANGED installVars
    PROVE  InstallInv'
<1>0. RestOk /\ JobInv /\ FilesInv /\ RunInv  BY DEF InstallInv
<1>1. CASE \E found \in BOOLEAN : CheckUpdates(found)
  <2>1. /\ published' \in published..LastVersion
        /\ \E l \in {0, published'} : card' = [card EXCEPT !.latest = l, !.version = pointer]
        /\ UNCHANGED <<folder, pointer, mode, torHandle, alive, tors, job, damaged, mixed, met>>
    BY <1>1 DEF CheckUpdates, folderVars, runVars, History
  <2>2. published' \in Versions  BY <1>0, <2>1, Bounds DEF RestOk
  <2>3. card' \in Cards /\ card'.status = card.status /\ card'.version = pointer
    <3>1. PICK l \in {0, published'} : card' = [card EXCEPT !.latest = l, !.version = pointer]
      BY <2>1
    <3>2. l \in 0..LastVersion /\ pointer \in 0..LastVersion /\ card \in Cards
      BY <1>0, <2>2, Bounds DEF RestOk
    <3> QED  BY <3>1, <3>2 DEF Cards
  <2>4. RestOk'  BY <1>0, <2>1, <2>2, <2>3 DEF RestOk
  <2>5. JobInv'  BY <1>0, <2>1 DEF JobInv, Fits
  <2>6. FilesInv'
    BY <1>0, <2>1, <2>3 DEF FilesInv, AloneInv, PartInv, TargetInv, CardInv, Activated
  <2>7. RunInv'
    BY <1>0, <2>1 DEF RunInv, SoloInv, HeldInv, StartsInv, Busy, Where
  <2> QED  BY <2>4, <2>5, <2>6, <2>7 DEF InstallInv
<1>2. CASE \E p \in alive : TorEnds(p)
  <2>1. PICK p \in alive : TorEnds(p)  BY <1>2
  <2>2. /\ alive' = alive \ {p} /\ torHandle' = IF torHandle = p THEN 0 ELSE torHandle
        /\ UNCHANGED <<published, folder, pointer, card, mode, tors, job, damaged, mixed, met>>
    BY <2>1 DEF TorEnds, folderVars, History
  <2>3. RestOk'  BY <1>0, <2>2 DEF RestOk
  <2>4. JobInv'  BY <1>0, <2>2 DEF JobInv, Fits
  <2>5. FilesInv'
    BY <1>0, <2>2 DEF FilesInv, AloneInv, PartInv, TargetInv, CardInv, Activated
  <2>6. RunInv'
    <3> SUFFICES ASSUME ~met PROVE RunInv'  BY <2>2 DEF RunInv
    <3>1. SoloInv'  BY <1>0, <2>2 DEF RunInv, SoloInv, Busy
    <3>2. HeldInv'  BY <1>0, <2>2 DEF RunInv, HeldInv, Where
    <3>3. \A s \in Slots : StartsInv(job[s])'  BY <1>0, <2>2 DEF RunInv, StartsInv
    <3> QED  BY <1>0, <2>2, <3>1, <3>2, <3>3 DEF RunInv
  <2> QED  BY <2>3, <2>4, <2>5, <2>6 DEF InstallInv
<1>3. CASE UNCHANGED installVars
  <2>1. UNCHANGED <<published, folder, pointer, card, mode, torHandle, alive, tors, job, damaged,
                    mixed, met>>
    BY <1>3 DEF installVars, folderVars, runVars
  <2>2. RestOk' /\ JobInv'  BY <1>0, <2>1 DEF RestOk, JobInv, Fits
  <2>3. FilesInv'
    BY <1>0, <2>1 DEF FilesInv, AloneInv, PartInv, TargetInv, CardInv, Activated
  <2>4. RunInv'
    BY <1>0, <2>1 DEF RunInv, SoloInv, HeldInv, StartsInv, Busy, Where
  <2> QED  BY <2>2, <2>3, <2>4 DEF InstallInv
<1> QED  BY <1>1, <1>2, <1>3

LEMMA InstallBegins == InstallInit => InstallInv
<1> SUFFICES ASSUME InstallInit PROVE InstallInv  OBVIOUS
<1>1. /\ \A s \in Slots : job[s] = NoJob
      /\ job = [s \in Slots |-> NoJob]
  BY DEF InstallInit
<1>2. /\ published = 1 /\ pointer \in {0, 1} /\ mode = "idle" /\ torHandle = 0 /\ alive = {}
      /\ tors = 0 /\ card = [latest |-> 0, status |-> "idle", version |-> 0]
      /\ folder \in [Versions -> {"none", "whole"}] /\ (pointer = 1 => folder[1] = "whole")
  <2>1. 1 \in Versions  BY Bounds
  <2> QED  BY <2>1 DEF InstallInit
<1>3. card \in Cards /\ card.status # "ready"  BY <1>2, Bounds DEF Cards
<1>4. RestOk
  <2>1. /\ published \in Versions /\ pointer \in 0..LastVersion /\ tors \in 0..MaxTors
        /\ torHandle \in 0..tors /\ alive \subseteq 1..tors
    BY <1>2, Bounds
  <2> QED  BY <1>2, <1>3, <2>1 DEF RestOk
<1>5. JobInv  BY <1>1, NothingAsked DEF JobInv
<1>6. FilesInv
  <2>1. AloneInv  BY <1>1, NothingAsked DEF AloneInv, Mutations
  <2>2. PartInv  BY <1>2 DEF PartInv
  <2>3. CardInv  BY <1>3 DEF CardInv
  <2>4. \A s \in Slots : TargetInv(job[s])  BY <1>1, NothingAsked DEF TargetInv
  <2> QED  BY <2>1, <2>2, <2>3, <2>4 DEF FilesInv
<1>7. RunInv
  <2>1. SoloInv  BY <1>1, NothingAsked DEF SoloInv, Busy
  <2>2. HeldInv  BY <1>2 DEF HeldInv
  <2>3. \A s \in Slots : StartsInv(job[s])
    BY <1>1, NothingAsked DEF StartsInv, Launches, Stops
  <2> QED  BY <1>2, <2>1, <2>2, <2>3 DEF RunInv
<1> QED  BY <1>4, <1>5, <1>6, <1>7 DEF InstallInv

LEMMA InstallStep == InstallInv /\ [InstallNext]_installVars => InstallInv'
<1> SUFFICES ASSUME InstallInv, [InstallNext]_installVars PROVE InstallInv'  OBVIOUS
<1>1. ASSUME NEW s \in Slots, JobStep(s) PROVE InstallInv'
  <2>1. CASE StartStep(s)  BY <2>1, ComingUp, StartSteps DEF StartStep
  <2>2. CASE FilesStep(s)  BY <2>2, CheckSteps, InstallSteps, ActivateStep DEF FilesStep
  <2> QED
    BY <1>1, <2>1, <2>2, CheckSteps, StopSteps, StartedStep, RefusedStep, RemovalSteps
       DEF JobStep
<1>2. ASSUME NEW s \in Slots, NEW verb \in Ops, Ask(s, verb) PROVE InstallInv'
  BY <1>2, AskStep
<1> QED  BY <1>1, <1>2, OutsideSteps DEF InstallNext

\* Over failing downloads, roll-backs and removals (registerOnionIpc, installTor,
\* swapWithRollback) the current version stays startable and is the one that is shown, and no
\* Tor process is left behind, for any number of versions, requests and attempts.
THEOREM CurrentStaysWhole == InstallSpec => []InstallSound
<1>1. ASSUME InstallInv PROVE InstallSound
  <2>0. RestOk /\ JobInv /\ FilesInv /\ RunInv  BY <1>1 DEF InstallInv
  <2>1. InstallTypeOK
    <3>1. torHandle \in 0..MaxTors /\ alive \subseteq 1..MaxTors  BY <2>0, Bounds DEF RestOk
    <3>2. \A s \in Slots : job[s].op \in Ops \cup {"none"}  BY <2>0 DEF JobInv, Requests
    <3>3. /\ card.latest \in 0..LastVersion /\ card.version \in 0..LastVersion
          /\ card.status \in {"idle", "downloading", "ready", "failed"}
      BY <2>0 DEF RestOk, Cards
    <3> QED  BY <2>0, <3>1, <3>2, <3>3 DEF InstallTypeOK, RestOk
  <2>2. CurrentIsWhole  BY <2>0 DEF FilesInv, PartInv, CurrentIsWhole
  <2>3. ReadyIsCurrent
    BY <2>0 DEF FilesInv, CardInv, ReadyIsCurrent, Resting, Busy, Activated
  <2>4. NoStrayTor  BY <2>0 DEF RunInv, HeldInv, NoStrayTor
  <2>5. IdleIsQuiet  BY <2>0 DEF RunInv, IdleIsQuiet
  <2> QED  BY <2>1, <2>2, <2>3, <2>4, <2>5 DEF InstallSound
<1> QED  BY <1>1, InstallBegins, InstallStep, PTL DEF InstallSpec


-----------------------------------------------------------------------------
(***************************************************************************)
(* A conversation (Conversation).                                          *)
(***************************************************************************)

Pubs == {"none", "a", "b"} \X Nat
Secrets == Seq(SUBSET Pubs)
Chains == [root : Secrets, side : {"init", "send", "recv"}, turns : Nat]
RatchetStates ==
    [rk : Secrets, self : Pubs, remote : Pubs, mode : {"sym", "dh"}, sendI : Nat, recvI : Nat,
     sendCk : Chains, recvCk : Chains]
Envelopes == [kind : {"message", "chunk"}, dh : Pubs, i : Nat, key : Chains]
Ingests == [to : BothDevices, lamport : Nat, step : {"commit", "store", "apply"},
            state : RatchetStates]

ConvTypes ==
    /\ sent \in [BothDevices -> Seq(Envelopes)] /\ ratchet \in [BothDevices -> RatchetStates]
    /\ ingests \subseteq Ingests /\ convSeen \in [BothDevices -> Nat] /\ convEnds \in Nat
    /\ events \in [BothDevices -> SUBSET Nat] /\ convShown \in [BothDevices -> SUBSET Nat]
    /\ opened \in [BothDevices -> SUBSET Nat] /\ failed \in [BothDevices -> SUBSET Nat]

\* What is applied, stored or shown was opened, and what was opened had been sent.
OpenedInv ==
    /\ \A d \in BothDevices :
        /\ opened[d] \subseteq 1..Len(sent[Peer(d)])
        /\ events[d] \subseteq opened[d] /\ convShown[d] \subseteq opened[d]
    /\ \A o \in ingests : o.lamport \in opened[o.to]

\* A state that has opened nothing but the first chain, up to the last envelope it opened.
First == Chain(<<>>, "init")
OnFirst(s, d) == /\ s.recvCk = Advanced(First, s.recvI)
                 /\ s.recvI = 0 \/ s.recvI \in opened[d]

\* As long as a device has not written, the other knows no key of it; until the other changes
\* its own, everything is under the first chain.
OneWay(d) ==
    sent[d] = <<>> =>
        /\ ratchet[Peer(d)].remote = NoDhKey
        /\ Len(sent[Peer(d)]) <= RotateEvery =>
            /\ ratchet[Peer(d)].sendI = Len(sent[Peer(d)])
            /\ ratchet[Peer(d)].sendCk = Advanced(First, Len(sent[Peer(d)]))
            /\ \A n \in 1..Len(sent[Peer(d)]) :
                sent[Peer(d)][n].i = n - 1 /\ sent[Peer(d)][n].key = Advanced(First, n - 1)
            /\ OnFirst(ratchet[d], d)
            /\ \A o \in ingests : o.to = d => OnFirst(o.state, d)

OneWayInv == \A d \in BothDevices : OneWay(d)

ConvInv == ConvTypes /\ OpenedInv /\ OneWayInv /\ ConversationSound

LEMMA PeerIs ==
    \A d \in BothDevices : /\ Peer(d) \in BothDevices /\ Peer(d) # d /\ Peer(Peer(d)) = d
                           /\ \A e \in BothDevices : e = d \/ e = Peer(d)
<1>1. \A d \in BothDevices : \E other \in BothDevices : other # d  BY DEF BothDevices
<1>2. \A d \in BothDevices : Peer(d) \in BothDevices /\ Peer(d) # d  BY <1>1 DEF Peer
<1>3. Peer("a") = "b" /\ Peer("b") = "a"  BY <1>2 DEF BothDevices
<1> QED  BY <1>3 DEF BothDevices

LEMMA ChainTypes ==
    /\ \A root \in Secrets, side \in {"init", "send", "recv"} : Chain(root, side) \in Chains
    /\ <<>> \in Secrets /\ NoDhKey \in Pubs
    /\ \A n \in Nat, d \in BothDevices : <<d, n>> \in Pubs
  BY EmptySeq DEF Chain, Chains, Secrets, NoDhKey, Pubs, BothDevices

LEMMA AdvancedBy ==
    ASSUME NEW chain \in Chains, NEW n \in Nat
    PROVE  /\ Advanced(chain, n) \in Chains /\ Advanced(chain, n).side = chain.side
           /\ Advanced(chain, n).turns = chain.turns + n /\ Advanced(chain, n).root = chain.root
  BY DEF Advanced, Chains

LEMMA OnceMore ==
    /\ First \in Chains
    /\ \A m, n \in Nat : Advanced(Advanced(First, m), n) = Advanced(First, m + n)
<1>1. First \in Chains  BY ChainTypes DEF First
<1>2. ASSUME NEW m \in Nat, NEW n \in Nat
      PROVE  Advanced(Advanced(First, m), n) = Advanced(First, m + n)
  <2>1. Advanced(First, m) \in Chains /\ m + n \in Nat  BY <1>1, AdvancedBy
  <2>2. Advanced(Advanced(First, m), n) \in Chains /\ Advanced(First, m + n) \in Chains
    BY <1>1, <2>1, AdvancedBy
  <2>3. First.turns = 0  BY DEF First, Chain
  <2>4. Advanced(Advanced(First, m), n).turns = m + n /\ Advanced(First, m + n).turns = m + n
    <3>1. Advanced(First, m).turns = First.turns + m
          /\ Advanced(First, m + n).turns = First.turns + (m + n)
      BY <1>1, <2>1, AdvancedBy
    <3>2. Advanced(Advanced(First, m), n).turns = Advanced(First, m).turns + n
      BY <2>1, AdvancedBy
    <3> QED  BY <2>3, <3>1, <3>2
  <2>5. /\ Advanced(Advanced(First, m), n).side = Advanced(First, m + n).side
        /\ Advanced(Advanced(First, m), n).root = Advanced(First, m + n).root
    BY <1>1, <2>1, AdvancedBy
  <2> QED  BY <2>2, <2>4, <2>5 DEF Chains
<1> QED  BY <1>1, <1>2

LEMMA RatchetSteps ==
    ASSUME NEW s \in RatchetStates, NEW pub \in Pubs
    PROVE  /\ Stepped(s, pub) \in Secrets
           /\ StepToReceive(s, pub) \in RatchetStates /\ StepToReceive(s, pub).recvI = 0
           /\ StepToReceive(s, pub).recvCk.side = "send"
           /\ StepToSend(s) \in RatchetStates
<1>1. s.rk \in Secrets /\ s.self \in Pubs /\ s.remote \in Pubs  BY DEF RatchetStates
<1>2. \A p \in Pubs : {s.self, p} \in SUBSET Pubs  BY <1>1
<1>3. \A p \in Pubs : Stepped(s, p) \in Secrets
  <2> TAKE p \in Pubs
  <2>1. {s.self, p} \in SUBSET Pubs  BY <1>2
  <2> QED  BY <1>1, <2>1, AppendProperties DEF Stepped, Secrets
<1>4. \A p \in Pubs : /\ Chain(Stepped(s, p), "recv") \in Chains
                      /\ Chain(Stepped(s, p), "send") \in Chains
                      /\ Chain(Stepped(s, p), "send").side = "send"
  BY <1>3, ChainTypes DEF Chain
<1>5. StepToReceive(s, pub) \in RatchetStates /\ StepToReceive(s, pub).recvI = 0
      /\ StepToReceive(s, pub).recvCk.side = "send"
  BY <1>1, <1>3, <1>4 DEF StepToReceive, RatchetStates
<1>6. StepToSend(s) \in RatchetStates
  BY <1>1, <1>3, <1>4 DEF StepToSend, RatchetStates
<1> QED  BY <1>3, <1>5, <1>6

\* What a device sends with: as long as it knows no key of the other, it only changes its own.
LEMMA Sending ==
    ASSUME NEW s \in RatchetStates
    PROVE  /\ ToSend(s) \in RatchetStates
           /\ s.remote = NoDhKey => ToSend(s).remote = NoDhKey
           /\ s.remote = NoDhKey /\ s.sendI < RotateEvery => ToSend(s) = s
           /\ s.remote = NoDhKey => ToSend(s).recvCk = s.recvCk /\ ToSend(s).recvI = s.recvI
<1> DEFINE Rekeyed(t) == [t EXCEPT !.self[2] = @ + 1, !.sendI = 0]
<1>1. ASSUME NEW t \in RatchetStates
      PROVE  /\ Rekeyed(t) \in RatchetStates /\ Rekeyed(t).remote = t.remote
             /\ Rekeyed(t).recvCk = t.recvCk /\ Rekeyed(t).recvI = t.recvI
  <2>1. t.self \in {"none", "a", "b"} \X Nat  BY DEF RatchetStates, Pubs
  <2>2. [t.self EXCEPT ![2] = @ + 1] \in Pubs  BY <2>1 DEF Pubs
  <2> QED  BY <2>2 DEF RatchetStates
<1>2. ASSUME NEW t \in RatchetStates
      PROVE  /\ Rotated(t) \in RatchetStates
             /\ t.remote = NoDhKey => /\ Rotated(t).remote = NoDhKey
                                      /\ Rotated(t).recvCk = t.recvCk /\ Rotated(t).recvI = t.recvI
             /\ t.sendI < RotateEvery => Rotated(t) = t
  <2>1. Rotated(t) = IF t.sendI < RotateEvery THEN t
                     ELSE IF t.remote = NoDhKey THEN Rekeyed(t) ELSE StepToSend(Rekeyed(t))
    BY DEF Rotated
  <2>2. Rekeyed(t) \in RatchetStates /\ StepToSend(Rekeyed(t)) \in RatchetStates
    BY <1>1, ChainTypes, RatchetSteps
  <2> QED  BY <1>1, <2>1, <2>2
<1>3. s.remote \in Pubs /\ StepToSend(s) \in RatchetStates  BY RatchetSteps, ChainTypes
      DEF RatchetStates
<1> QED  BY <1>2, <1>3 DEF ToSend

LEMMA ConvStarts == ASSUME ConvInit PROVE ConvInv
<1>1. \A d \in BothDevices : FirstState(d) \in RatchetStates
      /\ FirstState(d).remote = NoDhKey /\ FirstState(d).sendI = 0 /\ FirstState(d).recvI = 0
      /\ FirstState(d).sendCk = First /\ FirstState(d).recvCk = First
  BY ChainTypes DEF FirstState, RatchetStates, First
<1>2. ConvTypes  BY <1>1, EmptySeq DEF ConvInit, ConvTypes
<1>3. OpenedInv  BY DEF ConvInit, OpenedInv
<1>4. First = Advanced(First, 0)  BY DEF First, Advanced, Chain
<1>5. ASSUME NEW d \in BothDevices PROVE OneWay(d)
  <2>1. sent[Peer(d)] = <<>> /\ Len(<<>>) = 0 /\ 1..0 = {}  BY PeerIs DEF ConvInit
  <2> QED  BY <1>1, <1>4, <2>1, PeerIs DEF ConvInit, OneWay, OnFirst
<1>6. ConversationSound
  BY PeerIs DEF ConvInit, ConversationSound, OneWayOpens, SeenWasOpened, ChunksHaveManifest
<1> QED  BY <1>2, <1>3, <1>5, <1>6 DEF ConvInv, OneWayInv

LEMMA SendingEnvelope ==
    ASSUME ConvInv, NEW d \in BothDevices, NEW kind \in {"message", "chunk"},
           SendEnvelope(d, kind)
    PROVE  ConvInv'
<1> DEFINE state == ToSend(ratchet[d])
           new == [kind |-> kind, dh |-> state.self, i |-> state.sendI, key |-> state.sendCk]
<1> ConvTypes /\ OpenedInv /\ OneWayInv /\ ConversationSound  BY DEF ConvInv
<1>1. ratchet[d] \in RatchetStates /\ state \in RatchetStates  BY Sending DEF ConvTypes
<1>2. new \in Envelopes  BY <1>1 DEF RatchetStates, Envelopes
<1>3. sent[d] \in Seq(Envelopes) /\ Len(sent[d]) \in Nat  BY DEF ConvTypes
<1>4. /\ sent' = [sent EXCEPT ![d] = Append(sent[d], new)]
      /\ ratchet' = [ratchet EXCEPT ![d] = [state EXCEPT !.sendCk = Advanced(@, 1),
                                                         !.sendI = @ + 1]]
      /\ UNCHANGED <<ingests, convSeen, events, convShown, opened, failed, convEnds>>
  BY DEF SendEnvelope
<1>5. [state EXCEPT !.sendCk = Advanced(@, 1), !.sendI = @ + 1] \in RatchetStates
  <2> HIDE DEF state
  <2>1. state.sendCk \in Chains /\ state.sendI \in Nat  BY <1>1 DEF RatchetStates
  <2>2. Advanced(state.sendCk, 1) \in Chains /\ state.sendI + 1 \in Nat  BY <2>1, AdvancedBy
  <2> QED  BY <1>1, <2>2 DEF RatchetStates
<1>6. /\ Append(sent[d], new) \in Seq(Envelopes) /\ Len(Append(sent[d], new)) = Len(sent[d]) + 1
      /\ Append(sent[d], new) # <<>> /\ Append(sent[d], new)[Len(sent[d]) + 1] = new
      /\ \A n \in 1..Len(sent[d]) : Append(sent[d], new)[n] = sent[d][n]
  <2> HIDE DEF new
  <2>1. Append(sent[d], new) \in Seq(Envelopes) /\ Len(Append(sent[d], new)) = Len(sent[d]) + 1
        /\ \A n \in 1..(Len(sent[d]) + 1) :
              Append(sent[d], new)[n] = IF n <= Len(sent[d]) THEN sent[d][n] ELSE new
    BY <1>2, <1>3, AppendProperties
  <2> QED  BY <1>3, <2>1, EmptySeq
<1> HIDE DEF new
<1>7. ConvTypes'  BY <1>4, <1>5, <1>6 DEF ConvTypes
<1>8. \A e \in BothDevices : /\ Len(sent'[e]) >= Len(sent[e])
                             /\ \A n \in 1..Len(sent[e]) : sent'[e][n] = sent[e][n]
  BY <1>3, <1>4, <1>6 DEF ConvTypes
<1>9. OpenedInv'
  <2>1. ASSUME NEW e \in BothDevices PROVE opened'[e] \subseteq 1..Len(sent'[Peer(e)])
    <3>1. Len(sent'[Peer(e)]) >= Len(sent[Peer(e)])  BY <1>8, PeerIs
    <3>2. Len(sent'[Peer(e)]) \in Nat /\ Len(sent[Peer(e)]) \in Nat
      BY <1>7, PeerIs DEF ConvTypes
    <3>3. opened[e] \subseteq 1..Len(sent[Peer(e)])  BY DEF OpenedInv
    <3> QED  BY <1>4, <3>1, <3>2, <3>3
  <2> QED  BY <1>4, <2>1 DEF OpenedInv
<1>10. ASSUME NEW e \in BothDevices PROVE OneWay(e)'
  <2>1. OneWay(e)  BY DEF OneWayInv
  <2>2. CASE e = d
    BY <1>4, <1>6, <2>2 DEF OneWay, ConvTypes
  <2>3. CASE e # d
    <3>1. d = Peer(e) /\ e = Peer(d)  BY <2>3, PeerIs
    <3>2. sent'[e] = sent[e] /\ sent'[d] = Append(sent[d], new) /\ ratchet'[e] = ratchet[e]
      BY <1>4, <2>3 DEF ConvTypes
    <3>3. ratchet'[d] = [state EXCEPT !.sendCk = Advanced(@, 1), !.sendI = @ + 1]
      BY <1>4 DEF ConvTypes
    <3>4. SUFFICES ASSUME sent[e] = <<>>
          PROVE  /\ ratchet'[d].remote = NoDhKey
                 /\ Len(sent'[d]) <= RotateEvery =>
                     /\ ratchet'[d].sendI = Len(sent'[d])
                     /\ ratchet'[d].sendCk = Advanced(First, Len(sent'[d]))
                     /\ \A n \in 1..Len(sent'[d]) :
                         sent'[d][n].i = n - 1 /\ sent'[d][n].key = Advanced(First, n - 1)
                     /\ OnFirst(ratchet'[e], e)
                     /\ \A o \in ingests : o.to = e => OnFirst(o.state, e)
      BY <1>4, <3>1, <3>2 DEF OneWay, OnFirst
    <3>5. ratchet[d].remote = NoDhKey  BY <2>1, <3>1, <3>4 DEF OneWay
    <3>6. ratchet'[d].remote = NoDhKey  BY <1>1, <3>3, <3>5, Sending DEF RatchetStates
    <3>7. ASSUME Len(sent'[d]) <= RotateEvery
          PROVE  /\ ratchet'[d].sendI = Len(sent'[d])
                 /\ ratchet'[d].sendCk = Advanced(First, Len(sent'[d]))
                 /\ \A n \in 1..Len(sent'[d]) :
                     sent'[d][n].i = n - 1 /\ sent'[d][n].key = Advanced(First, n - 1)
                 /\ OnFirst(ratchet'[e], e)
                 /\ \A o \in ingests : o.to = e => OnFirst(o.state, e)
      <4>1. Len(sent'[d]) = Len(sent[d]) + 1 /\ RotateEvery \in Nat
        BY <1>6, <3>2, ConversationAssumption
      <4>2. Len(sent[d]) < RotateEvery  BY <1>3, <3>7, <4>1
      <4>3. /\ ratchet[d].sendI = Len(sent[d])
            /\ ratchet[d].sendCk = Advanced(First, Len(sent[d]))
            /\ \A n \in 1..Len(sent[d]) :
                sent[d][n].i = n - 1 /\ sent[d][n].key = Advanced(First, n - 1)
            /\ OnFirst(ratchet[e], e)
            /\ \A o \in ingests : o.to = e => OnFirst(o.state, e)
        BY <1>3, <2>1, <3>1, <3>4, <4>1, <4>2 DEF OneWay
      <4>4. state = ratchet[d]  BY <1>1, <3>5, <4>2, <4>3, Sending
      <4>5. new.i = Len(sent[d]) /\ new.key = Advanced(First, Len(sent[d]))
        BY <4>3, <4>4 DEF new
      <4>6. /\ ratchet'[d].sendI = ratchet[d].sendI + 1
            /\ ratchet'[d].sendCk = Advanced(ratchet[d].sendCk, 1)
        BY <1>1, <3>3, <4>4 DEF RatchetStates
      <4>7. ratchet'[d].sendCk = Advanced(First, Len(sent[d]) + 1)
        BY <1>3, <4>3, <4>6, OnceMore
      <4>8. ASSUME NEW n \in 1..Len(sent'[d])
            PROVE  sent'[d][n].i = n - 1 /\ sent'[d][n].key = Advanced(First, n - 1)
        <5>1. CASE n \in 1..Len(sent[d])  BY <1>6, <3>2, <4>3, <5>1
        <5>2. CASE n = Len(sent[d]) + 1
          <6>1. sent'[d][n] = new /\ n - 1 = Len(sent[d])  BY <1>3, <1>6, <3>2, <5>2
          <6> QED  BY <4>5, <6>1
        <5> QED  BY <1>3, <4>1, <5>1, <5>2
      <4> QED  BY <3>2, <4>1, <4>3, <4>6, <4>7, <4>8
    <3> QED  BY <3>6, <3>7
  <2> QED  BY <2>2, <2>3
<1>11. ConversationSound'
  <2>1. ASSUME NEW e \in BothDevices, (sent[e] = <<>>)', Len(sent'[Peer(e)]) <= RotateEvery
        PROVE  sent[e] = <<>> /\ Len(sent[Peer(e)]) <= RotateEvery
    <3>1. e # d  BY <1>4, <1>6, <2>1 DEF ConvTypes
    <3>2. sent[e] = <<>>  BY <1>4, <2>1, <3>1 DEF ConvTypes
    <3>3. Len(sent'[Peer(e)]) >= Len(sent[Peer(e)])  BY <1>8, PeerIs
    <3>4. Len(sent'[Peer(e)]) \in Nat /\ Len(sent[Peer(e)]) \in Nat /\ RotateEvery \in Nat
      BY <1>7, PeerIs, ConversationAssumption DEF ConvTypes
    <3> QED  BY <2>1, <3>2, <3>3, <3>4
  <2>2. OneWayOpens'  BY <1>4, <2>1 DEF ConversationSound, OneWayOpens
  <2>3. SeenWasOpened'  BY <1>4 DEF ConversationSound, SeenWasOpened
  <2>4. ASSUME NEW e \in BothDevices, NEW l \in convShown[e],
               sent'[Peer(e)][l].kind = "chunk"
        PROVE  1 \in convShown[e]
    <3>1. l \in 1..Len(sent[Peer(e)])  BY DEF OpenedInv
    <3>2. sent'[Peer(e)][l] = sent[Peer(e)][l]  BY <1>8, <3>1, PeerIs
    <3> QED  BY <2>4, <3>2 DEF ConversationSound, ChunksHaveManifest
  <2>5. ChunksHaveManifest'
    BY <1>4, <2>4 DEF ConversationSound, ChunksHaveManifest
  <2> QED  BY <2>2, <2>3, <2>5 DEF ConversationSound
<1> QED  BY <1>7, <1>9, <1>10, <1>11 DEF ConvInv, OneWayInv

\* What an envelope is opened with: the first state that reaches it.
LEMMA OpenedWith ==
    ASSUME NEW s \in RatchetStates, NEW envelope \in Envelopes
    PROVE  /\ Taken(s, envelope) \subseteq RatchetStates
           /\ Reaches(s, envelope.i) => Taken(s, envelope) = {s}
           /\ ~Reaches(s, envelope.i) => \A c \in Taken(s, envelope) :
                  c.recvCk.side = "send" /\ c.recvI = 0 /\ Reaches(c, envelope.i)
           /\ \A c \in Taken(s, envelope) : Reaches(c, envelope.i)
<1>1. envelope.dh \in Pubs  BY DEF Envelopes
<1>2. /\ StepToReceive(s, envelope.dh) \in RatchetStates
      /\ StepToReceive(s, envelope.dh).recvCk.side = "send"
      /\ StepToReceive(s, envelope.dh).recvI = 0
  BY <1>1, RatchetSteps
<1>3. \A c \in Candidates(s, envelope) : c = s \/ c = StepToReceive(s, envelope.dh)
  BY DEF Candidates
<1> QED  BY <1>2, <1>3 DEF Taken

LEMMA StateAfter ==
    ASSUME NEW s \in RatchetStates, NEW i \in Nat, NEW pub \in Pubs, Reaches(s, i)
    PROVE  /\ After(s, i, pub) \in RatchetStates /\ After(s, i, pub).recvI = i + 1
           /\ After(s, i, pub).recvCk = Advanced(s.recvCk, i - s.recvI + 1)
<1>1. s.recvI \in Nat /\ s.recvCk \in Chains  BY DEF RatchetStates
<1>2. i - s.recvI + 1 \in Nat  BY <1>1 DEF Reaches
<1>3. Advanced(s.recvCk, i - s.recvI + 1) \in Chains  BY <1>1, <1>2, AdvancedBy
<1>4. i + 1 \in Nat  OBVIOUS
<1> HIDE DEF Chains
<1> QED  BY <1>1, <1>3, <1>4 DEF After, RatchetStates

LEMMA OpeningEnvelope ==
    ASSUME ConvInv, NEW d \in BothDevices, NEW lamport \in DOMAIN sent[Peer(d)],
           OpenEnvelope(d, lamport)
    PROVE  ConvInv'
<1> DEFINE envelope == sent[Peer(d)][lamport]
           reaching == Taken(ratchet[d], envelope)
           right == {c \in reaching : KeyAt(c, envelope.i) = envelope.key}
           opening == {[to |-> d, lamport |-> lamport, step |-> "commit",
                      state |-> After(c, envelope.i, envelope.dh)] : c \in right}
<1> ConvTypes /\ OpenedInv /\ OneWayInv /\ ConversationSound  BY DEF ConvInv
<1>1. ratchet[d] \in RatchetStates /\ Peer(d) \in BothDevices  BY PeerIs DEF ConvTypes
<1>2. sent[Peer(d)] \in Seq(Envelopes) /\ lamport \in 1..Len(sent[Peer(d)]) /\ lamport \in Nat
  BY <1>1 DEF ConvTypes
<1>3. envelope \in Envelopes  BY <1>2
<1>4. /\ UNCHANGED <<sent, ratchet, events, convShown, convEnds, convSeen>>
      /\ \/ /\ right # {}
            /\ ingests' = ingests \cup opening
            /\ opened' = [opened EXCEPT ![d] = @ \cup {lamport}]
            /\ UNCHANGED failed
         \/ /\ right = {} /\ UNCHANGED <<ingests, opened>>
            /\ \/ UNCHANGED failed
               \/ failed' = [failed EXCEPT ![d] = @ \cup {lamport}] /\ reaching # {}
  <2>1. CASE right # {}  BY <2>1 DEF OpenEnvelope, SeenLater
  <2>2. CASE right = {}
    <3>1. failed' = [failed EXCEPT ![d] = @ \cup IF reaching = {} THEN {} ELSE {lamport}]
          /\ UNCHANGED <<sent, ratchet, events, convShown, convEnds, convSeen, ingests, opened>>
      BY <2>2 DEF OpenEnvelope, SeenLater
    <3>2. CASE reaching = {}
      <4>1. failed' = failed  BY <3>1, <3>2 DEF ConvTypes
      <4> QED  BY <2>2, <3>1, <4>1
    <3>3. CASE reaching # {}
      <4>1. failed' = [failed EXCEPT ![d] = @ \cup {lamport}]  BY <3>1, <3>3
      <4> QED  BY <2>2, <3>1, <3>3, <4>1
    <3> QED  BY <3>2, <3>3
  <2> QED  BY <2>1, <2>2
<1>5. envelope.i \in Nat /\ envelope.dh \in Pubs /\ envelope.key \in Chains
  BY <1>3 DEF Envelopes
<1>6. reaching \subseteq RatchetStates /\ \A c \in reaching : Reaches(c, envelope.i)
  BY <1>1, <1>3, OpenedWith
<1> HIDE DEF envelope, reaching
<1>7. opening \subseteq Ingests
  <2>1. ASSUME NEW c \in right PROVE After(c, envelope.i, envelope.dh) \in RatchetStates
    BY <1>5, <1>6, <2>1, StateAfter
  <2> QED  BY <1>2, <2>1 DEF Ingests
<1>8. \A o \in opening : o.to = d /\ o.lamport = lamport  OBVIOUS
<1> HIDE DEF right
<1>9. /\ \A e \in BothDevices : opened[e] \subseteq opened'[e]
      /\ opened' # opened => lamport \in opened'[d] /\ opened'[d] = opened[d] \cup {lamport}
      /\ \A e \in BothDevices : e # d => opened'[e] = opened[e]
      /\ \A o \in ingests' : o \in ingests \/ (o \in opening /\ lamport \in opened'[d])
  <2>1. CASE UNCHANGED <<ingests, opened>>  BY <2>1
  <2>2. CASE /\ ingests' = ingests \cup opening
             /\ opened' = [opened EXCEPT ![d] = @ \cup {lamport}]
    <3> HIDE DEF opening
    <3> QED  BY <2>2 DEF ConvTypes
  <2> QED  BY <1>4, <2>1, <2>2
<1> HIDE DEF opening
<1>10. ConvTypes'
  <2>1. ingests' \subseteq Ingests  BY <1>4, <1>7 DEF ConvTypes
  <2>2. opened' \in [BothDevices -> SUBSET Nat] /\ failed' \in [BothDevices -> SUBSET Nat]
    <3>1. opened[d] \cup {lamport} \in SUBSET Nat /\ failed[d] \cup {lamport} \in SUBSET Nat
      BY <1>2 DEF ConvTypes
    <3> QED  BY <1>4, <3>1 DEF ConvTypes
  <2> QED  BY <1>4, <2>1, <2>2 DEF ConvTypes
<1>11. OpenedInv'
  <2>1. ASSUME NEW e \in BothDevices PROVE opened'[e] \subseteq 1..Len(sent[Peer(e)])
    <3>1. opened[e] \subseteq 1..Len(sent[Peer(e)])  BY DEF OpenedInv
    <3> QED  BY <1>2, <1>9, <3>1
  <2>2. ASSUME NEW e \in BothDevices PROVE events[e] \subseteq opened'[e]
                                           /\ convShown[e] \subseteq opened'[e]
    <3>1. events[e] \subseteq opened[e] /\ convShown[e] \subseteq opened[e]  BY DEF OpenedInv
    <3> QED  BY <1>9, <3>1
  <2>3. ASSUME NEW o \in ingests' PROVE o.lamport \in opened'[o.to]
    <3>1. CASE o \in ingests
      <4>1. o.to \in BothDevices  BY <3>1 DEF ConvTypes, Ingests
      <4>2. o.lamport \in opened[o.to]  BY <3>1 DEF OpenedInv
      <4> QED  BY <1>9, <4>1, <4>2
    <3>2. CASE o \in opening /\ lamport \in opened'[d]  BY <1>8, <3>2
    <3> QED  BY <1>9, <3>1, <3>2
  <2> QED  BY <1>4, <2>1, <2>2, <2>3 DEF OpenedInv
\* In one direction the envelope is opened with the chain it is under, or is older.
<1>12. ASSUME sent[d] = <<>>, Len(sent[Peer(d)]) <= RotateEvery
       PROVE  /\ \A c \in right : OnFirst(After(c, envelope.i, envelope.dh), d)'
              /\ right = {} /\ reaching # {} => \E other \in opened[d] : other >= lamport
  <2>1. OneWay(d)  BY DEF OneWayInv
  <2>2. /\ envelope.i = lamport - 1 /\ envelope.key = Advanced(First, lamport - 1)
        /\ OnFirst(ratchet[d], d)
    BY <1>2, <1>12, <2>1 DEF OneWay, envelope
  <2>3. /\ ratchet[d].recvCk = Advanced(First, ratchet[d].recvI) /\ ratchet[d].recvI \in Nat
        /\ ratchet[d].recvI = 0 \/ ratchet[d].recvI \in opened[d]
    BY <1>1, <2>2 DEF OnFirst, RatchetStates
  <2>4. CASE Reaches(ratchet[d], envelope.i)
    <3>1. reaching = {ratchet[d]}  BY <1>1, <1>3, <2>4, OpenedWith DEF reaching, envelope
    <3>2. envelope.i - ratchet[d].recvI \in Nat /\ envelope.i - ratchet[d].recvI + 1 \in Nat
          /\ ratchet[d].recvI + (envelope.i - ratchet[d].recvI) = envelope.i
          /\ ratchet[d].recvI + (envelope.i - ratchet[d].recvI + 1) = envelope.i + 1
      BY <1>5, <2>3, <2>4 DEF Reaches
    <3>3. KeyAt(ratchet[d], envelope.i) = envelope.key
      <4>1. Advanced(ratchet[d].recvCk, envelope.i - ratchet[d].recvI)
                = Advanced(First, ratchet[d].recvI + (envelope.i - ratchet[d].recvI))
        BY <2>3, <3>2, OnceMore
      <4> QED  BY <2>2, <3>2, <4>1 DEF KeyAt
    <3>4. right = {ratchet[d]}  BY <3>1, <3>3 DEF right
    <3>5. lamport \in opened'[d]  BY <1>4, <3>4 DEF ConvTypes
    <3>6. /\ After(ratchet[d], envelope.i, envelope.dh).recvI = envelope.i + 1
          /\ After(ratchet[d], envelope.i, envelope.dh).recvCk
                 = Advanced(ratchet[d].recvCk, envelope.i - ratchet[d].recvI + 1)
      BY <1>1, <1>5, <2>4, StateAfter
    <3>7. Advanced(ratchet[d].recvCk, envelope.i - ratchet[d].recvI + 1)
              = Advanced(First, envelope.i + 1)
      BY <2>3, <3>2, OnceMore
    <3>8. envelope.i + 1 = lamport  BY <1>2, <2>2
    <3>9. UNCHANGED <<envelope, lamport>>  BY <1>4 DEF envelope
    <3>10. OnFirst(After(ratchet[d], envelope.i, envelope.dh), d)'
      BY <1>4, <3>5, <3>6, <3>7, <3>8, <3>9 DEF OnFirst
    <3>11. ASSUME NEW c \in right PROVE OnFirst(After(c, envelope.i, envelope.dh), d)'
      <4>1. c = ratchet[d]  BY <3>4, <3>11
      <4>2. After(c, envelope.i, envelope.dh)
                = After(ratchet[d], envelope.i, envelope.dh)  BY <4>1
      <4> QED  BY <1>4, <3>9, <3>10, <4>1, <4>2 DEF OnFirst
    <3> QED  BY <3>4, <3>11
  <2>5. CASE ~Reaches(ratchet[d], envelope.i)
    <3>1. \A c \in reaching : c.recvCk.side = "send" /\ c.recvI = 0 /\ Reaches(c, envelope.i)
      BY <1>1, <1>3, <2>5, OpenedWith DEF reaching, envelope
    <3>2. envelope.key.side = "init"
      <4>1. First.side = "init" /\ lamport - 1 \in Nat  BY <1>2 DEF First, Chain
      <4>2. Advanced(First, lamport - 1).side = "init"  BY <4>1, OnceMore, AdvancedBy
      <4> QED  BY <2>2, <4>2
    <3>3. ASSUME NEW c \in reaching PROVE KeyAt(c, envelope.i) # envelope.key
      <4>1. envelope.i - c.recvI \in Nat /\ c.recvCk \in Chains
        BY <1>5, <1>6, <3>1, <3>3 DEF RatchetStates
      <4>2. KeyAt(c, envelope.i).side = "send"  BY <3>1, <3>3, <4>1, AdvancedBy DEF KeyAt
      <4> QED  BY <3>2, <4>2
    <3>4. right = {}  BY <3>3 DEF right
    <3>5. ASSUME reaching # {} PROVE \E other \in opened[d] : other >= lamport
      <4>1. PICK c \in reaching : TRUE  BY <3>5
      <4>2. envelope.i <= MaxSkip /\ MaxSkip \in Nat
        BY <1>5, <3>1, <4>1, ConversationAssumption DEF Reaches
      <4>3. ratchet[d].recvI > envelope.i  BY <1>5, <2>3, <2>5, <4>2 DEF Reaches
      <4>4. ratchet[d].recvI >= lamport /\ ratchet[d].recvI # 0  BY <1>2, <2>2, <2>3, <4>3
      <4> QED  BY <2>3, <4>4
    <3> QED  BY <3>4, <3>5
  <2> QED  BY <2>4, <2>5
<1>13. ASSUME NEW e \in BothDevices PROVE OneWay(e)'
  <2>1. OneWay(e)  BY DEF OneWayInv
  <2>2. SUFFICES ASSUME sent[e] = <<>>, Len(sent[Peer(e)]) <= RotateEvery
        PROVE  OnFirst(ratchet[e], e)' /\ \A o \in ingests' : o.to = e => OnFirst(o.state, e)'
    BY <1>4, <2>1 DEF OneWay
  <2>3. OnFirst(ratchet[e], e) /\ \A o \in ingests : o.to = e => OnFirst(o.state, e)
    BY <2>1, <2>2 DEF OneWay
  <2>4. OnFirst(ratchet[e], e)'  BY <1>4, <1>9, <2>3 DEF OnFirst
  <2>5. ASSUME NEW o \in ingests', o.to = e PROVE OnFirst(o.state, e)'
    <3>1. CASE o \in ingests
      <4>1. OnFirst(o.state, e)  BY <2>3, <2>5, <3>1
      <4> QED  BY <1>9, <4>1 DEF OnFirst
    <3>2. CASE o \in opening
      <4>1. e = d  BY <1>8, <2>5, <3>2
      <4>2. PICK c \in right : o.state = After(c, envelope.i, envelope.dh)  BY <3>2 DEF opening
      <4>3. OnFirst(After(c, envelope.i, envelope.dh), d)'  BY <1>12, <2>2, <4>1, <4>2
      <4>4. envelope' = envelope  BY <1>4 DEF envelope
      <4> QED  BY <4>1, <4>2, <4>3, <4>4 DEF OnFirst
    <3> QED  BY <1>9, <2>5, <3>1, <3>2
  <2> QED  BY <2>4, <2>5
<1>14. ConversationSound'
  <2>1. ASSUME NEW e \in BothDevices, sent[e] = <<>>, Len(sent[Peer(e)]) <= RotateEvery,
               NEW l \in failed'[e]
        PROVE  \E other \in opened'[e] : other >= l
    <3>1. CASE l \in failed[e]
      <4>1. \E other \in opened[e] : other >= l
        BY <2>1, <3>1 DEF ConversationSound, OneWayOpens
      <4> QED  BY <1>9, <4>1
    <3>2. CASE l \notin failed[e]
      <4>1. e = d /\ l = lamport /\ right = {} /\ reaching # {}  BY <1>4, <2>1, <3>2 DEF ConvTypes
      <4> QED  BY <1>9, <1>12, <2>1, <4>1
    <3> QED  BY <3>1, <3>2
  <2>2. OneWayOpens'  BY <1>4, <2>1 DEF OneWayOpens
  <2>3. SeenWasOpened'  BY <1>4, <1>9 DEF ConversationSound, SeenWasOpened
  <2>4. ChunksHaveManifest'
    BY <1>4, <1>9, <1>11 DEF ConversationSound, ChunksHaveManifest, OpenedInv
  <2> QED  BY <2>2, <2>3, <2>4 DEF ConversationSound
<1> QED  BY <1>10, <1>11, <1>13, <1>14 DEF ConvInv, OneWayInv

\* The steps that neither send nor open: a state that is written back was that of an envelope.
LEMMA NothingNew ==
    ASSUME ConvInv, UNCHANGED <<sent, opened, failed>>, ConvTypes',
           \A o \in ingests' : \E p \in ingests :
               o.to = p.to /\ o.lamport = p.lamport /\ o.state = p.state,
           \A d \in BothDevices :
               \/ ratchet'[d] = ratchet[d]
               \/ \E o \in ingests : o.to = d /\ ratchet'[d] = o.state,
           \A d \in BothDevices : events'[d] \subseteq opened[d] /\ convShown'[d] \subseteq opened[d],
           \A d \in BothDevices : convSeen'[d] \in opened[d] \cup {0, convSeen[d]},
           ChunksHaveManifest'
    PROVE  ConvInv'
<1> ConvTypes /\ OpenedInv /\ OneWayInv /\ ConversationSound  BY DEF ConvInv
<1>1. OpenedInv'
  <2>1. ASSUME NEW o \in ingests' PROVE o.lamport \in opened[o.to]  BY <2>1 DEF OpenedInv
  <2> QED  BY <2>1 DEF OpenedInv
<1>2. ASSUME NEW d \in BothDevices PROVE OneWay(d)'
  <2>1. OneWay(d)  BY DEF OneWayInv
  <2>2. CASE sent[d] # <<>>  BY <2>2 DEF OneWay
  <2>3. CASE sent[d] = <<>>
    <3>1. opened[Peer(d)] = {}
      <4>1. opened[Peer(d)] \subseteq 1..Len(sent[d])  BY PeerIs DEF OpenedInv
      <4> QED  BY <2>3, <4>1, EmptySeq
    <3>2. \A o \in ingests : o.to # Peer(d)  BY <3>1 DEF OpenedInv
    <3>3. ratchet'[Peer(d)] = ratchet[Peer(d)]  BY <3>2, PeerIs
    <3>4. ASSUME Len(sent[Peer(d)]) <= RotateEvery
          PROVE  OnFirst(ratchet[d], d)' /\ \A o \in ingests' : o.to = d => OnFirst(o.state, d)'
      <4>1. OnFirst(ratchet[d], d) /\ \A o \in ingests : o.to = d => OnFirst(o.state, d)
        BY <2>1, <2>3, <3>4 DEF OneWay
      <4>2. OnFirst(ratchet'[d], d)
        <5>1. CASE ratchet'[d] = ratchet[d]  BY <4>1, <5>1
        <5>2. CASE \E o \in ingests : o.to = d /\ ratchet'[d] = o.state  BY <4>1, <5>2
        <5> QED  BY <5>1, <5>2
      <4>3. ASSUME NEW o \in ingests', o.to = d PROVE OnFirst(o.state, d)
        <5>1. PICK q \in ingests : o.to = q.to /\ o.state = q.state  BY <4>3
        <5> QED  BY <4>1, <4>3, <5>1
      <4> QED  BY <4>2, <4>3 DEF OnFirst
    <3> QED  BY <2>1, <2>3, <3>3, <3>4 DEF OneWay, OnFirst
  <2> QED  BY <2>2, <2>3
<1>3. OneWayOpens'  BY DEF ConversationSound, OneWayOpens
<1>4. SeenWasOpened'
  <2>1. ASSUME NEW d \in BothDevices, convSeen'[d] > 0 PROVE convSeen'[d] \in opened[d]
    <3>1. convSeen[d] > 0 => convSeen[d] \in opened[d]
      BY DEF ConversationSound, SeenWasOpened
    <3> QED  BY <2>1, <3>1
  <2> QED  BY <2>1 DEF SeenWasOpened
<1> QED  BY <1>1, <1>2, <1>3, <1>4 DEF ConvInv, OneWayInv, ConversationSound

LEMMA ConvStep == ASSUME ConvInv, [ConvNext]_convVars PROVE ConvInv'
<1> ConvTypes /\ OpenedInv /\ ConversationSound  BY DEF ConvInv
<1>0. \A d \in BothDevices, l \in Nat : Newer(d, l) \in {l, convSeen[d]} /\ Newer(d, l) \in Nat
  BY DEF Newer, ConvTypes
<1>1. ASSUME NEW d \in BothDevices, NEW kind \in {"message", "chunk"}, SendEnvelope(d, kind)
      PROVE  ConvInv'
  BY <1>1, SendingEnvelope
<1>2. ASSUME NEW d \in BothDevices, NEW lamport \in DOMAIN sent[Peer(d)], KnownEvent(d, lamport)
      PROVE  ConvInv'
  <2>1. lamport \in opened[d] /\ lamport \in Nat  BY <1>2 DEF KnownEvent, OpenedInv, ConvTypes
  <2>2. /\ convSeen' = [convSeen EXCEPT ![d] = Newer(d, lamport)]
        /\ UNCHANGED <<sent, ratchet, ingests, events, convShown, opened, failed, convEnds>>
    BY <1>2 DEF KnownEvent
  <2>3. ConvTypes'  BY <1>0, <2>1, <2>2 DEF ConvTypes
  <2>4. \A e \in BothDevices : convSeen'[e] \in opened[e] \cup {0, convSeen[e]}
    BY <1>0, <2>1, <2>2 DEF ConvTypes
  <2>5. ChunksHaveManifest'  BY <2>2 DEF ConversationSound, ChunksHaveManifest
  <2> QED  BY <2>2, <2>3, <2>4, <2>5, NothingNew DEF OpenedInv
<1>3. ASSUME NEW d \in BothDevices, NEW lamport \in DOMAIN sent[Peer(d)],
             OpenEnvelope(d, lamport)
      PROVE  ConvInv'
  BY <1>3, OpeningEnvelope
<1>4. ASSUME NEW d \in BothDevices, ConvRestart(d) PROVE ConvInv'
  <2>1. /\ convEnds' = convEnds + 1 /\ ingests' = {o \in ingests : o.to # d}
        /\ convSeen' = [convSeen EXCEPT ![d] = 0]
        /\ UNCHANGED <<sent, ratchet, events, convShown, opened, failed>>
    BY <1>4 DEF ConvRestart
  <2>2. ConvTypes'  BY <2>1 DEF ConvTypes
  <2>3. \A e \in BothDevices : convSeen'[e] \in opened[e] \cup {0, convSeen[e]}
    BY <2>1 DEF ConvTypes
  <2>4. ChunksHaveManifest'  BY <2>1 DEF ConversationSound, ChunksHaveManifest
  <2> QED  BY <2>1, <2>2, <2>3, <2>4, NothingNew DEF OpenedInv
<1>5. ASSUME NEW o \in ingests, CommitRatchet(o) \/ StoreEvent(o) \/ ApplyBody(o)
      PROVE  ConvInv'
  <2>1. o \in Ingests /\ o.to \in BothDevices /\ o.lamport \in Nat /\ o.state \in RatchetStates
    BY DEF ConvTypes, Ingests
  <2>2. o.lamport \in opened[o.to]  BY DEF OpenedInv
  <2>3. \A step \in {"store", "apply"} :
            /\ [o EXCEPT !.step = step] \in Ingests
            /\ [o EXCEPT !.step = step].to = o.to /\ [o EXCEPT !.step = step].state = o.state
            /\ [o EXCEPT !.step = step].lamport = o.lamport
    BY <2>1 DEF Ingests
  <2>4. ASSUME NEW step \in {"store", "apply"}, Goes(o, step)
        PROVE  /\ ingests' \subseteq Ingests
               /\ \A p \in ingests' : \E q \in ingests :
                      p.to = q.to /\ p.lamport = q.lamport /\ p.state = q.state
    BY <2>3, <2>4 DEF Goes, ConvTypes
  <2>5. CASE CommitRatchet(o)
    <3>1. /\ ratchet' = [ratchet EXCEPT ![o.to] = o.state] /\ Goes(o, "store")
          /\ UNCHANGED <<sent, convSeen, events, convShown, opened, failed, convEnds>>
      BY <2>5 DEF CommitRatchet
    <3>2. ConvTypes'  BY <2>1, <2>4, <3>1 DEF ConvTypes
    <3>3. \A d \in BothDevices : \/ ratchet'[d] = ratchet[d]
                                 \/ \E p \in ingests : p.to = d /\ ratchet'[d] = p.state
      BY <3>1 DEF ConvTypes
    <3>4. ChunksHaveManifest'  BY <3>1 DEF ConversationSound, ChunksHaveManifest
    <3> QED  BY <2>4, <3>1, <3>2, <3>3, <3>4, NothingNew DEF OpenedInv
  <2>6. CASE StoreEvent(o)
    <3> DEFINE logged == IF Kind(o) = "chunk" THEN {} ELSE {o.lamport}
    <3>1. /\ events' = [events EXCEPT ![o.to] = @ \cup logged] /\ Goes(o, "apply")
          /\ convSeen' = [convSeen EXCEPT ![o.to] = Newer(o.to, o.lamport)]
          /\ UNCHANGED <<sent, ratchet, convShown, opened, failed, convEnds>>
      BY <2>6 DEF StoreEvent
    <3>2. logged \subseteq {o.lamport}  OBVIOUS
    <3> HIDE DEF logged
    <3>3. events[o.to] \cup logged \in SUBSET Nat  BY <2>1, <3>2 DEF ConvTypes
    <3>4. ConvTypes'  BY <1>0, <2>1, <2>4, <3>1, <3>3 DEF ConvTypes
    <3>5. \A d \in BothDevices : convSeen'[d] \in opened[d] \cup {0, convSeen[d]}
      BY <1>0, <2>1, <2>2, <3>1 DEF ConvTypes
    <3>6. \A d \in BothDevices : events'[d] \subseteq opened[d] /\ convShown'[d] \subseteq opened[d]
      BY <2>1, <2>2, <3>1, <3>2 DEF ConvTypes, OpenedInv
    <3>7. ChunksHaveManifest'  BY <3>1 DEF ConversationSound, ChunksHaveManifest
    <3> QED  BY <2>4, <3>1, <3>4, <3>5, <3>6, <3>7, NothingNew
  <2>7. CASE ApplyBody(o)
    <3> DEFINE shown == IF Accepted(o) THEN {o.lamport} ELSE {}
    <3>1. /\ convShown' = [convShown EXCEPT ![o.to] = @ \cup shown]
          /\ ingests' = ingests \ {o}
          /\ UNCHANGED <<sent, ratchet, convSeen, events, opened, failed, convEnds>>
      BY <2>7 DEF ApplyBody
    <3>2. shown \subseteq {o.lamport} /\ (o.lamport \in shown => Accepted(o))  OBVIOUS
    <3> HIDE DEF shown
    <3>3. convShown[o.to] \cup shown \in SUBSET Nat  BY <2>1, <3>2 DEF ConvTypes
    <3>4. ConvTypes'  BY <2>1, <3>1, <3>3 DEF ConvTypes
    <3>5. \A d \in BothDevices : events'[d] \subseteq opened[d] /\ convShown'[d] \subseteq opened[d]
      BY <2>1, <2>2, <3>1, <3>2 DEF ConvTypes, OpenedInv
    <3>6. ASSUME NEW d \in BothDevices, NEW l \in convShown'[d], sent[Peer(d)][l].kind = "chunk"
          PROVE  1 \in convShown'[d]
      <4>1. convShown[d] \subseteq convShown'[d]  BY <2>1, <3>1 DEF ConvTypes
      <4>2. CASE l \in convShown[d]
        BY <3>6, <4>1, <4>2 DEF ConversationSound, ChunksHaveManifest
      <4>3. CASE l \notin convShown[d]
        <5>1. d = o.to /\ l \in shown  BY <2>1, <3>1, <3>6, <4>3 DEF ConvTypes
        <5>2. 1 \in convShown[d]  BY <3>2, <3>6, <5>1 DEF Accepted, Kind
        <5> QED  BY <4>1, <5>2
      <4> QED  BY <4>2, <4>3
    <3>7. ChunksHaveManifest'  BY <3>1, <3>5, <3>6 DEF ChunksHaveManifest
    <3> QED  BY <3>1, <3>4, <3>5, <3>7, NothingNew
  <2> QED  BY <1>5, <2>5, <2>6, <2>7
<1>6. ASSUME UNCHANGED convVars PROVE ConvInv'
  BY <1>6 DEF convVars, ConvInv, ConvTypes, OpenedInv, OneWayInv, OneWay, OnFirst,
     ConversationSound, OneWayOpens, SeenWasOpened, ChunksHaveManifest
<1> QED  BY <1>1, <1>2, <1>3, <1>4, <1>5, <1>6 DEF ConvNext

\* Of two devices, however envelopes are lost, late, repeated or opened together and their
\* states written over each other: in one direction an envelope that meets a wrong key has been
\* opened or overtaken, the filter against replays is moved by envelopes alone that were
\* opened, and no chunk is kept without its message (tryRecvDhKey, applyEnvelopeEvents).
THEOREM ConversationHolds == ConvSpec => []ConversationSound
<1>1. ConvInit => ConvInv  BY ConvStarts
<1>2. ConvInv /\ [ConvNext]_convVars => ConvInv'  BY ConvStep
<1>3. ConvInv => ConversationSound  BY DEF ConvInv
<1> QED  BY <1>1, <1>2, <1>3, PTL DEF ConvSpec

(***************************************************************************)
(* The router (Router).                                                    *)
(***************************************************************************)

\* What a call has still to try: at first the transport chosen, then the fallbacks, of which
\* the own onion route comes twice if it was not ready and direct is preferred.
Attempts(c) ==
    /\ c.tries = 0 =>
           /\ c.failed = {}
           /\ \/ c.left = <<c.policy>>
              \/ c.policy = "self" /\ c.left = <<"router">>
    /\ c.tries = 1 =>
           IF c.policy = "direct" THEN c.left = <<"router", "self">>
           ELSE c.left \in {<<"self", "direct">>, <<"direct">>, <<"router">>}
    /\ c.tries = 2 => c.left = IF c.policy = "direct" THEN <<"self">> ELSE <<"direct">>
    /\ c.tries = 3 => /\ c.policy = "direct" /\ c.left = <<"self">>
                      /\ <<"self", "notready">> \in c.failed

\* In router setting all of it has been allowed by an answer.
Allowed(c) ==
    c.policy = "router" /\ c.tries > 0 =>
        \/ /\ c.left = <<"direct">>
           /\ \E a \in {"target", "route", "proxy"} : <<"router", a>> \in c.failed
        \/ /\ c.left = <<"self", "direct">>
           /\ \E a \in {"route", "proxy"} : <<"router", a>> \in c.failed

NoneWaits(c) == OnionFirst(c.policy) => \A f \in c.failed : f[2] # "notready"

Failures == UNION {{k} \X Answers[k] : k \in Kinds}
Call == [pc : CallStates, policy : Modes, to : Addresses, left : Seq(Kinds), tries : 0..3,
         failed : SUBSET Failures]

CallOK(c) ==
    /\ c \in Call
    /\ c.pc = "storing" => c.tries = 0
    /\ c.pc \in {"storing", "trying", "sent"} => Attempts(c) /\ Allowed(c) /\ NoneWaits(c)

\* The record that both calls write has an address, and so has what the first call writes.
RowInv ==
    /\ row \in {"alias", "device", "gone"}
    /\ fresh.pc \in {"storing", "deferring", "trying", "sent"} => fresh.to # "none"

RouterInv ==
    /\ CallOK(fresh) /\ CallOK(again) /\ RowInv
    /\ learnt \in BOOLEAN /\ carried \in BOOLEAN /\ started \subseteq Kinds
    /\ listens \in BOOLEAN /\ preparing \in BOOLEAN /\ awaited \in BOOLEAN
    /\ KeptUnlessTaken /\ RetriesReachDevice /\ InboundRetried

LEMMA ShortSequences ==
    /\ \A a, b : Tail(<<a, b>>) = <<b>> /\ Head(<<a, b>>) = a /\ <<a, b>> # <<>>
    /\ \A a : Tail(<<a>>) = <<>> /\ Head(<<a>>) = a /\ <<a>> # <<>>
    /\ \A a \in Kinds : <<a>> \in Seq(Kinds)
    /\ \A a, b \in Kinds : <<a, b>> \in Seq(Kinds)
    /\ <<>> \in Seq(Kinds)
    /\ \A a, b, c : <<a, b>> # <<c>>
    /\ \A a, b : <<a>> = <<b>> => a = b
  OBVIOUS

LEMMA CallsOver ==
    ASSUME NEW stage \in {"idle", "ok", "later", "failed", "refused"}, NEW c, c = Over(stage)
    PROVE  CallOK(c) /\ c.pc = stage
<1>1. c = [pc |-> stage, policy |-> "direct", to |-> "none", left |-> <<>>, tries |-> 0,
           failed |-> {}]
  BY DEF Over, NoCall
<1>2. /\ stage \in CallStates /\ "direct" \in Modes /\ "none" \in Addresses /\ 0 \in 0..3
      /\ <<>> \in Seq(Kinds)
  BY ShortSequences DEF CallStates, Modes, Kinds, Addresses
<1>3. c \in Call  BY <1>1, <1>2 DEF Call
<1> QED  BY <1>1, <1>3 DEF CallOK

LEMMA Beginnings ==
    ASSUME NEW stage \in {"storing", "trying"}, NEW setting \in Modes, NEW onion \in BOOLEAN,
           NEW target \in BOOLEAN, NEW ready \in BOOLEAN, NEW to \in Addresses,
           NEW c, c = Called(stage, Policy(setting, onion), to,
                             <<Chosen(Policy(setting, onion), target, ready)>>)
    PROVE  CallOK(c) /\ c.pc = stage /\ c.to = to
<1>0. PICK policy : policy = Policy(setting, onion)  OBVIOUS
<1>1. PICK k : k = Chosen(policy, target, ready)  OBVIOUS
<1>2. /\ policy \in Modes /\ k \in Kinds
      /\ k # policy => policy = "self" /\ k = "router"
  BY <1>0, <1>1 DEF Policy, Chosen, Modes, Kinds
<1>3. c = [pc |-> stage, policy |-> policy, to |-> to, left |-> <<k>>, tries |-> 0, failed |-> {}]
  BY <1>0, <1>1 DEF Called, NoCall
<1>4. /\ stage \in CallStates /\ 0 \in 0..3 /\ {} \subseteq Failures
  BY DEF CallStates
<1>5. c \in Call
  <2>1. PICK left : left = <<k>>  OBVIOUS
  <2>2. left \in Seq(Kinds)  BY <1>2, <2>1, ShortSequences
  <2>3. c = [pc |-> stage, policy |-> policy, to |-> to, left |-> left, tries |-> 0, failed |-> {}]
    BY <1>3, <2>1
  <2> QED  BY <1>2, <1>4, <2>2, <2>3 DEF Call
<1>6. Attempts(c)  BY <1>2, <1>3 DEF Attempts
<1>7. Allowed(c) /\ NoneWaits(c)  BY <1>3 DEF Allowed, NoneWaits
<1> QED  BY <1>3, <1>5, <1>6, <1>7 DEF CallOK

\* What the failure of an attempt leads to.
LEMMA Failing ==
    ASSUME NEW c, CallOK(c), c.pc \in {"trying", "sent"},
           NEW answer \in Answers[Head(c.left)], NEW d, d = AfterFailure(c, answer)
    PROVE  /\ CallOK(d) /\ d.pc \in {"trying", "later", "failed"}
           /\ d.pc = "trying" => d.to = c.to
<1>1. PICK kind : kind = Head(c.left)  OBVIOUS
<1>2. /\ c \in Call /\ Attempts(c) /\ Allowed(c) /\ NoneWaits(c)
      /\ c.policy \in Kinds /\ c.tries \in 0..3 /\ c.failed \subseteq Failures
  BY DEF CallOK, Call, Modes
<1>3. /\ c.tries \in {0, 1, 2, 3} /\ c.policy \in {"router", "self", "direct"}
      /\ c.left \in {<<"router">>, <<"self">>, <<"direct">>, <<"router", "self">>,
                     <<"self", "direct">>}
  BY <1>2 DEF Attempts, Kinds
<1>4. kind \in Kinds /\ answer \in Answers[kind]
  BY <1>1, <1>3, ShortSequences DEF Kinds
<1>5. <<kind, answer>> \in Failures  BY <1>4 DEF Failures
<1>6. PICK next :
          next = IF c.tries = 0 THEN Fallbacks(c.policy, kind, answer)
                 ELSE IF kind = "self" /\ answer = "notready" /\ ~OnionFirst(c.policy)
                         /\ <<"self", "notready">> \notin c.failed
                 THEN c.left
                 ELSE Tail(c.left)
  OBVIOUS
<1>7. d = IF OnionFirst(c.policy) /\ kind # "direct" /\ answer = "notready" THEN Over("later")
          ELSE IF next = <<>> THEN Over("failed")
          ELSE [c EXCEPT !.tries = @ + 1, !.failed = @ \cup {<<kind, answer>>},
                         !.pc = "trying", !.left = next]
  BY <1>1, <1>6 DEF AfterFailure
<1>8. CASE d \in {Over("later"), Over("failed")}
  BY <1>8, CallsOver
<1>9. CASE /\ d = [c EXCEPT !.tries = @ + 1, !.failed = @ \cup {<<kind, answer>>},
                           !.pc = "trying", !.left = next]
           /\ next # <<>>
           /\ ~(OnionFirst(c.policy) /\ kind # "direct" /\ answer = "notready")
  <2>1. /\ d.pc = "trying" /\ d.policy = c.policy /\ d.to = c.to /\ d.left = next
        /\ d.tries = c.tries + 1 /\ d.failed = c.failed \cup {<<kind, answer>>}
    BY <1>2, <1>9 DEF Call
  <2>2. NoneWaits(d)
    <3>1. kind = "direct" => answer # "notready"  BY <1>4 DEF Answers
    <3>2. OnionFirst(c.policy) => answer # "notready"  BY <1>9, <3>1
    <3> QED  BY <1>2, <2>1, <3>2 DEF NoneWaits
  <2>3. Attempts(d) /\ Allowed(d) /\ d.tries \in 0..3 /\ next \in Seq(Kinds)
    <3>1. CASE c.tries = 0
      <4>1. next = Fallbacks(c.policy, kind, answer)  BY <1>6, <3>1
      <4>2. kind # c.policy => c.policy = "self" /\ kind = "router"
        BY <1>1, <1>2, <3>1, ShortSequences DEF Attempts
      <4>3. \/ /\ kind = "router" /\ answer \in {"route", "proxy"}
               /\ next = <<"self", "direct">> /\ c.policy # "direct"
            \/ /\ kind = "router" /\ answer = "target" /\ next = <<"direct">>
               /\ c.policy # "direct"
            \/ c.policy = "direct" /\ kind = "direct" /\ next = <<"router", "self">>
            \/ c.policy = "self" /\ kind = "self" /\ next = <<"router">>
        BY <1>3, <1>9, <4>1, <4>2 DEF Fallbacks
      <4>4. d.tries = 1 /\ <<kind, answer>> \in d.failed  BY <2>1, <3>1
      <4>5. Attempts(d)  BY <2>1, <4>3, <4>4 DEF Attempts
      <4>6. Allowed(d)  BY <2>1, <4>3, <4>4 DEF Allowed
      <4>7. next \in Seq(Kinds)  BY <4>3, ShortSequences DEF Kinds
      <4> QED  BY <4>4, <4>5, <4>6, <4>7
    <3>2. CASE c.tries = 1
      <4>1. \/ /\ c.policy # "direct" /\ c.left = <<"self", "direct">> /\ kind = "self"
               /\ next = <<"direct">>
            \/ /\ c.policy = "direct" /\ c.left = <<"router", "self">> /\ kind = "router"
               /\ next = <<"self">>
        <5>1. c.policy # "direct" => OnionFirst(c.policy)  BY DEF OnionFirst
        <5>2. c.policy = "direct" => c.left = <<"router", "self">>  BY <1>2, <3>2 DEF Attempts
        <5>3. c.policy # "direct"
                  => c.left \in {<<"self", "direct">>, <<"direct">>, <<"router">>}
          BY <1>2, <3>2 DEF Attempts
        <5>4. CASE c.policy = "direct"
          <6>1. c.left = <<"router", "self">> /\ kind = "router"
            BY <1>1, <5>2, <5>4, ShortSequences
          <6>2. next = Tail(c.left)  BY <1>6, <3>2, <6>1
          <6> QED  BY <5>4, <6>1, <6>2, ShortSequences
        <5>5. CASE c.policy # "direct"
          <6>1. next = Tail(c.left)  BY <1>6, <3>2, <5>1, <5>5
          <6>2. c.left = <<"self", "direct">>  BY <1>9, <5>3, <5>5, <6>1, ShortSequences
          <6>3. kind = "self" /\ next = <<"direct">>  BY <1>1, <6>1, <6>2, ShortSequences
          <6> QED  BY <5>5, <6>2, <6>3
        <5> QED  BY <5>4, <5>5
      <4>2. d.tries = 2 /\ c.failed \subseteq d.failed  BY <2>1, <3>2
      <4>3. Attempts(d)  BY <2>1, <4>1, <4>2 DEF Attempts
      <4>4. Allowed(d)
        <5>1. CASE c.policy = "router"
          <6>1. \E a \in {"route", "proxy"} : <<"router", a>> \in c.failed
            BY <1>2, <3>2, <4>1, <5>1, ShortSequences DEF Allowed
          <6> QED  BY <2>1, <4>1, <4>2, <5>1, <6>1 DEF Allowed
        <5> QED  BY <2>1, <5>1 DEF Allowed
      <4>5. next \in Seq(Kinds)  BY <4>1, ShortSequences DEF Kinds
      <4> QED  BY <4>2, <4>3, <4>4, <4>5
    <3>3. CASE c.tries \in {2, 3}
      <4>1. \E k \in {"self", "direct"} : c.left = <<k>>
        BY <1>2, <3>3 DEF Attempts
      <4>2. Tail(c.left) = <<>> /\ next = c.left /\ kind = "self" /\ answer = "notready"
            /\ <<"self", "notready">> \notin c.failed
        BY <1>6, <1>9, <3>3, <4>1, ShortSequences
      <4>3. c.left = <<"self">>  BY <1>1, <4>1, <4>2, ShortSequences
      <4>4. c.tries = 2 /\ c.policy = "direct"
        BY <1>2, <3>3, <4>2, <4>3, ShortSequences DEF Attempts
      <4>5. d.tries = 3 /\ <<"self", "notready">> \in d.failed  BY <2>1, <4>2, <4>4
      <4>6. Attempts(d)  BY <2>1, <4>2, <4>3, <4>4, <4>5 DEF Attempts
      <4>7. Allowed(d)  BY <2>1, <4>4 DEF Allowed
      <4>8. next \in Seq(Kinds)  BY <4>2, <4>3, ShortSequences DEF Kinds
      <4> QED  BY <4>5, <4>6, <4>7, <4>8
    <3> QED  BY <1>3, <3>1, <3>2, <3>3
  <2>4. d \in Call
    <3>1. "trying" \in CallStates  BY DEF CallStates
    <3>2. d.failed \subseteq Failures  BY <1>2, <1>5, <2>1
    <3> QED  BY <1>2, <1>9, <2>1, <2>3, <3>1, <3>2 DEF Call
  <2> QED  BY <2>1, <2>2, <2>3, <2>4 DEF CallOK
<1> QED  BY <1>7, <1>8, <1>9

-----------------------------------------------------------------------------
\* A call goes on with what it has to try.
LEMMA GoingOn ==
    ASSUME NEW c, CallOK(c), c.pc \in {"storing", "trying"}, NEW stage \in {"trying", "sent"},
           NEW d, d = [c EXCEPT !.pc = stage]
    PROVE  CallOK(d) /\ d.pc = stage /\ d.to = c.to /\ Head(c.left) \in Kinds
<1>1. c \in Call /\ Attempts(c) /\ Allowed(c) /\ NoneWaits(c)  BY DEF CallOK
<1>2. c.left \in {<<"router">>, <<"self">>, <<"direct">>, <<"router", "self">>,
                 <<"self", "direct">>}
  <2>1. c.tries \in {0, 1, 2, 3} /\ c.policy \in {"router", "self", "direct"}
    BY <1>1 DEF Call, Modes, Kinds
  <2> QED  BY <1>1, <2>1 DEF Attempts
<1>3. /\ d \in Call /\ d.pc = stage /\ d.to = c.to /\ d.policy = c.policy /\ d.left = c.left
      /\ d.tries = c.tries /\ d.failed = c.failed
  BY <1>1 DEF Call, CallStates
<1>4. Attempts(d) /\ Allowed(d) /\ NoneWaits(d)
  BY <1>1, <1>3 DEF Attempts, Allowed, NoneWaits
<1>5. Head(c.left) \in Kinds  BY <1>2, ShortSequences DEF Kinds
<1> QED  BY <1>3, <1>4, <1>5 DEF CallOK

-----------------------------------------------------------------------------
LEMMA RouterStarts == ASSUME RouterInit PROVE RouterInv
<1>1. NoCall = Over("idle")  BY DEF Over, NoCall
<1>2. CallOK(NoCall) /\ NoCall.pc = "idle"  BY <1>1, CallsOver
<1> QED
  BY <1>2 DEF RouterInit, RouterInv, RowInv, KeptUnlessTaken, RetriesReachDevice,
              InboundRetried, Kinds

\* What the first call may do.
FreshMoves ==
    /\ UNCHANGED <<again, learnt, inboundVars>>
    /\ started \subseteq started' /\ started' \subseteq Kinds
    /\ carried' \in BOOLEAN /\ (carried => carried')
    /\ CallOK(fresh') /\ row' \in {row, "alias", "device"}
    /\ fresh'.pc \in {"storing", "deferring", "trying", "sent"} => fresh'.to # "none"
    /\ fresh'.pc \in {"trying", "sent", "later", "failed"} => row' # "gone" \/ carried'

LEMMA FreshBeginning ==
    ASSUME RouterInv, FreshBegins
    PROVE  FreshMoves
<1>1. PICK setting \in Modes, onion \in BOOLEAN, target \in BOOLEAN, connected \in BOOLEAN,
           ready \in BOOLEAN, to \in Addresses :
          LET policy == Policy(setting, onion) IN
          /\ to = "device" => learnt
          /\ fresh' = IF to = "none" THEN Over("refused")
                      ELSE IF Defers(setting, onion, target, connected)
                      THEN Called("deferring", policy, to, <<>>)
                      ELSE Called("storing", policy, to, <<Chosen(policy, target, ready)>>)
  <2> HIDE DEF Modes, Addresses
  <2> QED  BY DEF FreshBegins
<1>2. UNCHANGED <<again, row, learnt, carried, started, inboundVars>>
  BY DEF FreshBegins
<1>3. CASE fresh' = Over("refused")
  BY <1>2, <1>3, CallsOver DEF RouterInv, FreshMoves
<1>4. CASE fresh' = Called("deferring", Policy(setting, onion), to, <<>>) /\ to # "none"
  <2>1. PICK policy : policy = Policy(setting, onion)  OBVIOUS
  <2>2. PICK left : left = <<>>  OBVIOUS
  <2>3. fresh' = [pc |-> "deferring", policy |-> policy, to |-> to, left |-> left,
                  tries |-> 0, failed |-> {}]
    BY <1>4, <2>1, <2>2 DEF Called, NoCall
  <2>4. /\ policy \in Modes /\ "deferring" \in CallStates /\ 0 \in 0..3
        /\ {} \subseteq Failures /\ left \in Seq(Kinds)
    BY <2>1, <2>2, ShortSequences DEF Policy, Modes, Kinds, CallStates
  <2>5. fresh' \in Call  BY <2>3, <2>4 DEF Call
  <2> QED  BY <1>2, <1>4, <2>3, <2>5 DEF RouterInv, CallOK, FreshMoves
<1>5. CASE /\ fresh' = Called("storing", Policy(setting, onion), to,
                              <<Chosen(Policy(setting, onion), target, ready)>>)
           /\ to # "none"
  <2>1. CallOK(fresh') /\ fresh'.pc = "storing" /\ fresh'.to = to  BY <1>5, Beginnings
  <2> QED  BY <1>2, <1>5, <2>1 DEF RouterInv, FreshMoves
<1> QED  BY <1>1, <1>3, <1>4, <1>5

LEMMA FreshStoring ==
    ASSUME RouterInv, FreshStored
    PROVE  FreshMoves
<1>1. /\ row' = fresh.to /\ fresh.to # "none" /\ fresh.to \in Addresses
      /\ UNCHANGED <<again, learnt, carried, started, inboundVars>>
  BY DEF FreshStored, RouterInv, RowInv, CallOK, Call
<1>2. row' \in {"alias", "device"}  BY <1>1 DEF Addresses
<1>3. CASE fresh.pc = "deferring"
  <2>1. fresh' = Over("later")  BY <1>3 DEF FreshStored
  <2> QED  BY <1>1, <1>2, <2>1, CallsOver DEF RouterInv, FreshMoves
<1>4. CASE fresh.pc = "storing"
  <2>1. fresh' = [fresh EXCEPT !.pc = "trying"]  BY <1>4 DEF FreshStored
  <2>2. CallOK(fresh') /\ fresh'.pc = "trying" /\ fresh'.to = fresh.to
    BY <1>4, <2>1, GoingOn DEF RouterInv
  <2> QED  BY <1>1, <1>2, <2>2 DEF RouterInv, FreshMoves
<1> QED  BY <1>3, <1>4 DEF FreshStored

LEMMA FreshFailing ==
    ASSUME RouterInv, NEW answer \in Answers[Head(fresh.left)], fresh.pc \in {"trying", "sent"},
           fresh' = AfterFailure(fresh, answer),
           UNCHANGED <<again, row, learnt, carried, started, inboundVars>>
    PROVE  FreshMoves
<1>1. /\ CallOK(fresh') /\ fresh'.pc \in {"trying", "later", "failed"}
      /\ fresh'.pc = "trying" => fresh'.to = fresh.to
  BY Failing DEF RouterInv
<1> QED  BY <1>1 DEF RouterInv, RowInv, KeptUnlessTaken, FreshMoves

LEMMA FreshTrying ==
    ASSUME RouterInv, FreshTries \/ FreshAnswered
    PROVE  FreshMoves
<1>1. CASE /\ TryBegins(fresh) /\ fresh' = [fresh EXCEPT !.pc = "sent"] /\ row' = fresh.to
           /\ started' = started \cup {Head(fresh.left)}
           /\ UNCHANGED <<again, learnt, carried, inboundVars>>
  <2>1. /\ CallOK(fresh') /\ fresh'.pc = "sent" /\ fresh'.to = fresh.to
        /\ Head(fresh.left) \in Kinds
    BY <1>1, GoingOn DEF RouterInv, TryBegins
  <2>2. fresh.to # "none" /\ fresh.to \in Addresses
    BY <1>1 DEF RouterInv, RowInv, CallOK, Call, TryBegins
  <2> QED  BY <1>1, <2>1, <2>2 DEF RouterInv, FreshMoves, Addresses
<1>2. CASE \E answer \in {"notready", "other"} :
              /\ TryFails(fresh, answer) /\ fresh' = AfterFailure(fresh, answer)
              /\ UNCHANGED <<again, row, learnt, carried, started, inboundVars>>
  BY <1>2, FreshFailing DEF TryFails
<1>3. CASE FreshAnswered
  <2>1. CASE carried' = TRUE /\ fresh' = Over("ok")
    <3>1. UNCHANGED <<again, row, learnt, started, inboundVars>>  BY <1>3 DEF FreshAnswered
    <3> QED  BY <2>1, <3>1, CallsOver DEF RouterInv, FreshMoves
  <2>2. CASE /\ \E answer \in Answers[Head(fresh.left)] : fresh' = AfterFailure(fresh, answer)
             /\ UNCHANGED carried
    <3>1. fresh.pc = "sent" /\ UNCHANGED <<again, row, learnt, carried, started, inboundVars>>
      BY <1>3, <2>2 DEF FreshAnswered
    <3> QED  BY <2>2, <3>1, FreshFailing
  <2> QED  BY <1>3, <2>1, <2>2 DEF FreshAnswered
<1> QED  BY <1>1, <1>2, <1>3 DEF FreshTries

LEMMA FreshKeeps ==
    ASSUME RouterInv, FreshMoves
    PROVE  RouterInv'
<1>1. CallOK(fresh') /\ CallOK(again')  BY DEF RouterInv, FreshMoves
<1>2. RowInv' /\ KeptUnlessTaken'
  BY DEF RouterInv, RowInv, FreshMoves, KeptUnlessTaken
<1>3. RetriesReachDevice' /\ InboundRetried'
  BY DEF RouterInv, FreshMoves, RetriesReachDevice, InboundRetried, inboundVars
<1> QED  BY <1>1, <1>2, <1>3 DEF RouterInv, FreshMoves, inboundVars

-----------------------------------------------------------------------------
\* What the repeated call may do.
AgainMoves ==
    /\ UNCHANGED <<fresh, learnt, inboundVars>>
    /\ started \subseteq started' /\ started' \subseteq Kinds
    /\ carried' \in BOOLEAN /\ (carried => carried')
    /\ CallOK(again') /\ row' \in {row, "device"}
    /\ row = "gone" => row' = "gone"
    /\ again'.pc \in {"trying", "sent"} => again'.to = "device"

LEMMA AgainBeginning ==
    ASSUME RouterInv, AgainBegins
    PROVE  AgainMoves
<1>1. /\ row \in {"alias", "device"} /\ row' = Addressed
      /\ UNCHANGED <<fresh, learnt, carried, started, inboundVars>>
  BY DEF AgainBegins, RouterInv, RowInv
<1>2. row' \in {row, "device"} /\ Refreshed \in {"none", "device"}
  BY <1>1 DEF Addressed, Refreshed
<1>3. PICK setting \in Modes, onion \in BOOLEAN, target \in BOOLEAN, connected \in BOOLEAN,
           ready \in BOOLEAN :
          again' = IF Refreshed = "none" THEN Over("refused")
                   ELSE IF Defers(setting, onion, target, connected) THEN Over("later")
                   ELSE Called("trying", Policy(setting, onion), Refreshed,
                               <<Chosen(Policy(setting, onion), target, ready)>>)
  BY DEF AgainBegins
<1>4. CASE again' \in {Over("refused"), Over("later")}
  BY <1>1, <1>2, <1>4, CallsOver DEF RouterInv, AgainMoves
<1>5. CASE /\ again' = Called("trying", Policy(setting, onion), "device",
                              <<Chosen(Policy(setting, onion), target, ready)>>)
  <2>1. "device" \in Addresses  BY DEF Addresses
  <2>2. CallOK(again') /\ again'.to = "device"  BY <1>5, <2>1, Beginnings
  <2> QED  BY <1>1, <1>2, <2>2 DEF RouterInv, AgainMoves
<1> QED  BY <1>2, <1>3, <1>4, <1>5

LEMMA AgainFailing ==
    ASSUME RouterInv, NEW answer \in Answers[Head(again.left)], again.pc \in {"trying", "sent"},
           again' = AfterFailure(again, answer),
           UNCHANGED <<fresh, row, learnt, carried, started, inboundVars>>
    PROVE  AgainMoves
<1>1. /\ CallOK(again') /\ again'.pc \in {"trying", "later", "failed"}
      /\ again'.pc = "trying" => again'.to = again.to
  BY Failing DEF RouterInv
<1> QED  BY <1>1 DEF RouterInv, RetriesReachDevice, AgainMoves

LEMMA AgainTrying ==
    ASSUME RouterInv, AgainTries \/ AgainAnswered \/ AgainEnds
    PROVE  AgainMoves
<1>1. CASE /\ TryBegins(again) /\ again' = [again EXCEPT !.pc = "sent"]
           /\ started' = started \cup {Head(again.left)}
           /\ UNCHANGED <<fresh, row, learnt, carried, inboundVars>>
  <2>1. /\ CallOK(again') /\ again'.pc = "sent" /\ again'.to = again.to
        /\ Head(again.left) \in Kinds
    BY <1>1, GoingOn DEF RouterInv, TryBegins
  <2> QED  BY <1>1, <2>1 DEF RouterInv, AgainMoves, TryBegins, RetriesReachDevice
<1>2. CASE \E answer \in {"notready", "other"} :
              /\ TryFails(again, answer) /\ again' = AfterFailure(again, answer)
              /\ UNCHANGED <<fresh, row, learnt, carried, started, inboundVars>>
  BY <1>2, AgainFailing DEF TryFails
<1>3. CASE AgainAnswered
  <2>1. CASE carried' = TRUE /\ again' = Over("ok")
    <3>1. UNCHANGED <<fresh, row, learnt, started, inboundVars>>  BY <1>3 DEF AgainAnswered
    <3> QED  BY <2>1, <3>1, CallsOver DEF RouterInv, AgainMoves
  <2>2. CASE /\ \E answer \in Answers[Head(again.left)] : again' = AfterFailure(again, answer)
             /\ UNCHANGED carried
    <3>1. again.pc = "sent" /\ UNCHANGED <<fresh, row, learnt, carried, started, inboundVars>>
      BY <1>3, <2>2 DEF AgainAnswered
    <3> QED  BY <2>2, <3>1, AgainFailing
  <2> QED  BY <1>3, <2>1, <2>2 DEF AgainAnswered
<1>4. CASE AgainEnds
  <2>1. NoCall = Over("idle")  BY DEF Over, NoCall
  <2>2. CallOK(NoCall) /\ NoCall.pc = "idle"  BY <2>1, CallsOver
  <2> QED  BY <1>4, <2>2 DEF AgainEnds, RouterInv, AgainMoves
<1> QED  BY <1>1, <1>2, <1>3, <1>4 DEF AgainTries

LEMMA AgainKeeps ==
    ASSUME RouterInv, AgainMoves
    PROVE  RouterInv'
<1>1. CallOK(fresh') /\ CallOK(again')  BY DEF RouterInv, AgainMoves
<1>2. RowInv' /\ KeptUnlessTaken'
  BY DEF RouterInv, RowInv, AgainMoves, KeptUnlessTaken
<1>3. RetriesReachDevice' /\ InboundRetried'
  BY DEF RouterInv, AgainMoves, RetriesReachDevice, InboundRetried, inboundVars
<1> QED  BY <1>1, <1>2, <1>3 DEF RouterInv, AgainMoves, inboundVars

-----------------------------------------------------------------------------
\* The acknowledgement, the friend's device, the listener.
LEMMA BesideKeeps ==
    ASSUME RouterInv,
           \/ AckDeletes \/ DeviceLearnt \/ Prewarmed \/ Subscribed \/ Unsubscribed
           \/ ListenerPrepared \/ ListenerRetries
    PROVE  RouterInv'
<1>1. /\ UNCHANGED <<fresh, again, carried>>
      /\ row' = row \/ (row' = "gone" /\ carried)
      /\ learnt' \in {learnt, TRUE} /\ started \subseteq started' /\ started' \subseteq Kinds
  <2>1. CASE Prewarmed  BY <2>1 DEF Prewarmed, callVars, RouterInv
  <2>2. CASE ListenerPrepared  BY <2>2 DEF ListenerPrepared, callVars, RouterInv, Kinds
  <2>3. CASE AckDeletes \/ DeviceLearnt \/ Subscribed \/ Unsubscribed \/ ListenerRetries
    BY <2>3 DEF AckDeletes, DeviceLearnt, Subscribed, Unsubscribed, ListenerRetries, callVars,
                RouterInv
  <2> QED  BY <2>1, <2>2, <2>3
<1>2. /\ listens' \in BOOLEAN /\ preparing' \in BOOLEAN /\ awaited' \in BOOLEAN
      /\ InboundRetried'
  <2>1. CASE ListenerPrepared
    <3>1. /\ preparing' = FALSE /\ listens' = listens /\ listens \in BOOLEAN
          /\ awaited' \in BOOLEAN /\ (listens /\ "router" \notin started' => awaited')
      <4>1. PICK own \in SUBSET {"router", "self"} :
                /\ started' = started \cup own
                /\ awaited' = (awaited \/ (listens /\ "router" \notin own))
        BY <2>1 DEF ListenerPrepared
      <4>2. listens \in BOOLEAN /\ awaited \in BOOLEAN /\ listens' = listens /\ preparing' = FALSE
        BY <2>1 DEF ListenerPrepared, RouterInv
      <4>3. awaited' \in BOOLEAN  BY <4>1, <4>2
      <4>4. "router" \notin started' => "router" \notin own  BY <4>1
      <4> QED  BY <4>1, <4>2, <4>3, <4>4
    <3> QED  BY <3>1 DEF InboundRetried
  <2>2. CASE ListenerRetries
    <3>1. /\ awaited' = FALSE /\ listens' = listens /\ listens \in BOOLEAN
          /\ preparing' = (preparing \/ listens)
      BY <2>2 DEF ListenerRetries, RouterInv
    <3> QED  BY <3>1 DEF InboundRetried
  <2>3. CASE Subscribed \/ Unsubscribed
    BY <2>3 DEF RouterInv, InboundRetried, Subscribed, Unsubscribed
  <2>4. CASE AckDeletes \/ DeviceLearnt \/ Prewarmed
    BY <1>1, <2>4 DEF RouterInv, InboundRetried, inboundVars, AckDeletes, DeviceLearnt, Prewarmed
  <2> QED  BY <2>1, <2>2, <2>3, <2>4
<1>3. RowInv' /\ KeptUnlessTaken' /\ RetriesReachDevice'
  BY <1>1 DEF RouterInv, RowInv, KeptUnlessTaken, RetriesReachDevice
<1> QED  BY <1>1, <1>2, <1>3 DEF RouterInv

LEMMA RouterStep ==
    ASSUME RouterInv, [RouterNext]_routerVars
    PROVE  RouterInv'
<1>1. CASE FreshBegins \/ FreshStored \/ FreshTries \/ FreshAnswered
  BY <1>1, FreshBeginning, FreshStoring, FreshTrying, FreshKeeps
<1>2. CASE AgainBegins \/ AgainEnds \/ AgainTries \/ AgainAnswered
  BY <1>2, AgainBeginning, AgainTrying, AgainKeeps
<1>3. CASE \/ AckDeletes \/ DeviceLearnt \/ Prewarmed \/ Subscribed \/ Unsubscribed
           \/ ListenerPrepared \/ ListenerRetries
  BY <1>3, BesideKeeps
<1>4. CASE UNCHANGED routerVars
  BY <1>4 DEF routerVars, inboundVars, RouterInv, RowInv, KeptUnlessTaken,
              RetriesReachDevice, InboundRetried
<1> QED  BY <1>1, <1>2, <1>3, <1>4 DEF RouterNext

\* What is left to try is what the guard of an attempt lets through.
LEMMA AttemptsAreOpen ==
    ASSUME NEW c, CallOK(c), c.pc \in {"trying", "sent"}
    PROVE  Opened(c)
<1>1. Attempts(c) /\ Allowed(c) /\ c.tries \in {0, 1, 2, 3} /\ c.policy \in Kinds
  BY DEF CallOK, Call, Modes
<1>2. CASE c.policy # "router"  BY <1>2 DEF Opened, Guarded
<1>3. CASE c.policy = "router" /\ c.tries = 0
  <2>1. Head(c.left) = "router"  BY <1>1, <1>3, ShortSequences DEF Attempts
  <2> QED  BY <2>1 DEF Opened
<1>4. CASE c.policy = "router" /\ c.tries > 0 /\ c.left = <<"direct">>
  <2>1. Head(c.left) = "direct"  BY <1>4, ShortSequences
  <2>2. \E a \in {"target", "route", "proxy"} : <<"router", a>> \in c.failed
    BY <1>1, <1>4, ShortSequences DEF Allowed
  <2> QED  BY <2>1, <2>2 DEF Opened
<1>5. CASE c.policy = "router" /\ c.tries > 0 /\ c.left = <<"self", "direct">>
  <2>1. Head(c.left) = "self"  BY <1>5, ShortSequences
  <2>2. \E a \in {"route", "proxy"} : <<"router", a>> \in c.failed
    BY <1>1, <1>5, ShortSequences DEF Allowed
  <2> QED  BY <2>1, <2>2 DEF Opened
<1> QED  BY <1>1, <1>2, <1>3, <1>4, <1>5 DEF Allowed

LEMMA RouterIsSound == ASSUME RouterInv PROVE RouterSound
<1>1. RouterTypeOK
  BY DEF RouterInv, RowInv, CallOK, Call, RouterTypeOK, Failures, Addresses
<1>2. AllowedIsOpen  BY AttemptsAreOpen DEF RouterInv, AllowedIsOpen
<1>3. NotReadyWaits  BY DEF RouterInv, CallOK, NoneWaits, NotReadyWaits
<1> QED  BY <1>1, <1>2, <1>3 DEF RouterInv, RouterSound

\* However the two calls, the acknowledgement and the listener interleave, and whatever the
\* transports answer: a call tries what the settings and the answers allow, an onion that is not
\* ready is waited for, the record stays until a transport has taken the message, a retry goes to
\* the friend's device, and a listener has its transport or gets it (router.ts).
THEOREM RouterHolds == RouterSpec => []RouterSound
<1>1. RouterInit => RouterInv  BY RouterStarts
<1>2. RouterInv /\ [RouterNext]_routerVars => RouterInv'  BY RouterStep
<1>3. RouterInv => RouterSound  BY RouterIsSound
<1> QED  BY <1>1, <1>2, <1>3, PTL DEF RouterSpec

-----------------------------------------------------------------------------
(***************************************************************************)
(* The pairing of devices (DevicePairing).                                 *)
(***************************************************************************)
PairRequests == [id : Nat, guest : Guests, code : Codes]
Messages == [type : {"PAIR_REQ"}, request : PairRequests, status : {"asked"}]
            \cup [type : {"PAIR_RES"}, request : PairRequests,
                  status : {"error", "approved", "rejected"}]
LinkStates == {"idle", "pending", "error", "rejected", "linked"}
GuestLinks == [request : PairRequests \cup {NoRequest}, status : LinkStates, timer : BOOLEAN,
               listens : PairRequests \cup {NoRequest}, event : PairRequests \cup {NoRequest}]

PairingTypes ==
    /\ codes \in [Codes -> {"none", "fresh", "used", "expired"}]
    /\ link \in [Guests -> GuestLinks] /\ polls \in [Guests -> SUBSET Codes]
    /\ posted \subseteq [to : PairingDevices, message : Messages]
    /\ asked \in Nat /\ takenCodes \subseteq PairRequests /\ approvals \subseteq PairRequests

\* A request that was taken has used its code up; what is shown, approved or stored was taken.
TakenInv ==
    /\ \A request \in takenCodes : codes[request.code] \in {"used", "expired"}
    /\ dialog \in takenCodes \cup {NoRequest} /\ approvals \subseteq takenCodes
    /\ approving.step = "store" => approving.request \in takenCodes

\* A guest that is told of an approval, and one that works on it, has been approved.
ToldInv ==
    /\ \A post \in posted : post.message.status = "approved" => post.message.request \in approvals
    /\ \A guest \in Guests : link[guest].event \in approvals \cup {NoRequest}

PairingInv == PairingTypes /\ TakenInv /\ ToldInv /\ OneRequestPerCode /\ LinkedWasApproved

LEMMA RequestIsOne == \A request \in PairRequests : request # NoRequest
<1> SUFFICES ASSUME NEW request \in PairRequests, request = NoRequest PROVE FALSE
  OBVIOUS
<1>1. DOMAIN request = {"id", "guest", "code"}  BY DEF PairRequests
<1>2. DOMAIN request = {"id"}  BY DEF NoRequest
<1> QED  BY <1>1, <1>2

LEMMA PairingStarts == ASSUME PairingInit PROVE PairingInv
<1>1. Unlinked \in GuestLinks /\ Unlinked.event = NoRequest /\ Unlinked.status = "idle"
  BY DEF Unlinked, GuestLinks, LinkStates
<1>2. PairingTypes  BY <1>1 DEF PairingInit, PairingTypes
<1>3. TakenInv  BY DEF PairingInit, TakenInv, Idle
<1>4. ToldInv  BY <1>1 DEF PairingInit, ToldInv
<1>5. OneRequestPerCode  BY DEF PairingInit, OneRequestPerCode
<1>6. LinkedWasApproved  BY <1>1 DEF PairingInit, LinkedWasApproved
<1> QED  BY <1>2, <1>3, <1>4, <1>5, <1>6 DEF PairingInv

\* What is published about a request is true of it.
LEMMA Publishing ==
    ASSUME PairingInv, NEW from, NEW message \in Messages,
           message.status = "approved" => message.request \in approvals',
           approvals \subseteq approvals', NEW over, posted' = Publish(from, {message}) \ over
    PROVE  /\ posted' \subseteq [to : PairingDevices, message : Messages]
           /\ \A post \in posted' : post.message.status = "approved"
                                        => post.message.request \in approvals'
<1> DEFINE new == {[to |-> d, message |-> m] : d \in PairingDevices \ {from}, m \in {message}}
<1>2. \A post \in new : /\ post \in [to : PairingDevices, message : Messages]
                        /\ post.message = message
  OBVIOUS
<1>3. posted' \subseteq posted \cup new  BY DEF Publish
<1> HIDE DEF new
<1>4. posted \subseteq [to : PairingDevices, message : Messages]  BY DEF PairingInv, PairingTypes
<1>5. \A post \in posted : post.message.status = "approved"
                               => post.message.request \in approvals'
  BY DEF PairingInv, ToldInv
<1> QED  BY <1>2, <1>3, <1>4, <1>5

LEMMA MessagesOf ==
    ASSUME NEW request \in PairRequests, NEW status \in {"error", "approved", "rejected"}
    PROVE  /\ AskMessage(request) \in Messages /\ AskMessage(request).status = "asked"
           /\ Result(request, status) \in Messages /\ Result(request, status).status = status
           /\ Result(request, status).request = request
  BY DEF AskMessage, Result, Messages

LEMMA PostFields ==
    ASSUME PairingInv, NEW post \in posted
    PROVE  /\ post.to \in PairingDevices /\ post.message \in Messages
           /\ post.message.request \in PairRequests /\ post.message.request.code \in Codes
           /\ post.message.request.guest \in Guests
           /\ post.message.type = "PAIR_RES"
                  => post.message.status \in {"error", "approved", "rejected"}
<1>1. post \in [to : PairingDevices, message : Messages]  BY DEF PairingInv, PairingTypes
<1>2. PICK message : message = post.message  OBVIOUS
<1>3. post.to \in PairingDevices /\ message \in Messages  BY <1>1, <1>2
<1>4. /\ message.request \in PairRequests
      /\ message.type = "PAIR_RES" => message.status \in {"error", "approved", "rejected"}
  BY <1>3 DEF Messages
<1>5. message.request.code \in Codes /\ message.request.guest \in Guests
  BY <1>4 DEF PairRequests
<1> QED  BY <1>2, <1>3, <1>4, <1>5

-----------------------------------------------------------------------------
LEMMA CodeMoves ==
    ASSUME PairingInv, NEW code \in Codes, GenerateCode(code) \/ CodeExpires(code)
    PROVE  PairingInv'
<1>1. /\ \/ codes[code] = "none" /\ codes' = [codes EXCEPT ![code] = "fresh"]
         \/ codes[code] \in {"fresh", "used"} /\ codes' = [codes EXCEPT ![code] = "expired"]
      /\ dialog' \in {NoRequest, dialog}
      /\ UNCHANGED <<approving, approvals, link, polls, posted, asked, takenCodes>>
  BY DEF GenerateCode, CodeExpires
<1>2. /\ codes' \in [Codes -> {"none", "fresh", "used", "expired"}]
      /\ \A c \in Codes : codes[c] \in {"used", "expired"} => codes'[c] \in {"used", "expired"}
  BY <1>1 DEF PairingInv, PairingTypes
<1>3. PairingTypes'  BY <1>1, <1>2 DEF PairingInv, PairingTypes
<1>4. TakenInv'
  <2>1. \A request \in takenCodes : request.code \in Codes
    BY DEF PairingInv, PairingTypes, PairRequests
  <2> QED  BY <1>1, <1>2, <2>1 DEF PairingInv, TakenInv
<1>5. ToldInv' /\ OneRequestPerCode' /\ LinkedWasApproved'
  BY <1>1 DEF PairingInv, ToldInv, OneRequestPerCode, LinkedWasApproved
<1> QED  BY <1>3, <1>4, <1>5 DEF PairingInv

\* One guest's link changes.
LEMMA LinkChanges ==
    ASSUME PairingInv, NEW guest \in Guests, NEW l \in GuestLinks,
           link' = [link EXCEPT ![guest] = l],
           l.event \in approvals \cup {NoRequest},
           l.status = "linked" => \E request \in approvals \cap takenCodes : request.guest = guest,
           posted' \subseteq [to : PairingDevices, message : Messages],
           \A post \in posted' : post.message.status = "approved"
                                     => post.message.request \in approvals,
           polls' \in [Guests -> SUBSET Codes], asked' \in Nat,
           UNCHANGED <<codes, dialog, approving, approvals, takenCodes>>
    PROVE  PairingInv'
<1>1. /\ link' \in [Guests -> GuestLinks] /\ link'[guest] = l
      /\ \A g \in Guests : g # guest => link'[g] = link[g]
  BY DEF PairingInv, PairingTypes
<1>2. PairingTypes'  BY <1>1 DEF PairingInv, PairingTypes
<1>3. TakenInv' /\ OneRequestPerCode'  BY DEF PairingInv, TakenInv, OneRequestPerCode
<1>4. ToldInv'  BY <1>1 DEF PairingInv, ToldInv
<1>5. LinkedWasApproved'  BY <1>1 DEF PairingInv, LinkedWasApproved
<1> QED  BY <1>2, <1>3, <1>4, <1>5 DEF PairingInv

LEMMA GuestFields ==
    ASSUME PairingInv, NEW guest \in Guests
    PROVE  /\ link[guest] \in GuestLinks
           /\ link[guest].event \in approvals \cup {NoRequest}
           /\ link[guest].status = "linked"
                  => \E request \in approvals \cap takenCodes : request.guest = guest
           /\ posted \subseteq [to : PairingDevices, message : Messages]
           /\ \A post \in posted : post.message.status = "approved"
                                       => post.message.request \in approvals
           /\ polls \in [Guests -> SUBSET Codes] /\ asked \in Nat
<1>1. link[guest] \in GuestLinks  BY DEF PairingInv, PairingTypes
<1>2. link[guest].event \in approvals \cup {NoRequest}  BY DEF PairingInv, ToldInv
<1>3. link[guest].status = "linked"
          => \E request \in approvals \cap takenCodes : request.guest = guest
  BY DEF PairingInv, LinkedWasApproved
<1>4. /\ posted \subseteq [to : PairingDevices, message : Messages]
      /\ polls \in [Guests -> SUBSET Codes] /\ asked \in Nat
  BY DEF PairingInv, PairingTypes
<1>5. \A post \in posted : post.message.status = "approved"
                               => post.message.request \in approvals
  BY DEF PairingInv, ToldInv
<1> QED  BY <1>1, <1>2, <1>3, <1>4, <1>5

LEMMA GuestMoves ==
    ASSUME PairingInv, NEW guest \in Guests,
           \/ \E code \in Codes : SubmitLink(guest, code)
           \/ FinishLink(guest) \/ LinkTimeout(guest) \/ Redraw(guest)
    PROVE  PairingInv'
<1>1. PICK old \in GuestLinks : old = link[guest]  BY GuestFields
<1>2. old.event \in approvals \cup {NoRequest}  BY <1>1, GuestFields
<1>3. ASSUME NEW code \in Codes, SubmitLink(guest, code) PROVE PairingInv'
  <2>1. PICK request : request = PairRequest(guest, code)  OBVIOUS
  <2>2. request \in PairRequests
    BY <2>1, GuestFields DEF PairRequest, PairRequests
  <2>3. PICK l : l = [old EXCEPT !.request = request, !.status = "pending", !.timer = TRUE]
    OBVIOUS
  <2>4. l \in GuestLinks /\ l.event = old.event /\ l.status = "pending"
    BY <1>1, <2>2, <2>3 DEF GuestLinks, LinkStates
  <2>5. /\ link' = [link EXCEPT ![guest] = l]
        /\ posted' = Publish(guest, {AskMessage(request)}) \ {}
        /\ polls' = Polled(guest, code) /\ asked' = asked + 1
        /\ UNCHANGED <<codes, waiting, dialog, approving, approvals, takenCodes>>
    BY <1>1, <1>3, <2>1, <2>3 DEF SubmitLink
  <2>6. AskMessage(request) \in Messages /\ AskMessage(request).status # "approved"
    BY <2>2, MessagesOf
  <2>7. /\ posted' \subseteq [to : PairingDevices, message : Messages]
        /\ \A post \in posted' : post.message.status = "approved"
                                     => post.message.request \in approvals'
    BY <2>5, <2>6, Publishing
  <2>8. polls' \in [Guests -> SUBSET Codes] /\ asked' \in Nat
    BY <2>5, GuestFields DEF Polled
  <2> QED  BY <1>2, <2>4, <2>5, <2>7, <2>8, LinkChanges
<1>4. CASE FinishLink(guest)
  <2>1. PICK status \in {"linked", "error"} :
            /\ status = "linked" => old.event.guest = guest
            /\ link' = [link EXCEPT ![guest].status = status, ![guest].event = NoRequest]
            /\ old.event # NoRequest
            /\ UNCHANGED <<codes, waiting, dialog, approving, approvals, polls, posted, asked,
                           takenCodes>>
    BY <1>1, <1>4 DEF FinishLink
  <2>2. PICK l : l = [old EXCEPT !.status = status, !.event = NoRequest]  OBVIOUS
  <2>3. l \in GuestLinks /\ l.event = NoRequest /\ l.status = status
    BY <1>1, <2>2 DEF GuestLinks, LinkStates
  <2>4. link' = [link EXCEPT ![guest] = l]
    BY <1>1, <2>1, <2>2, GuestFields
  <2>5. old.event \in approvals \cap takenCodes
    BY <1>2, <2>1 DEF PairingInv, TakenInv
  <2>6. l.status = "linked" => \E request \in approvals \cap takenCodes : request.guest = guest
    BY <2>1, <2>3, <2>5
  <2> QED  BY <2>1, <2>3, <2>4, <2>6, GuestFields, LinkChanges
<1>5. CASE LinkTimeout(guest) \/ Redraw(guest)
  <2>1. UNCHANGED <<codes, waiting, dialog, approving, approvals, polls, posted, asked, takenCodes>>
    BY <1>5 DEF LinkTimeout, Redraw
  <2>2. CASE LinkTimeout(guest)
    <3>1. PICK l : l = [old EXCEPT !.status = "error", !.timer = FALSE]  OBVIOUS
    <3>2. l \in GuestLinks /\ l.event = old.event /\ l.status = "error"
      BY <1>1, <3>1 DEF GuestLinks, LinkStates
    <3>3. link' = [link EXCEPT ![guest] = l]
      BY <1>1, <2>2, <3>1, GuestFields DEF LinkTimeout
    <3> QED  BY <1>2, <2>1, <3>2, <3>3, GuestFields, LinkChanges
  <2>3. CASE Redraw(guest)
    <3>1. PICK l : l = [old EXCEPT !.listens = old.request, !.timer = FALSE]  OBVIOUS
    <3>2. l \in GuestLinks /\ l.event = old.event /\ l.status = old.status
      BY <1>1, <3>1 DEF GuestLinks
    <3>3. link' = [link EXCEPT ![guest] = l]
      BY <1>1, <2>3, <3>1, GuestFields DEF Redraw
    <3> QED  BY <1>1, <1>2, <2>1, <3>2, <3>3, GuestFields, LinkChanges
  <2> QED  BY <1>5, <2>2, <2>3
<1> QED  BY <1>3, <1>4, <1>5

LEMMA ResultTaken ==
    ASSUME PairingInv, NEW post \in posted, TakeResult(post)
    PROVE  PairingInv'
<1>1. PICK guest, request : guest = post.to /\ request = post.message.request  OBVIOUS
<1>2. /\ guest \in Guests /\ post.message.type = "PAIR_RES" /\ posted' = posted \ {post}
      /\ polls' = [polls EXCEPT ![guest] = @ \ {request.code}]
      /\ UNCHANGED <<codes, waiting, dialog, approving, approvals, asked, takenCodes>>
  BY <1>1 DEF TakeResult
<1>3. PICK old \in GuestLinks : old = link[guest]  BY <1>2, GuestFields
<1>4. PICK status : status = post.message.status  OBVIOUS
<1>5. /\ request \in PairRequests /\ status \in {"error", "approved", "rejected"}
      /\ status = "approved" => request \in approvals
      /\ old.event \in approvals \cup {NoRequest}
      /\ polls' \in [Guests -> SUBSET Codes]
  BY <1>1, <1>2, <1>3, <1>4, PostFields, GuestFields
<1>6. CASE link' = link
  <2>1. link' = [link EXCEPT ![guest] = old]  BY <1>3, <1>6 DEF PairingInv, PairingTypes
  <2> QED  BY <1>2, <1>3, <1>5, <2>1, GuestFields, LinkChanges
<1>7. CASE /\ status = "approved"
           /\ link' = [link EXCEPT ![guest].timer = FALSE, ![guest].event = request]
  <2>1. PICK l : l = [old EXCEPT !.timer = FALSE, !.event = request]  OBVIOUS
  <2>2. l \in GuestLinks /\ l.event = request /\ l.status = old.status
    BY <1>3, <1>5, <2>1 DEF GuestLinks
  <2>3. link' = [link EXCEPT ![guest] = l]  BY <1>2, <1>3, <1>7, <2>1, GuestFields
  <2> QED  BY <1>2, <1>3, <1>5, <1>7, <2>2, <2>3, GuestFields, LinkChanges
<1>8. CASE /\ status # "approved"
           /\ link' = [link EXCEPT ![guest].timer = FALSE, ![guest].status = status]
  <2>1. PICK l : l = [old EXCEPT !.timer = FALSE, !.status = status]  OBVIOUS
  <2>2. l \in GuestLinks /\ l.event = old.event /\ l.status = status
    BY <1>3, <1>5, <1>8, <2>1 DEF GuestLinks, LinkStates
  <2>3. link' = [link EXCEPT ![guest] = l]  BY <1>2, <1>3, <1>8, <2>1, GuestFields
  <2> QED  BY <1>2, <1>3, <1>5, <2>2, <2>3, GuestFields, LinkChanges
<1> QED  BY <1>1, <1>4, <1>6, <1>7, <1>8 DEF TakeResult

\* The host publishes a result, or a guest refuses what it cannot know.
LEMMA HostMoves_ ==
    ASSUME PairingInv, NEW request \in PairRequests, NEW from, NEW over,
           NEW status \in {"error", "approved", "rejected"},
           posted' = Publish(from, {Result(request, status)}) \ over,
           status = "approved" => request \in approvals',
           \/ approvals' = approvals
           \/ approvals' = approvals \cup {request} /\ request \in takenCodes,
           dialog' \in {NoRequest, dialog}, approving'.step # "store" \/ approving' = approving,
           UNCHANGED <<codes, link, polls, asked, takenCodes>>
    PROVE  PairingInv'
<1>1. /\ Result(request, status) \in Messages
      /\ Result(request, status).status = status /\ Result(request, status).request = request
  BY MessagesOf
<1>2. approvals \subseteq approvals' /\ approvals' \subseteq takenCodes
  BY DEF PairingInv, TakenInv
<1>3. /\ posted' \subseteq [to : PairingDevices, message : Messages]
      /\ \A post \in posted' : post.message.status = "approved"
                                   => post.message.request \in approvals'
  BY <1>1, <1>2, Publishing
<1>4. PairingTypes'  BY <1>2, <1>3 DEF PairingInv, PairingTypes
<1>5. TakenInv'  BY <1>2 DEF PairingInv, TakenInv
<1>6. ToldInv'  BY <1>2, <1>3 DEF PairingInv, ToldInv
<1>7. OneRequestPerCode'  BY DEF PairingInv, OneRequestPerCode
<1>8. LinkedWasApproved'  BY <1>2 DEF PairingInv, LinkedWasApproved
<1> QED  BY <1>4, <1>5, <1>6, <1>7, <1>8 DEF PairingInv

LEMMA RequestTaken ==
    ASSUME PairingInv, NEW post \in posted, TakeRequest(post) \/ RefuseRequest(post)
    PROVE  PairingInv'
<1>1. PICK request : request = post.message.request  OBVIOUS
<1>2. request \in PairRequests /\ request.code \in Codes  BY <1>1, PostFields
<1>3. CASE /\ codes[request.code] = "fresh" /\ codes' = [codes EXCEPT ![request.code] = "used"]
           /\ dialog' = request /\ takenCodes' = takenCodes \cup {request}
           /\ posted' = posted \ {post}
           /\ UNCHANGED <<approving, approvals, link, polls, asked>>
  <2>1. /\ codes' \in [Codes -> {"none", "fresh", "used", "expired"}]
        /\ codes'[request.code] = "used"
        /\ \A c \in Codes : c # request.code => codes'[c] = codes[c]
    BY <1>2, <1>3 DEF PairingInv, PairingTypes
  <2>2. \A r \in takenCodes : r.code \in Codes /\ r.code # request.code
    BY <1>3 DEF PairingInv, TakenInv, PairingTypes, PairRequests
  <2>3. PairingTypes'  BY <1>2, <1>3, <2>1 DEF PairingInv, PairingTypes
  <2>4. TakenInv'
    <3>1. \A r \in takenCodes' : codes'[r.code] \in {"used", "expired"}
      BY <1>3, <2>1, <2>2 DEF PairingInv, TakenInv
    <3> QED  BY <1>3, <3>1 DEF PairingInv, TakenInv
  <2>5. OneRequestPerCode'  BY <1>3, <2>2 DEF PairingInv, OneRequestPerCode
  <2>6. ToldInv' /\ LinkedWasApproved'
    BY <1>3 DEF PairingInv, ToldInv, LinkedWasApproved
  <2> QED  BY <2>3, <2>4, <2>5, <2>6 DEF PairingInv
<1>4. CASE \E from : /\ posted' = Publish(from, {Result(request, "error")}) \ {post}
                     /\ UNCHANGED <<codes, waiting, dialog, approving, approvals, link, polls,
                                    asked, takenCodes>>
  BY <1>2, <1>4, HostMoves_
<1>5. CASE TakeRequest(post)
  <2>1. \/ /\ codes[request.code] = "fresh" /\ codes' = [codes EXCEPT ![request.code] = "used"]
           /\ dialog' = request /\ takenCodes' = takenCodes \cup {request}
           /\ posted' = posted \ {post}
           /\ UNCHANGED <<approving, approvals, link, polls, asked>>
        \/ /\ posted' = Publish("host", {Result(request, "error")}) \ {post}
           /\ UNCHANGED <<codes, waiting, dialog, approving, approvals, link, polls, asked,
                          takenCodes>>
    BY <1>1, <1>5 DEF TakeRequest, Fresh, UsedUp
  <2> QED  BY <1>3, <1>4, <2>1
<1>6. CASE RefuseRequest(post)
  <2>1. /\ posted' = Publish(post.to, {Result(request, "error")}) \ {post}
        /\ UNCHANGED <<codes, waiting, dialog, approving, approvals, link, polls, asked,
                       takenCodes>>
    BY <1>1, <1>6 DEF RefuseRequest
  <2> QED  BY <1>4, <2>1
<1> QED  BY <1>5, <1>6

LEMMA UserDecides ==
    ASSUME PairingInv, Approve \/ StoreApproval \/ ApproverDone \/ Reject
    PROVE  PairingInv'
<1>1. ASSUME UNCHANGED <<codes, approvals, link, polls, posted, asked, takenCodes>>,
             dialog' \in {NoRequest, dialog},
             approving'.step = "store" => approving'.request \in takenCodes
      PROVE  PairingInv'
  BY <1>1 DEF PairingInv, PairingTypes, TakenInv, ToldInv, OneRequestPerCode, LinkedWasApproved
<1>2. CASE Approve
  <2>1. dialog \in takenCodes  BY <1>2 DEF Approve, PairingInv, TakenInv
  <2> QED  BY <1>1, <1>2, <2>1 DEF Approve
<1>3. Idle.step # "store"  BY DEF Idle
<1>4. CASE StoreApproval
  <2>1. PICK request : request = approving.request  OBVIOUS
  <2>2. request \in takenCodes /\ request \in PairRequests
    BY <1>4, <2>1 DEF StoreApproval, PairingInv, TakenInv, PairingTypes
  <2>3. CASE /\ approvals' = approvals \cup {request}
             /\ posted' = Publish("host", {Result(request, "approved")})
             /\ approving' = [approving EXCEPT !.step = "sync"]
    <3>1. approving'.step # "store"
      <4>1. DOMAIN approving' = DOMAIN approving  BY <2>3
      <4> QED  BY <2>3
    <3>2. posted' = Publish("host", {Result(request, "approved")}) \ {}  BY <2>3
    <3>3. UNCHANGED <<codes, dialog, link, polls, asked, takenCodes>>  BY <1>4 DEF StoreApproval
    <3> QED  BY <2>2, <2>3, <3>1, <3>2, <3>3, HostMoves_
  <2>4. CASE approving' = Idle /\ UNCHANGED <<approvals, waiting, posted>>
    BY <1>1, <1>3, <1>4, <2>4 DEF StoreApproval
  <2> QED  BY <1>4, <2>1, <2>3, <2>4 DEF StoreApproval, ApprovalStored
<1>5. CASE ApproverDone
  BY <1>1, <1>3, <1>5 DEF ApproverDone
<1>6. CASE Reject
  <2>1. PICK request : request = dialog  OBVIOUS
  <2>2. request \in PairRequests
    BY <1>6, <2>1 DEF Reject, PairingInv, TakenInv, PairingTypes
  <2>3. posted' = Publish("host", {Result(request, "rejected")}) \ {}  BY <1>6, <2>1 DEF Reject
  <2> QED  BY <1>6, <2>2, <2>3, HostMoves_ DEF Reject
<1> QED  BY <1>2, <1>4, <1>5, <1>6

LEMMA PairingStep ==
    ASSUME PairingInv, [PairingNext]_pairingVars
    PROVE  PairingInv'
<1>1. CASE UNCHANGED pairingVars
  BY <1>1 DEF pairingVars, PairingInv, PairingTypes, TakenInv, ToldInv, OneRequestPerCode,
              LinkedWasApproved
<1> QED
  BY <1>1, CodeMoves, GuestMoves, RequestTaken, ResultTaken, UserDecides DEF PairingNext

LEMMA PairingIsSound == ASSUME PairingInv PROVE PairingSound
  BY DEF PairingInv, PairingSound

-----------------------------------------------------------------------------
(***************************************************************************)
(* Two devices that connect (DirectLink).                                  *)
(***************************************************************************)
Connections == [there : BOOLEAN, local : BOOLEAN, remote : BOOLEAN, waiting : SUBSET Nat,
                added : SUBSET Nat]

\* What a side may send: capabilities if it has them, the binary form if the peer has them.
Forms(s) == {form \in {"caps", "text", "binary"} :
                /\ form = "caps" => capable[s]
                /\ form = "binary" => capable[Other(s)]}

DirectTypes ==
    /\ sessionOn \in [Sides -> BOOLEAN] /\ late \in [Sides -> BOOLEAN]
    /\ setup \in {"start", "offer", "publish", "done"}
    /\ pc \in [Sides -> Connections] /\ made \in [Sides -> Seq(Signals)]
    /\ atRelay \in [Sides -> SUBSET Nat] /\ after \in [Sides -> Nat]
    /\ polling \in [Sides -> {"idle", "asked", "handling"}]
    /\ accepts \in [Sides -> SUBSET Nat] /\ handled \in [Sides -> SUBSET Nat]
    /\ capable \in [Sides -> BOOLEAN] /\ told \in [Sides -> BOOLEAN]
    /\ channel \in [Sides -> {"none", "made", "open", "closed"}]
    /\ DOMAIN wire = Sides /\ signalFaults \in Nat

\* What is known of the signals of the other side has been made by it, and what is handled has
\* arrived.
SignalsMade ==
    \A s \in Sides :
        /\ atRelay[s] \subseteq 1..Len(made[s]) /\ after[s] \in 0..Len(made[Other(s)])
        /\ handled[s] \subseteq 1..Len(made[Other(s)]) /\ accepts[s] \subseteq handled[s]
        /\ pc[s].waiting \subseteq handled[s] /\ pc[s].added \subseteq handled[s]

\* A session that handles signals has a connection; a poll under way has a session, or is late.
SessionInv ==
    \A s \in Sides : /\ sessionOn[s] /\ accepts[s] # {} => pc[s].there
                     /\ polling[s] = "asked" => sessionOn[s] \/ late[s]

FormInv ==
    \A s \in Sides : wire[s] \in Seq(Forms(s)) /\ (told[s] => capable[Other(s)])

DirectInv ==
    DirectTypes /\ SignalsMade /\ SessionInv /\ FormInv /\ NoCandidateLost /\ LeftoverHasCause

LEMMA OtherSide == \A s \in Sides : Other(s) \in Sides /\ Other(s) # s /\ Other(Other(s)) = s
  BY DEF Sides, Other

LEMMA DirectStarts == ASSUME DirectInit PROVE DirectInv
<1>1. NoPc \in Connections /\ NoPc.waiting = {} /\ NoPc.added = {} /\ NoPc.there = FALSE
  BY DEF NoPc, Connections
<1>2. <<>> \in Seq(Signals) /\ Len(<<>>) = 0 /\ \A s : <<>> \in Seq(Forms(s))
  BY EmptySeq
<1>3. DirectTypes  BY <1>1, <1>2 DEF DirectInit, DirectTypes
<1>4. SignalsMade /\ NoCandidateLost
  BY <1>1, <1>2, OtherSide DEF DirectInit, SignalsMade, NoCandidateLost
<1>5. SessionInv /\ FormInv /\ LeftoverHasCause
  BY <1>1, <1>2, OtherSide DEF DirectInit, SessionInv, FormInv, LeftoverHasCause
<1> QED  BY <1>3, <1>4, <1>5 DEF DirectInv

-----------------------------------------------------------------------------
\* A side makes a signal: those made before keep their places.
LEMMA SignalMade ==
    ASSUME DirectInv, NEW s \in Sides, NEW signal \in Signals, Make(s, signal)
    PROVE  /\ made' \in [Sides -> Seq(Signals)]
           /\ \A t \in Sides : /\ Len(made[t]) \in Nat /\ Len(made'[t]) \in Nat
                               /\ Len(made[t]) <= Len(made'[t])
                               /\ \A i \in 1..Len(made[t]) : made'[t][i] = made[t][i]
<1>1. PICK old : old = made[s]  OBVIOUS
<1>2. old \in Seq(Signals)  BY <1>1 DEF DirectInv, DirectTypes
<1>3. PICK new : new = Append(old, signal)  OBVIOUS
<1>4. /\ new \in Seq(Signals) /\ Len(new) = Len(old) + 1 /\ Len(old) \in Nat
      /\ \A i \in 1..Len(old) : new[i] = old[i]
  BY <1>2, <1>3, AppendProperties, LenProperties
<1>5. made' = [made EXCEPT ![s] = new]  BY <1>1, <1>3 DEF Make
<1>6. made \in [Sides -> Seq(Signals)]  BY DEF DirectInv, DirectTypes
<1>7. /\ made' \in [Sides -> Seq(Signals)] /\ made'[s] = new
      /\ \A t \in Sides : t # s => made'[t] = made[t]
  BY <1>4, <1>5, <1>6
<1>8. \A t \in Sides : Len(made[t]) \in Nat  BY <1>6, LenProperties
<1> QED  BY <1>1, <1>4, <1>7, <1>8

\* Only what was made, and whether there is a local description, has changed.
LEMMA MadeKeeps ==
    ASSUME DirectInv, NEW s \in Sides, NEW signal \in Signals, Make(s, signal) \/ made' = made,
           pc' \in [Sides -> Connections],
           \A t \in Sides : /\ pc'[t].there = pc[t].there /\ pc'[t].remote = pc[t].remote
                            /\ pc'[t].waiting = pc[t].waiting /\ pc'[t].added = pc[t].added,
           accepts' \in [Sides -> SUBSET Nat],
           \A t \in Sides : /\ accepts'[t] \subseteq accepts[t]
                            /\ \A i \in accepts[t] \ accepts'[t] : made[Other(t)][i] # "ice",
           setup' \in {"start", "offer", "publish", "done"},
           UNCHANGED <<sessionOn, atRelay, after, polling, handled, capable, chanVars, late,
                       signalFaults>>
    PROVE  DirectInv'
<1>1. /\ made' \in [Sides -> Seq(Signals)]
      /\ \A t \in Sides : /\ Len(made[t]) \in Nat /\ Len(made'[t]) \in Nat
                          /\ Len(made[t]) <= Len(made'[t])
                          /\ \A i \in 1..Len(made[t]) : made'[t][i] = made[t][i]
  <2>1. made \in [Sides -> Seq(Signals)]  BY DEF DirectInv, DirectTypes
  <2>2. \A t \in Sides : Len(made[t]) \in Nat  BY <2>1, LenProperties
  <2>3. CASE made' = made  BY <2>1, <2>2, <2>3
  <2>4. CASE Make(s, signal)  BY <2>4, SignalMade
  <2> QED  BY <2>3, <2>4
<1>2. DirectTypes'  BY <1>1 DEF DirectInv, DirectTypes, chanVars
<1>3. SignalsMade'
  <2> SUFFICES ASSUME NEW t \in Sides
               PROVE  /\ atRelay[t] \subseteq 1..Len(made'[t])
                      /\ after[t] \in 0..Len(made'[Other(t)])
                      /\ handled[t] \subseteq 1..Len(made'[Other(t)])
                      /\ accepts'[t] \subseteq handled[t]
                      /\ pc'[t].waiting \subseteq handled[t] /\ pc'[t].added \subseteq handled[t]
    BY DEF SignalsMade
  <2>1. /\ atRelay[t] \subseteq 1..Len(made[t]) /\ after[t] \in 0..Len(made[Other(t)])
        /\ handled[t] \subseteq 1..Len(made[Other(t)]) /\ accepts[t] \subseteq handled[t]
        /\ pc[t].waiting \subseteq handled[t] /\ pc[t].added \subseteq handled[t]
    BY DEF DirectInv, SignalsMade
  <2>2. /\ Len(made[t]) \in Nat /\ Len(made'[t]) \in Nat /\ Len(made[t]) <= Len(made'[t])
        /\ Len(made[Other(t)]) \in Nat /\ Len(made'[Other(t)]) \in Nat
        /\ Len(made[Other(t)]) <= Len(made'[Other(t)])
    BY <1>1, OtherSide
  <2>3. /\ 1..Len(made[t]) \subseteq 1..Len(made'[t])
        /\ 1..Len(made[Other(t)]) \subseteq 1..Len(made'[Other(t)])
        /\ 0..Len(made[Other(t)]) \subseteq 0..Len(made'[Other(t)])
    BY <2>2
  <2> QED  BY <2>1, <2>3
<1>4. SessionInv'
  <2>1. \A t \in Sides : accepts'[t] # {} => accepts[t] # {}  OBVIOUS
  <2> QED  BY <2>1 DEF DirectInv, SessionInv
<1>5. NoCandidateLost'
  <2>1. \A t \in Sides : \A i \in handled[t] :
            made'[Other(t)][i] = made[Other(t)][i]
    BY <1>1, OtherSide DEF DirectInv, SignalsMade
  <2>2. \A t \in Sides : pc[t].waiting # {} => ~pc[t].remote
    BY DEF DirectInv, NoCandidateLost
  <2>3. ASSUME NEW t \in Sides, sessionOn[t] /\ signalFaults = 0,
               NEW i \in handled[t] \ (accepts'[t] \cup pc[t].waiting \cup pc[t].added)
        PROVE  made'[Other(t)][i] # "ice"
    <3>1. made[Other(t)][i] # "ice"
      BY <2>3 DEF DirectInv, NoCandidateLost
    <3> QED  BY <2>1, <3>1
  <2> QED  BY <2>2, <2>3 DEF NoCandidateLost
<1>6. FormInv' /\ LeftoverHasCause'
  BY DEF DirectInv, FormInv, Forms, LeftoverHasCause, chanVars
<1> QED  BY <1>2, <1>3, <1>4, <1>5, <1>6 DEF DirectInv

\* One connection changes.
LEMMA ConnectionSet ==
    ASSUME DirectInv, NEW s \in Sides, NEW c \in Connections, pc' = [pc EXCEPT ![s] = c]
    PROVE  /\ pc' \in [Sides -> Connections] /\ pc'[s] = c
           /\ \A t \in Sides : t # s => pc'[t] = pc[t]
  BY DEF DirectInv, DirectTypes

LEMMA ConnectionThere ==
    ASSUME DirectInv, NEW s \in Sides, NEW b \in BOOLEAN, NEW c,
           c = [pc[s] EXCEPT !.there = b], pc' = [pc EXCEPT ![s] = c]
    PROVE  /\ pc' \in [Sides -> Connections] /\ pc'[s].there = b
           /\ \A t \in Sides : /\ t # s => pc'[t].there = pc[t].there
                               /\ pc'[t].remote = pc[t].remote
                               /\ pc'[t].waiting = pc[t].waiting /\ pc'[t].added = pc[t].added
<1>1. PICK old : old = pc[s]  OBVIOUS
<1>2. old \in Connections  BY <1>1 DEF DirectInv, DirectTypes
<1>3. /\ c \in Connections /\ c.there = b /\ c.remote = old.remote
      /\ c.waiting = old.waiting /\ c.added = old.added
  BY <1>1, <1>2 DEF Connections
<1>4. /\ pc' \in [Sides -> Connections] /\ pc'[s] = c
      /\ \A t \in Sides : t # s => pc'[t] = pc[t]
  BY <1>3, ConnectionSet
<1> QED  BY <1>1, <1>3, <1>4

LEMMA ConnectionLocal ==
    ASSUME DirectInv, NEW s \in Sides, pc' = pc \/ pc' = [pc EXCEPT ![s].local = TRUE]
    PROVE  /\ pc' \in [Sides -> Connections]
           /\ \A t \in Sides : /\ pc'[t].there = pc[t].there /\ pc'[t].remote = pc[t].remote
                               /\ pc'[t].waiting = pc[t].waiting /\ pc'[t].added = pc[t].added
<1>1. CASE pc' = pc  BY <1>1 DEF DirectInv, DirectTypes
<1>2. CASE pc' = [pc EXCEPT ![s].local = TRUE]
  <2>1. PICK old : old = pc[s]  OBVIOUS
  <2>2. PICK c : c = [old EXCEPT !.local = TRUE]  OBVIOUS
  <2>3. old \in Connections  BY <2>1 DEF DirectInv, DirectTypes
  <2>4. /\ c \in Connections /\ c.there = old.there /\ c.remote = old.remote
        /\ c.waiting = old.waiting /\ c.added = old.added
    BY <2>2, <2>3 DEF Connections
  <2>5. pc' = [pc EXCEPT ![s] = c]  BY <1>2, <2>1, <2>2
  <2>6. /\ pc' \in [Sides -> Connections] /\ pc'[s] = c
        /\ \A t \in Sides : t # s => pc'[t] = pc[t]
    BY <2>4, <2>5, ConnectionSet
  <2> QED  BY <2>1, <2>4, <2>6
<1> QED  BY <1>1, <1>2

LEMMA HostMoves ==
    ASSUME DirectInv, HostStarts \/ OfferMade
    PROVE  DirectInv'
<1>0. "host" \in Sides /\ "offer" \in Signals  BY DEF Sides, Signals
<1>1. CASE HostStarts
  <2>1. /\ sessionOn["host"] /\ setup' = "offer"
        /\ pc' = [pc EXCEPT !["host"].there = TRUE]
        /\ channel' = [channel EXCEPT !["host"] = "made"]
        /\ UNCHANGED <<sessionOn, sigVars, capable, told, wire, late, signalFaults>>
    BY <1>1 DEF HostStarts
  <2>2. /\ pc' \in [Sides -> Connections] /\ pc'["host"].there
        /\ \A t \in Sides : /\ t # "host" => pc'[t].there = pc[t].there
                            /\ pc'[t].remote = pc[t].remote
                            /\ pc'[t].waiting = pc[t].waiting /\ pc'[t].added = pc[t].added
    <3>1. PICK c : c = [pc["host"] EXCEPT !.there = TRUE]  OBVIOUS
    <3>2. pc' = [pc EXCEPT !["host"] = c]  BY <2>1, <3>1
    <3> QED  BY <1>0, <3>1, <3>2, ConnectionThere
  <2>3. channel' \in [Sides -> {"none", "made", "open", "closed"}]
    BY <2>1 DEF DirectInv, DirectTypes
  <2>4. DirectTypes'  BY <2>1, <2>2, <2>3 DEF DirectInv, DirectTypes, sigVars
  <2>5. SignalsMade' /\ NoCandidateLost'
    BY <2>1, <2>2 DEF DirectInv, SignalsMade, NoCandidateLost, sigVars
  <2>6. SessionInv' /\ LeftoverHasCause'
    <3>1. UNCHANGED <<sessionOn, accepts, polling, late>>  BY <2>1 DEF sigVars
    <3> QED  BY <2>1, <2>2, <3>1 DEF DirectInv, SessionInv, LeftoverHasCause
  <2>7. FormInv'  BY <2>1 DEF DirectInv, FormInv, Forms
  <2> QED  BY <2>4, <2>5, <2>6, <2>7 DEF DirectInv
<1>2. CASE OfferMade
  <2>1. /\ setup' \in {"publish", "done"}
        /\ Make("host", "offer") \/ made' = made
        /\ pc' = pc \/ pc' = [pc EXCEPT !["host"].local = TRUE]
        /\ UNCHANGED <<sessionOn, atRelay, after, polling, accepts, handled, capable, chanVars,
                       late, signalFaults>>
    BY <1>2 DEF OfferMade
  <2>2. /\ pc' \in [Sides -> Connections]
        /\ \A t \in Sides : /\ pc'[t].there = pc[t].there /\ pc'[t].remote = pc[t].remote
                            /\ pc'[t].waiting = pc[t].waiting /\ pc'[t].added = pc[t].added
    BY <1>0, <2>1, ConnectionLocal
  <2>3. accepts' \in [Sides -> SUBSET Nat]  BY <2>1 DEF DirectInv, DirectTypes
  <2> QED  BY <1>0, <2>1, <2>2, <2>3, MadeKeeps
<1> QED  BY <1>1, <1>2

LEMMA SignalMoves ==
    ASSUME DirectInv, NEW s \in Sides,
           IceFound(s) \/ \E i \in DOMAIN made[s] : Published(s, i)
    PROVE  DirectInv'
<1>1. CASE IceFound(s)
  <2>1. "ice" \in Signals  BY DEF Signals
  <2> QED  BY <1>1, <2>1, MadeKeeps DEF IceFound, DirectInv, DirectTypes
<1>2. ASSUME NEW i \in DOMAIN made[s], Published(s, i) PROVE DirectInv'
  <2>1. /\ atRelay' = [atRelay EXCEPT ![s] = @ \cup {i}] /\ setup' \in {"done", setup}
        /\ UNCHANGED <<sessionOn, pc, made, after, polling, accepts, handled, capable, chanVars,
                       late, signalFaults>>
    BY <1>2 DEF Published
  <2>2. i \in 1..Len(made[s]) /\ Len(made[s]) \in Nat
    <3>1. made[s] \in Seq(Signals)  BY DEF DirectInv, DirectTypes
    <3> QED  BY <3>1, LenProperties
  <2>3. /\ atRelay' \in [Sides -> SUBSET Nat] /\ atRelay'[s] = atRelay[s] \cup {i}
        /\ \A t \in Sides : t # s => atRelay'[t] = atRelay[t]
    BY <2>1, <2>2 DEF DirectInv, DirectTypes
  <2>4. DirectTypes'  BY <2>1, <2>3 DEF DirectInv, DirectTypes, chanVars
  <2>5. SignalsMade'  BY <2>1, <2>2, <2>3 DEF DirectInv, SignalsMade
  <2>6. SessionInv' /\ FormInv' /\ NoCandidateLost' /\ LeftoverHasCause'
    BY <2>1 DEF DirectInv, SessionInv, FormInv, Forms, NoCandidateLost, LeftoverHasCause, chanVars
  <2> QED  BY <2>4, <2>5, <2>6 DEF DirectInv
<1> QED  BY <1>1, <1>2

LEMMA PollMoves ==
    ASSUME DirectInv, NEW s \in Sides,
           PollAsked(s) \/ PollFails(s) \/ AllAccepted(s)
    PROVE  DirectInv'
<1>1. /\ \/ polling' = [polling EXCEPT ![s] = "asked"] /\ sessionOn[s]
         \/ polling' = [polling EXCEPT ![s] = "idle"]
      /\ signalFaults' \in {signalFaults, signalFaults + 1}
      /\ UNCHANGED <<sessionOn, setup, pc, made, atRelay, after, accepts, handled, capable,
                     chanVars, late>>
  BY DEF PollAsked, PollFails, AllAccepted, SignalFault
<1>2. /\ polling' \in [Sides -> {"idle", "asked", "handling"}]
      /\ polling'[s] = "asked" => sessionOn[s]
      /\ \A t \in Sides : t # s => polling'[t] = polling[t]
  BY <1>1 DEF DirectInv, DirectTypes
<1>3. signalFaults' \in Nat /\ (signalFaults' = 0 => signalFaults = 0)
  BY <1>1 DEF DirectInv, DirectTypes
<1>4. DirectTypes'  BY <1>1, <1>2, <1>3 DEF DirectInv, DirectTypes, chanVars
<1>5. SignalsMade' /\ FormInv' /\ LeftoverHasCause'
  BY <1>1 DEF DirectInv, SignalsMade, FormInv, Forms, LeftoverHasCause, chanVars
<1>6. SessionInv'  BY <1>1, <1>2 DEF DirectInv, SessionInv
<1>7. NoCandidateLost'  BY <1>1, <1>3 DEF DirectInv, NoCandidateLost
<1> QED  BY <1>4, <1>5, <1>6, <1>7 DEF DirectInv

LEMMA PollBrings ==
    ASSUME DirectInv, NEW s \in Sides, PollAnswered(s)
    PROVE  DirectInv'
<1>1. PICK came : came = {i \in atRelay[Other(s)] : i > after[s]}  OBVIOUS
<1>2. PICK last \in {after[s]} \cup came : after' = [after EXCEPT ![s] = last]
  BY <1>1 DEF PollAnswered
<1>3. /\ polling[s] = "asked"
      /\ accepts' = [accepts EXCEPT ![s] = @ \cup came]
      /\ handled' = [handled EXCEPT ![s] = @ \cup came]
      /\ \E step \in {"idle", "handling"} : polling' = [polling EXCEPT ![s] = step]
      /\ pc' = [pc EXCEPT ![s].there = @ \/ came # {}]
      /\ UNCHANGED <<sessionOn, setup, made, atRelay, capable, chanVars, late, signalFaults>>
  BY <1>1 DEF PollAnswered
<1>4. /\ came \subseteq 1..Len(made[Other(s)]) /\ came \subseteq Nat
      /\ last \in 0..Len(made[Other(s)]) /\ last \in Nat
  <2>1. /\ atRelay[Other(s)] \subseteq 1..Len(made[Other(s)])
        /\ after[s] \in 0..Len(made[Other(s)])
    BY OtherSide DEF DirectInv, SignalsMade
  <2>2. Len(made[Other(s)]) \in Nat
    <3>1. made[Other(s)] \in Seq(Signals)  BY OtherSide DEF DirectInv, DirectTypes
    <3> QED  BY <3>1, LenProperties
  <2> QED  BY <1>1, <1>2, <2>1, <2>2
<1>5. PICK there \in BOOLEAN : there = (pc[s].there \/ came # {})  OBVIOUS
<1>6. /\ pc' \in [Sides -> Connections] /\ pc'[s].there = there
      /\ \A t \in Sides : /\ t # s => pc'[t].there = pc[t].there
                          /\ pc'[t].remote = pc[t].remote
                          /\ pc'[t].waiting = pc[t].waiting /\ pc'[t].added = pc[t].added
  <2>1. PICK c : c = [pc[s] EXCEPT !.there = there]  OBVIOUS
  <2>2. pc' = [pc EXCEPT ![s] = c]  BY <1>3, <1>5, <2>1
  <2> QED  BY <1>5, <2>1, <2>2, ConnectionThere
<1>7. /\ accepts' \in [Sides -> SUBSET Nat] /\ handled' \in [Sides -> SUBSET Nat]
      /\ accepts'[s] = accepts[s] \cup came /\ handled'[s] = handled[s] \cup came
      /\ \A t \in Sides : t # s => accepts'[t] = accepts[t] /\ handled'[t] = handled[t]
  <2>1. accepts \in [Sides -> SUBSET Nat] /\ handled \in [Sides -> SUBSET Nat]
    BY DEF DirectInv, DirectTypes
  <2> QED  BY <1>3, <1>4, <2>1
<1>8. /\ after' \in [Sides -> Nat] /\ after'[s] = last
      /\ \A t \in Sides : t # s => after'[t] = after[t]
  BY <1>2, <1>4 DEF DirectInv, DirectTypes
<1>9. /\ polling' \in [Sides -> {"idle", "asked", "handling"}] /\ polling'[s] # "asked"
      /\ \A t \in Sides : t # s => polling'[t] = polling[t]
  BY <1>3 DEF DirectInv, DirectTypes
<1>10. DirectTypes'
  BY <1>3, <1>6, <1>7, <1>8, <1>9 DEF DirectInv, DirectTypes, chanVars
<1>11. SignalsMade'
  <2> SUFFICES ASSUME NEW t \in Sides
               PROVE  /\ atRelay[t] \subseteq 1..Len(made[t])
                      /\ after'[t] \in 0..Len(made[Other(t)])
                      /\ handled'[t] \subseteq 1..Len(made[Other(t)])
                      /\ accepts'[t] \subseteq handled'[t]
                      /\ pc'[t].waiting \subseteq handled'[t] /\ pc'[t].added \subseteq handled'[t]
    BY <1>3 DEF SignalsMade
  <2>1. /\ atRelay[t] \subseteq 1..Len(made[t]) /\ after[t] \in 0..Len(made[Other(t)])
        /\ handled[t] \subseteq 1..Len(made[Other(t)]) /\ accepts[t] \subseteq handled[t]
        /\ pc[t].waiting \subseteq handled[t] /\ pc[t].added \subseteq handled[t]
    BY DEF DirectInv, SignalsMade
  <2> QED  BY <1>4, <1>6, <1>7, <1>8, <2>1
<1>12. SessionInv'
  <2> SUFFICES ASSUME NEW t \in Sides
               PROVE  /\ sessionOn[t] /\ accepts'[t] # {} => pc'[t].there
                      /\ polling'[t] = "asked" => sessionOn[t] \/ late[t]
    BY <1>3 DEF SessionInv
  <2>1. /\ sessionOn[t] /\ accepts[t] # {} => pc[t].there
        /\ polling[t] = "asked" => sessionOn[t] \/ late[t]
    BY DEF DirectInv, SessionInv
  <2> QED  BY <1>5, <1>6, <1>7, <1>9, <2>1
<1>13. NoCandidateLost'
  <2>1. \A t \in Sides : pc'[t].waiting # {} => ~pc'[t].remote
    BY <1>6 DEF DirectInv, NoCandidateLost
  <2>2. ASSUME NEW t \in Sides, sessionOn[t] /\ signalFaults = 0,
               NEW i \in handled'[t] \ (accepts'[t] \cup pc'[t].waiting \cup pc'[t].added)
        PROVE  made[Other(t)][i] # "ice"
    <3>1. i \in handled[t] \ (accepts[t] \cup pc[t].waiting \cup pc[t].added)
      BY <1>6, <1>7, <2>2
    <3> QED  BY <2>2, <3>1 DEF DirectInv, NoCandidateLost
  <2> QED  BY <1>3, <2>1, <2>2 DEF NoCandidateLost
<1>14. LeftoverHasCause'
  <2>1. sessionOn[s] \/ late[s]  BY <1>3 DEF DirectInv, SessionInv
  <2> QED  BY <1>3, <1>6, <2>1 DEF DirectInv, LeftoverHasCause
<1>15. FormInv'  BY <1>3 DEF DirectInv, FormInv, Forms, chanVars
<1> QED  BY <1>10, <1>11, <1>12, <1>13, <1>14, <1>15 DEF DirectInv

\* What a connection knows of the peer grows, and one signal may be done with.
LEMMA SignalHandled ==
    ASSUME DirectInv, NEW s \in Sides, NEW i \in accepts[s], NEW c \in Connections,
           pc' = [pc EXCEPT ![s] = c], c.there = pc[s].there,
           c.waiting # {} => ~c.remote,
           c.waiting \subseteq pc[s].waiting \cup {i},
           c.added \subseteq pc[s].waiting \cup pc[s].added \cup {i},
           pc[s].waiting \cup pc[s].added \subseteq c.waiting \cup c.added,
           accepts' = accepts \/ accepts' = [accepts EXCEPT ![s] = @ \ {i}],
           accepts' # accepts =>
               \/ made[Other(s)][i] # "ice" \/ i \in c.waiting \cup c.added
               \/ signalFaults' # 0 \/ ~pc[s].there,
           signalFaults' \in {signalFaults, signalFaults + 1},
           \E step \in {"idle", "handling", polling[s]} : polling' = [polling EXCEPT ![s] = step],
           UNCHANGED <<made, sessionOn, setup, atRelay, after, handled, capable, chanVars, late>>
    PROVE  DirectInv'
<1>1. /\ pc' \in [Sides -> Connections] /\ pc'[s] = c
      /\ \A t \in Sides : t # s => pc'[t] = pc[t]
  BY ConnectionSet
<1>2. /\ accepts' \in [Sides -> SUBSET Nat] /\ accepts[s] \ {i} \subseteq accepts'[s]
      /\ \A t \in Sides : accepts'[t] \subseteq accepts[t] /\ (t # s => accepts'[t] = accepts[t])
  <2>1. accepts \in [Sides -> SUBSET Nat]  BY DEF DirectInv, DirectTypes
  <2>2. CASE accepts' = accepts  BY <2>1, <2>2
  <2>3. CASE accepts' = [accepts EXCEPT ![s] = @ \ {i}]
    BY <2>1, <2>3
  <2> QED  BY <2>2, <2>3
<1>3. /\ polling' \in [Sides -> {"idle", "asked", "handling"}]
      /\ \A t \in Sides : polling'[t] = "asked" => polling[t] = "asked"
  <2>1. PICK step \in {"idle", "handling", polling[s]} :
            polling' = [polling EXCEPT ![s] = step]
    OBVIOUS
  <2>2. polling \in [Sides -> {"idle", "asked", "handling"}]  BY DEF DirectInv, DirectTypes
  <2> QED  BY <2>1, <2>2
<1>4. signalFaults' \in Nat /\ (signalFaults' = 0 => signalFaults = 0)
  BY DEF DirectInv, DirectTypes
<1>5. DirectTypes'  BY <1>1, <1>2, <1>3, <1>4 DEF DirectInv, DirectTypes, chanVars
<1>6. SignalsMade'
  <2> SUFFICES ASSUME NEW t \in Sides
               PROVE  /\ atRelay[t] \subseteq 1..Len(made[t])
                      /\ after[t] \in 0..Len(made[Other(t)])
                      /\ handled[t] \subseteq 1..Len(made[Other(t)])
                      /\ accepts'[t] \subseteq handled[t]
                      /\ pc'[t].waiting \subseteq handled[t] /\ pc'[t].added \subseteq handled[t]
    BY DEF SignalsMade
  <2>1. /\ atRelay[t] \subseteq 1..Len(made[t]) /\ after[t] \in 0..Len(made[Other(t)])
        /\ handled[t] \subseteq 1..Len(made[Other(t)]) /\ accepts[t] \subseteq handled[t]
        /\ pc[t].waiting \subseteq handled[t] /\ pc[t].added \subseteq handled[t]
    BY DEF DirectInv, SignalsMade
  <2> QED  BY <1>1, <1>2, <2>1
<1>7. SessionInv'
  <2> SUFFICES ASSUME NEW t \in Sides
               PROVE  /\ sessionOn[t] /\ accepts'[t] # {} => pc'[t].there
                      /\ polling'[t] = "asked" => sessionOn[t] \/ late[t]
    BY DEF SessionInv
  <2>1. /\ sessionOn[t] /\ accepts[t] # {} => pc[t].there
        /\ polling[t] = "asked" => sessionOn[t] \/ late[t]
    BY DEF DirectInv, SessionInv
  <2> QED  BY <1>1, <1>2, <1>3, <2>1
<1>8. NoCandidateLost'
  <2>1. \A t \in Sides : pc'[t].waiting # {} => ~pc'[t].remote
    BY <1>1 DEF DirectInv, NoCandidateLost
  <2>2. ASSUME NEW t \in Sides, sessionOn[t], signalFaults' = 0,
               NEW j \in handled[t] \ (accepts'[t] \cup pc'[t].waiting \cup pc'[t].added)
        PROVE  made[Other(t)][j] # "ice"
    <3>1. CASE j \in accepts[t]
      <4>1. t = s /\ j = i /\ accepts' # accepts  BY <1>2, <2>2, <3>1
      <4>2. pc[s].there  BY <2>2, <4>1 DEF DirectInv, SessionInv
      <4> QED  BY <1>1, <2>2, <4>1, <4>2
    <3>2. CASE j \notin accepts[t]
      <4>1. j \notin pc[t].waiting \cup pc[t].added  BY <1>1, <2>2
      <4> QED  BY <1>4, <2>2, <3>2, <4>1 DEF DirectInv, NoCandidateLost
    <3> QED  BY <3>1, <3>2
  <2> QED  BY <2>1, <2>2 DEF NoCandidateLost
<1>9. LeftoverHasCause'  BY <1>1 DEF DirectInv, LeftoverHasCause
<1>10. FormInv'  BY DEF DirectInv, FormInv, Forms, chanVars
<1> QED  BY <1>5, <1>6, <1>7, <1>8, <1>9, <1>10 DEF DirectInv

LEMMA PeerKnown ==
    ASSUME NEW c \in Connections, NEW i \in Nat
    PROVE  /\ Flushed(c) \in Connections /\ Flushed(c).there = c.there
           /\ Flushed(c).waiting = {} /\ Flushed(c).added = c.added \cup c.waiting
           /\ WithCandidate(c, i) \in Connections /\ WithCandidate(c, i).there = c.there
           /\ WithCandidate(c, i).remote = c.remote
           /\ IF c.remote THEN /\ WithCandidate(c, i).waiting = c.waiting
                               /\ WithCandidate(c, i).added = c.added \cup {i}
                          ELSE /\ WithCandidate(c, i).waiting = c.waiting \cup {i}
                               /\ WithCandidate(c, i).added = c.added
  BY DEF Connections, Flushed, WithCandidate

LEMMA Handles ==
    ASSUME DirectInv, NEW s \in Sides, NEW i \in accepts[s],
           \/ OfferSet(s, i) \/ AnswerMade(s, i) \/ AnswerSet(s, i) \/ IceTaken(s, i)
           \/ AcceptFails(s, i)
    PROVE  DirectInv'
<1>0. /\ pc[s] \in Connections /\ i \in Nat /\ polling[s] \in {"idle", "asked", "handling"}
      /\ polling = [polling EXCEPT ![s] = polling[s]] /\ pc = [pc EXCEPT ![s] = pc[s]]
      /\ accepts \in [Sides -> SUBSET Nat]
  BY DEF DirectInv, DirectTypes
<1>1. pc[s].waiting # {} => ~pc[s].remote  BY DEF DirectInv, NoCandidateLost
<1>2. CASE OfferSet(s, i) \/ AnswerSet(s, i)
  <2>1. PICK c : c = Flushed(pc[s])  OBVIOUS
  <2>2. /\ c \in Connections /\ c.there = pc[s].there /\ c.waiting = {}
        /\ c.added = pc[s].added \cup pc[s].waiting
    BY <1>0, <2>1, PeerKnown
  <2>3. /\ pc' = [pc EXCEPT ![s] = c]
        /\ accepts' = accepts \/ accepts' = [accepts EXCEPT ![s] = @ \ {i}]
        /\ accepts' # accepts => made[Other(s)][i] # "ice"
        /\ polling' = [polling EXCEPT ![s] = polling[s]] /\ signalFaults' = signalFaults
        /\ UNCHANGED <<made, sessionOn, setup, atRelay, after, handled, capable, chanVars, late>>
    <3>1. CASE OfferSet(s, i)
      BY <1>0, <2>1, <3>1 DEF OfferSet, Handling
    <3>2. CASE AnswerSet(s, i)
      <4>1. made[Other(s)][i] = "answer" /\ accepts' = [accepts EXCEPT ![s] = @ \ {i}]
        BY <3>2 DEF AnswerSet, Accepts, Done
      <4> QED  BY <1>0, <2>1, <3>2, <4>1 DEF AnswerSet, Handling
    <3> QED  BY <1>2, <3>1, <3>2
  <2> QED  BY <2>2, <2>3, SignalHandled
<1>3. CASE IceTaken(s, i)
  <2>1. PICK c : c = WithCandidate(pc[s], i)  OBVIOUS
  <2>2. /\ c \in Connections /\ c.there = pc[s].there /\ c.remote = pc[s].remote
        /\ \/ c.remote /\ c.waiting = pc[s].waiting /\ c.added = pc[s].added \cup {i}
           \/ ~c.remote /\ c.waiting = pc[s].waiting \cup {i} /\ c.added = pc[s].added
    <3>1. pc[s].remote \in BOOLEAN  BY <1>0 DEF Connections
    <3> QED  BY <1>0, <2>1, <3>1, PeerKnown
  <2>3. /\ pc' = [pc EXCEPT ![s] = c] /\ accepts' = [accepts EXCEPT ![s] = @ \ {i}]
        /\ polling' = [polling EXCEPT ![s] = polling[s]] /\ signalFaults' = signalFaults
        /\ UNCHANGED <<made, sessionOn, setup, atRelay, after, handled, capable, chanVars, late>>
    <3>1. accepts' = [accepts EXCEPT ![s] = @ \ {i}]  BY <1>3 DEF IceTaken, Done
    <3>2. UNCHANGED <<made, signalFaults, Handling>>  BY <1>3 DEF IceTaken
    <3> QED  BY <1>0, <1>3, <2>1, <3>1, <3>2 DEF IceTaken, Handling
  <2>4. /\ c.waiting # {} => ~c.remote
        /\ c.waiting \subseteq pc[s].waiting \cup {i}
        /\ c.added \subseteq pc[s].waiting \cup pc[s].added \cup {i}
        /\ pc[s].waiting \cup pc[s].added \subseteq c.waiting \cup c.added
        /\ i \in c.waiting \cup c.added
    BY <1>1, <2>2
  <2> QED  BY <2>2, <2>3, <2>4, SignalHandled
<1>4. CASE AcceptFails(s, i)
  <2>1. /\ accepts' = [accepts EXCEPT ![s] = @ \ {i}]
        /\ \E step \in {"idle", polling[s]} : polling' = [polling EXCEPT ![s] = step]
        /\ pc' = [pc EXCEPT ![s] = pc[s]]
        /\ UNCHANGED <<made, sessionOn, setup, atRelay, after, handled, capable, chanVars, late>>
    BY <1>0, <1>4 DEF AcceptFails, Done
  <2>2. /\ signalFaults' \in {signalFaults, signalFaults + 1}
        /\ \/ made[Other(s)][i] # "ice" \/ signalFaults' # 0 \/ ~pc[s].there
    <3>1. signalFaults \in Nat  BY DEF DirectInv, DirectTypes
    <3> QED  BY <1>4, <3>1 DEF AcceptFails, Accepts, SignalFault
  <2> QED  BY <1>0, <1>1, <2>1, <2>2, SignalHandled
<1>5. CASE AnswerMade(s, i)
  <2>1. /\ pc' = pc \/ pc' = [pc EXCEPT ![s].local = TRUE]
        /\ Make(s, "answer") \/ made' = made
        /\ accepts' = [accepts EXCEPT ![s] = @ \ {i}] /\ made[Other(s)][i] # "ice"
        /\ UNCHANGED <<signalFaults, Handling>>
    BY <1>5 DEF AnswerMade, Accepts, Done
  <2>2. /\ pc' \in [Sides -> Connections]
        /\ \A t \in Sides : /\ pc'[t].there = pc[t].there /\ pc'[t].remote = pc[t].remote
                            /\ pc'[t].waiting = pc[t].waiting /\ pc'[t].added = pc[t].added
    BY <2>1, ConnectionLocal
  <2>3. /\ accepts' \in [Sides -> SUBSET Nat]
        /\ \A t \in Sides : /\ accepts'[t] \subseteq accepts[t]
                            /\ \A j \in accepts[t] \ accepts'[t] : made[Other(t)][j] # "ice"
    BY <1>0, <2>1
  <2>4. setup \in {"start", "offer", "publish", "done"} /\ "answer" \in Signals
    BY DEF DirectInv, DirectTypes, Signals
  <2> QED  BY <2>1, <2>2, <2>3, <2>4, MadeKeeps DEF Handling
<1> QED  BY <1>2, <1>3, <1>4, <1>5

-----------------------------------------------------------------------------
\* What goes over the channels.
LEMMA ChannelMoves ==
    ASSUME DirectInv, NEW s \in Sides,
           ChannelOpens(s) \/ DataReceived(s) \/ PacketSent(s) \/ ChannelCloses(s)
    PROVE  DirectInv'
<1>0. UNCHANGED <<sessionOn, setup, pc, sigVars, capable, late, signalFaults>>
  BY DEF ChannelOpens, DataReceived, PacketSent, ChannelCloses
<1>1. channel' \in [Sides -> {"none", "made", "open", "closed"}]
  BY DEF ChannelOpens, DataReceived, PacketSent, ChannelCloses, DirectInv, DirectTypes
<1>2. /\ \A t \in Sides : wire[t] \in Seq(Forms(t)) /\ (told[t] => capable[Other(t)])
      /\ told \in [Sides -> BOOLEAN] /\ capable \in [Sides -> BOOLEAN] /\ DOMAIN wire = Sides
  BY DEF DirectInv, DirectTypes, FormInv
<1>3. /\ told' \in [Sides -> BOOLEAN] /\ DOMAIN wire' = Sides
      /\ \A t \in Sides : wire'[t] \in Seq(Forms(t)) /\ (told'[t] => capable[Other(t)])
  <2>1. CASE ChannelOpens(s)
    <3>1. /\ told' = [told EXCEPT ![s] = FALSE] /\ wire' = [wire EXCEPT ![s] = Hello(s)]
      BY <2>1 DEF ChannelOpens
    <3>2. Hello(s) \in Seq(Forms(s))
      <4>1. CASE capable[s]
        <5>1. "caps" \in Forms(s)  BY <4>1 DEF Forms
        <5>2. \A S, x : x \in S => <<x>> \in Seq(S)  OBVIOUS
        <5> QED  BY <4>1, <5>1, <5>2 DEF Hello
      <4>2. CASE ~capable[s]  BY <4>2, EmptySeq DEF Hello
      <4> QED  BY <4>1, <4>2
    <3> QED  BY <1>2, <3>1, <3>2
  <2>2. CASE DataReceived(s)
    <3>1. PICK o \in Sides : o = Other(s)  BY OtherSide
    <3>10. PICK packets : packets = wire[o]  OBVIOUS
    <3>2. /\ packets # <<>> /\ wire' = [wire EXCEPT ![o] = Tail(packets)]
          /\ told' = [told EXCEPT ![s] = @ \/ (Head(packets) = "caps" /\ capable[s])]
      BY <2>2, <3>1, <3>10 DEF DataReceived
    <3>3. packets \in Seq(Forms(o))  BY <1>2, <3>10
    <3>4. Head(packets) \in Forms(o) /\ Tail(packets) \in Seq(Forms(o))
      BY <3>2, <3>3, HeadTailProperties
    <3>5. Head(packets) = "caps" => capable[o]  BY <3>4 DEF Forms
    <3>6. /\ told' \in [Sides -> BOOLEAN] /\ DOMAIN wire' = Sides
          /\ \A t \in Sides : wire'[t] = IF t = o THEN Tail(packets) ELSE wire[t]
          /\ \A t \in Sides : told'[t] => told[t] \/ (t = s /\ Head(packets) = "caps")
      BY <1>2, <3>1, <3>2
    <3> QED  BY <1>2, <3>1, <3>4, <3>5, <3>6
  <2>3. CASE PacketSent(s)
    <3>1. PICK form, packets : form = FormOf(s) /\ packets = wire[s]  OBVIOUS
    <3>2. wire' = [wire EXCEPT ![s] = Append(packets, form)] /\ told' = told
      BY <2>3, <3>1 DEF PacketSent
    <3>3. form \in Forms(s)  BY <1>2, <3>1 DEF Forms, FormOf
    <3>4. Append(packets, form) \in Seq(Forms(s))  BY <1>2, <3>1, <3>3, AppendProperties
    <3> QED  BY <1>2, <3>2, <3>4
  <2>4. CASE ChannelCloses(s)
    <3>1. wire' = [wire EXCEPT ![s] = <<>>] /\ told' = told  BY <2>4 DEF ChannelCloses
    <3> QED  BY <1>2, <3>1, EmptySeq
  <2> QED  BY <2>1, <2>2, <2>3, <2>4
<1>4. DirectTypes'  BY <1>0, <1>1, <1>3 DEF DirectInv, DirectTypes, sigVars
<1>5. SignalsMade' /\ NoCandidateLost'
  BY <1>0 DEF DirectInv, SignalsMade, NoCandidateLost, sigVars
<1>6. SessionInv' /\ LeftoverHasCause'
  BY <1>0 DEF DirectInv, SessionInv, LeftoverHasCause, sigVars
<1>7. FormInv'  BY <1>0, <1>3 DEF FormInv, Forms
<1> QED  BY <1>4, <1>5, <1>6, <1>7 DEF DirectInv

LEMMA SessionStopped ==
    ASSUME DirectInv, NEW s \in Sides, SessionStops(s)
    PROVE  DirectInv'
<1>0. NoPc \in Connections /\ NoPc.waiting = {} /\ NoPc.added = {} /\ NoPc.there = FALSE
  BY DEF NoPc, Connections
<1>1. /\ sessionOn[s] /\ UNCHANGED <<setup, sigVars, capable, signalFaults>>
      /\ sessionOn' = [sessionOn EXCEPT ![s] = FALSE]
      /\ late' = [late EXCEPT ![s] = polling[s] = "asked"]
      /\ pc' = [pc EXCEPT ![s] = NoPc] /\ channel' = [channel EXCEPT ![s] = "closed"]
      /\ told' = [told EXCEPT ![s] = FALSE] /\ wire' = [wire EXCEPT ![s] = <<>>]
  BY DEF SessionStops
<1>2. /\ pc' \in [Sides -> Connections] /\ pc'[s] = NoPc
      /\ \A t \in Sides : t # s => pc'[t] = pc[t]
  BY <1>0, <1>1, ConnectionSet
<1>3. /\ sessionOn' \in [Sides -> BOOLEAN] /\ late' \in [Sides -> BOOLEAN]
      /\ ~sessionOn'[s] /\ late'[s] = (polling[s] = "asked")
      /\ \A t \in Sides : t # s => sessionOn'[t] = sessionOn[t] /\ late'[t] = late[t]
  BY <1>1 DEF DirectInv, DirectTypes
<1>4. /\ told' \in [Sides -> BOOLEAN] /\ channel' \in [Sides -> {"none", "made", "open", "closed"}]
      /\ DOMAIN wire' = Sides /\ ~told'[s] /\ wire'[s] = <<>>
      /\ \A t \in Sides : t # s => told'[t] = told[t] /\ wire'[t] = wire[t]
  BY <1>1 DEF DirectInv, DirectTypes
<1>5. DirectTypes'  BY <1>1, <1>2, <1>3, <1>4 DEF DirectInv, DirectTypes, sigVars
<1>6. SignalsMade'
  <2> SUFFICES ASSUME NEW t \in Sides
               PROVE  pc'[t].waiting \subseteq handled[t] /\ pc'[t].added \subseteq handled[t]
    BY <1>1 DEF DirectInv, SignalsMade, sigVars
  <2> QED  BY <1>0, <1>2 DEF DirectInv, SignalsMade
<1>7. SessionInv'
  BY <1>1, <1>2, <1>3 DEF DirectInv, SessionInv, sigVars
<1>8. NoCandidateLost'
  BY <1>0, <1>1, <1>2, <1>3 DEF DirectInv, NoCandidateLost, sigVars
<1>9. LeftoverHasCause'  BY <1>0, <1>2, <1>3 DEF DirectInv, LeftoverHasCause
<1>10. FormInv'  BY <1>1, <1>4, EmptySeq DEF DirectInv, FormInv, Forms
<1> QED  BY <1>5, <1>6, <1>7, <1>8, <1>9, <1>10 DEF DirectInv

LEMMA DirectStep ==
    ASSUME DirectInv, [DirectNext]_directVars
    PROVE  DirectInv'
<1>1. CASE UNCHANGED directVars
  BY <1>1 DEF directVars, sigVars, chanVars, DirectInv, DirectTypes, SignalsMade, SessionInv,
              FormInv, Forms, NoCandidateLost, LeftoverHasCause
<1> QED
  BY <1>1, HostMoves, SignalMoves, PollMoves, PollBrings, Handles, ChannelMoves, SessionStopped
     DEF DirectNext

LEMMA DirectIsSound == ASSUME DirectInv PROVE DirectSound
<1>1. \A s \in Sides : DOMAIN made[s] = 1..Len(made[s])
  BY LenProperties DEF DirectInv, DirectTypes
<1>2. DirectTypeOK
  <2> SUFFICES ASSUME NEW s \in Sides
               PROVE  /\ made[s] \in Seq(Signals) /\ after[s] \in 0..Len(made[Other(s)])
                      /\ \A set \in {accepts[s], handled[s], pc[s].waiting, pc[s].added} :
                            set \subseteq DOMAIN made[Other(s)]
                      /\ polling[s] \in {"idle", "asked", "handling"} /\ told[s] \in BOOLEAN
                      /\ channel[s] \in {"none", "made", "open", "closed"}
                      /\ wire[s] \in Seq({"caps", "text", "binary"})
    BY DEF DirectInv, DirectTypes, DirectTypeOK
  <2>1. \A set \in {accepts[s], handled[s], pc[s].waiting, pc[s].added} :
            set \subseteq DOMAIN made[Other(s)]
    BY <1>1, OtherSide DEF DirectInv, SignalsMade
  <2>2. wire[s] \in Seq({"caps", "text", "binary"})
    <3>1. wire[s] \in Seq(Forms(s)) /\ Forms(s) \subseteq {"caps", "text", "binary"}
      BY DEF DirectInv, FormInv, Forms
    <3>2. \A A, B : A \subseteq B => Seq(A) \subseteq Seq(B)  OBVIOUS
    <3> QED  BY <3>1, <3>2
  <2> QED  BY <2>1, <2>2 DEF DirectInv, DirectTypes, SignalsMade
<1>3. BinaryUnderstood
  <2> SUFFICES ASSUME NEW s \in Sides, NEW n \in DOMAIN wire[s], wire[s][n] = "binary"
               PROVE  capable[Other(s)]
    BY DEF BinaryUnderstood
  <2>1. wire[s] \in Seq(Forms(s))  BY DEF DirectInv, FormInv
  <2>2. n \in 1..Len(wire[s])  BY <2>1, LenProperties
  <2>3. wire[s][n] \in Forms(s)  BY <2>1, <2>2, ElementOfSeq
  <2> QED  BY <2>3 DEF Forms
<1> QED  BY <1>2, <1>3 DEF DirectInv, DirectSound

-----------------------------------------------------------------------------
(***************************************************************************)
(* The transport of a conversation (ConversationLink).                     *)
(***************************************************************************)
LinkTypes ==
    /\ take \in [Takes -> {"none", "closing", "asking", "only", "first", "second", "done"}]
    /\ pending \in Takes \cup {0} /\ inUse \in Links /\ open \subseteq Links \ {NoLink}
    /\ active \in BOOLEAN /\ retry \in BOOLEAN /\ leaving \in BOOLEAN /\ overtaken \in BOOLEAN
    /\ flush \in [via : Links, pc : {"none", "list", "send"}, left : SUBSET Payloads,
                  sent : SUBSET Payloads, failing : BOOLEAN]
    /\ sends \in [Payloads -> {"none", "send", "queue", "requeue", "done", "refused"}]
    /\ via \in [Payloads -> Links]
    /\ box \in [Payloads -> {"none", "due", "later", "expired"}] /\ handed \subseteq Payloads

\* The attempt that later calls join is under way, and unless a disconnect met one it is the
\* only one; while it is, no transport that had connected is open.
AttemptInv ==
    /\ pending # 0 => pending \in Attempting
    /\ \A l \in ever : l \in Links \ {NoLink} /\ take[l[1]] = "done"
    /\ ~overtaken => /\ Attempting \subseteq {pending}
                     /\ Attempting # {} => open \cap ever = {}

\* A flush lists what is due and has handed over at most one of that; what waits was put aside
\* by a send that is done, and nothing is handed over before.
FlushInv ==
    /\ flush.sent \subseteq flush.left \cap handed
    /\ \A m, n \in flush.sent : m = n
    /\ flush.pc # "send" => flush.left = {}
    /\ \A m \in flush.left : box[m] = "due"
    /\ \A m \in Payloads : /\ sends[m] # "done" => box[m] = "none"
                           /\ sends[m] \notin {"done", "refused"} => m \notin handed

LinkInv ==
    LinkTypes /\ AttemptInv /\ FlushInv
    /\ NothingDropped /\ TwiceHasCause /\ OneLinkOpen /\ FailedIsRetried

LEMMA TakesArePositive == 0 \notin Takes /\ Takes \subseteq Nat
  BY LinkAssumption DEF Takes

LEMMA LinksOfTakes ==
    ASSUME NEW a \in Takes, NEW n \in {1, 2}
    PROVE  <<a, n>> \in Links \ {NoLink} /\ <<a, n>>[1] = a
  BY TakesArePositive DEF Links, NoLink

LEMMA LinkStarts == ASSUME LinkInit PROVE LinkInv
<1>1. NoLink \in Links  BY DEF Links
<1>2. NoFlush \in [via : Links, pc : {"none", "list", "send"}, left : SUBSET Payloads,
                   sent : SUBSET Payloads, failing : BOOLEAN]
      /\ NoFlush.left = {} /\ NoFlush.sent = {}
  BY <1>1 DEF NoFlush
<1>3. LinkTypes  BY <1>1, <1>2 DEF LinkInit, LinkTypes
<1>4. AttemptInv /\ OneLinkOpen /\ FailedIsRetried
  BY DEF LinkInit, AttemptInv, Attempting, OneLinkOpen, FailedIsRetried
<1>5. FlushInv /\ NothingDropped /\ TwiceHasCause
  BY <1>2 DEF LinkInit, FlushInv, NothingDropped, TwiceHasCause
<1> QED  BY <1>3, <1>4, <1>5 DEF LinkInv

\* What the attempts and the transports do, and what the payloads do.
TakeInv ==
    /\ take \in [Takes -> {"none", "closing", "asking", "only", "first", "second", "done"}]
    /\ pending \in Takes \cup {0} /\ inUse \in Links /\ open \subseteq Links \ {NoLink}
    /\ active \in BOOLEAN /\ retry \in BOOLEAN /\ leaving \in BOOLEAN /\ overtaken \in BOOLEAN
    /\ AttemptInv /\ OneLinkOpen /\ FailedIsRetried

BoxInv ==
    /\ flush \in [via : Links, pc : {"none", "list", "send"}, left : SUBSET Payloads,
                  sent : SUBSET Payloads, failing : BOOLEAN]
    /\ sends \in [Payloads -> {"none", "send", "queue", "requeue", "done", "refused"}]
    /\ via \in [Payloads -> Links]
    /\ box \in [Payloads -> {"none", "due", "later", "expired"}] /\ handed \subseteq Payloads
    /\ FlushInv /\ NothingDropped /\ TwiceHasCause

LEMMA TwoParts == LinkInv <=> TakeInv /\ BoxInv
  BY DEF LinkInv, LinkTypes, TakeInv, BoxInv

-----------------------------------------------------------------------------
LEMMA Reconnecting ==
    ASSUME TakeInv, Reconnect \/ (retry /\ pending = 0 /\ AttemptStarts),
           UNCHANGED <<ever, leaving, overtaken>>
    PROVE  TakeInv'
<1>1. CASE pending # 0 /\ Joined
  BY <1>1 DEF Joined, TakeInv, AttemptInv, Attempting, OneLinkOpen, FailedIsRetried
<1>2. CASE pending = 0 /\ AttemptStarts
  <2>1. PICK a \in Takes :
            /\ take[a] = "none" /\ active' = TRUE /\ retry' = FALSE
            /\ take' = [take EXCEPT ![a] = "closing"] /\ pending' = a
            /\ linkStatus' = "connecting" /\ open' = open \ {inUse} /\ inUse' = inUse
    BY <1>2 DEF AttemptStarts, CloseOld
  <2>2. a # 0  BY TakesArePositive
  <2>3. /\ take' \in [Takes -> {"none", "closing", "asking", "only", "first", "second", "done"}]
        /\ take'[a] = "closing" /\ \A b \in Takes : b # a => take'[b] = take[b]
    BY <2>1 DEF TakeInv
  <2>4. Attempting' = Attempting \cup {a}
    BY <2>3 DEF Attempting
  <2>5. ~overtaken => Attempting = {}
    <3>1. 0 \notin Attempting  BY TakesArePositive DEF Attempting
    <3> QED  BY <1>2, <3>1 DEF TakeInv, AttemptInv
  <2>6. ~overtaken => open' \cap ever = {}
    BY <2>1 DEF TakeInv, OneLinkOpen
  <2>7. \A l \in ever : l \in Links \ {NoLink} /\ take'[l[1]] = "done"
    <3> SUFFICES ASSUME NEW l \in ever PROVE l \in Links \ {NoLink} /\ take'[l[1]] = "done"
      OBVIOUS
    <3>1. l \in Links \ {NoLink} /\ take[l[1]] = "done"  BY DEF TakeInv, AttemptInv
    <3>2. l[1] \in Takes  BY <3>1 DEF Links
    <3> QED  BY <2>1, <2>3, <3>1, <3>2
  <2>8. AttemptInv'  BY <2>1, <2>4, <2>5, <2>6, <2>7 DEF AttemptInv
  <2>9. OneLinkOpen' /\ FailedIsRetried'
    BY <2>1, <2>6 DEF OneLinkOpen, FailedIsRetried
  <2> QED  BY <2>1, <2>3, <2>8, <2>9 DEF TakeInv
<1> QED  BY <1>1, <1>2 DEF Reconnect

\* An attempt goes on, to a step that is not its last.
LEMMA AttemptGoesOn ==
    ASSUME TakeInv, NEW a \in Takes, take[a] \notin {"none", "done"},
           NEW step \in {"asking", "only", "first", "second"},
           take' = [take EXCEPT ![a] = step],
           open' = open \/ \E n \in {1, 2} : open' = open \cup {<<a, n>>},
           inUse' \in {inUse, NoLink},
           UNCHANGED <<active, pending, retry, ever, leaving, overtaken>>
    PROVE  TakeInv'
<1>1. /\ take' \in [Takes -> {"none", "closing", "asking", "only", "first", "second", "done"}]
      /\ take'[a] = step /\ \A b \in Takes : b # a => take'[b] = take[b]
  BY DEF TakeInv
<1>2. Attempting' = Attempting /\ a \in Attempting
  BY <1>1 DEF Attempting
<1>3. \A l \in ever : l \in Links \ {NoLink} /\ take[l[1]] = "done" /\ l[1] \in Takes
  BY DEF TakeInv, AttemptInv, Links
<1>4. \A n : <<a, n>> \notin ever
  <2> SUFFICES ASSUME NEW n, <<a, n>> \in ever PROVE FALSE
    OBVIOUS
  <2>1. <<a, n>>[1] = a  OBVIOUS
  <2> QED  BY <1>3, <2>1
<1>5. /\ open' \subseteq Links \ {NoLink} /\ open' \cap ever = open \cap ever
      /\ inUse' \in Links
  <2>1. NoLink \in Links  BY DEF Links
  <2>2. inUse' \in Links  BY <2>1 DEF TakeInv
  <2>3. CASE open' = open  BY <2>2, <2>3 DEF TakeInv
  <2>4. ASSUME NEW n \in {1, 2}, open' = open \cup {<<a, n>>}
        PROVE  open' \subseteq Links \ {NoLink} /\ open' \cap ever = open \cap ever
    <3>1. PICK pair : pair = <<a, n>>  OBVIOUS
    <3>2. pair \in Links \ {NoLink}  BY <3>1, LinksOfTakes
    <3>3. pair \notin ever  BY <1>4, <3>1
    <3>4. open' = open \cup {pair} /\ open \subseteq Links \ {NoLink}
      BY <2>4, <3>1 DEF TakeInv
    <3> QED  BY <3>2, <3>3, <3>4
  <2> QED  BY <2>2, <2>3, <2>4 DEF TakeInv
<1>6. \A l \in ever : take'[l[1]] = "done"
  BY <1>1, <1>3
<1>7. AttemptInv'  BY <1>2, <1>3, <1>5, <1>6 DEF TakeInv, AttemptInv
<1>8. OneLinkOpen'
  BY <1>2, <1>5 DEF TakeInv, AttemptInv, OneLinkOpen
<1>9. FailedIsRetried'
  BY <1>2 DEF TakeInv, FailedIsRetried
<1> QED  BY <1>1, <1>5, <1>7, <1>8, <1>9 DEF TakeInv

\* An attempt ends with a transport or without one.
LEMMA AttemptEnds ==
    ASSUME TakeInv, NEW a \in Takes, Trying(a), take' = [take EXCEPT ![a] = "done"],
           pending' = 0,
           \/ /\ inUse' = LinkOf(a) /\ ever' = ever \cup {LinkOf(a)} /\ retry' = retry
              /\ linkStatus' = "connected"
           \/ inUse' = inUse /\ ever' = ever /\ retry' = (retry \/ active),
           UNCHANGED <<active, open, leaving, overtaken>>
    PROVE  TakeInv'
<1>1. /\ take' \in [Takes -> {"none", "closing", "asking", "only", "first", "second", "done"}]
      /\ take'[a] = "done" /\ \A b \in Takes : b # a => take'[b] = take[b]
  BY DEF TakeInv
<1>2. Attempting' = Attempting \ {a} /\ a \in Attempting
  BY <1>1 DEF Attempting, Trying
<1>3. LinkOf(a) \in Links \ {NoLink} /\ LinkOf(a)[1] = a
  BY LinksOfTakes DEF LinkOf
<1>4. \A l \in ever : l \in Links \ {NoLink} /\ take[l[1]] = "done" /\ l[1] \in Takes
  BY DEF TakeInv, AttemptInv, Links
<1>5. \A l \in ever' : l \in Links \ {NoLink} /\ take'[l[1]] = "done"
  BY <1>1, <1>3, <1>4
<1>6. ~overtaken => Attempting' = {} /\ open \cap ever = {}
  BY <1>2 DEF TakeInv, AttemptInv
<1>7. AttemptInv'  BY <1>5, <1>6 DEF AttemptInv
<1>8. OneLinkOpen'  BY <1>6 DEF OneLinkOpen
<1>9. FailedIsRetried'
  BY DEF TakeInv, FailedIsRetried
<1>10. inUse' \in Links /\ retry' \in BOOLEAN  BY <1>3 DEF TakeInv
<1> QED  BY <1>1, <1>7, <1>8, <1>9, <1>10 DEF TakeInv

LEMMA Leaving ==
    ASSUME TakeInv, LeaveBegins \/ LeaveEnds
    PROVE  TakeInv'
<1>1. CASE LeaveBegins
  <2>1. /\ leaving' = TRUE /\ active' = FALSE /\ retry' = FALSE /\ open' = open \ {inUse}
        /\ overtaken' = (overtaken \/ Attempting # {})
        /\ UNCHANGED <<take, pending, inUse, ever>>
    BY <1>1 DEF LeaveBegins, CloseOld, Steady
  <2>2. Attempting' = Attempting  BY <2>1 DEF Attempting
  <2>3. AttemptInv' /\ OneLinkOpen'  BY <2>1, <2>2 DEF TakeInv, AttemptInv, OneLinkOpen
  <2>4. FailedIsRetried' /\ overtaken' \in BOOLEAN  BY <2>1 DEF TakeInv, FailedIsRetried
  <2> QED  BY <2>1, <2>3, <2>4 DEF TakeInv
<1>2. CASE LeaveEnds
  <2>1. /\ leaving' = FALSE /\ inUse' = NoLink /\ pending' = 0 /\ linkStatus' = "idle"
        /\ overtaken' = (overtaken \/ Attempting # {} \/ inUse \in open)
        /\ UNCHANGED <<active, take, open, retry, ever>>
    BY <1>2 DEF LeaveEnds, Steady
  <2>2. Attempting' = Attempting  BY <2>1 DEF Attempting
  <2>3. AttemptInv' /\ OneLinkOpen'  BY <2>1, <2>2 DEF TakeInv, AttemptInv, OneLinkOpen
  <2>4. FailedIsRetried' /\ overtaken' \in BOOLEAN /\ inUse' \in Links
    BY <2>1 DEF TakeInv, FailedIsRetried, Links
  <2> QED  BY <2>1, <2>3, <2>4 DEF TakeInv
<1> QED  BY <1>1, <1>2

\* Nothing but the retry timer, which may be started while the conversation is active.
LEMMA TakeRests ==
    ASSUME TakeInv, retry' = retry \/ retry' = (retry \/ active),
           UNCHANGED <<active, take, pending, inUse, open, linkStatus, ever, leaving, overtaken>>
    PROVE  TakeInv'
  BY DEF TakeInv, AttemptInv, Attempting, OneLinkOpen, FailedIsRetried

LEMMA TakeKept ==
    ASSUME TakeInv, [LinkNext]_linkVars
    PROVE  TakeInv'
<1>1. CASE OpenConversation \/ RetryFires
  <2>1. UNCHANGED <<ever, leaving, overtaken>>
    BY <1>1 DEF OpenConversation, RetryFires, Steady
  <2>2. CASE OpenConversation  BY <2>1, <2>2, Reconnecting DEF OpenConversation
  <2>3. CASE RetryFires /\ pending = 0  BY <2>1, <2>3, Reconnecting DEF RetryFires
  <2>4. CASE RetryFires /\ pending # 0
    <3>1. active' = TRUE /\ retry' = FALSE /\ UNCHANGED <<take, pending, inUse, open, linkStatus>>
      BY <2>4 DEF RetryFires
    <3>2. Attempting' = Attempting /\ Attempting # {}
      BY <2>4, <3>1 DEF Attempting, TakeInv, AttemptInv
    <3> QED
      BY <2>1, <3>1, <3>2 DEF TakeInv, AttemptInv, OneLinkOpen, FailedIsRetried
  <2> QED  BY <1>1, <2>2, <2>3, <2>4
<1>2. ASSUME NEW a \in Takes, OldClosed(a) \/ Decided(a) PROVE TakeInv'
  <2>1. CASE OldClosed(a)  BY <2>1, AttemptGoesOn DEF OldClosed, Steady
  <2>2. CASE Decided(a)
    <3>1. /\ take[a] = "asking" /\ open' = open \cup {<<a, 1>>}
          /\ \E way \in {"only", "first"} : take' = [take EXCEPT ![a] = way]
          /\ UNCHANGED <<active, pending, inUse, retry, ever, leaving, overtaken>>
      BY <2>2 DEF Decided, Steady
    <3> QED  BY <3>1, AttemptGoesOn
  <2> QED  BY <1>2, <2>1, <2>2
<1>3. ASSUME NEW a \in Takes, LinkUp(a) PROVE TakeInv'
  BY <1>3, AttemptEnds DEF LinkUp
<1>4. ASSUME NEW a \in Takes, LinkFails(a) PROVE TakeInv'
  <2>1. Trying(a) /\ UNCHANGED <<active, inUse, ever, leaving, overtaken>>
    BY <1>4 DEF LinkFails, Steady
  <2>2. CASE take[a] = "first"
    <3>1. /\ take' = [take EXCEPT ![a] = "second"] /\ open' = open \cup {<<a, 2>>}
          /\ UNCHANGED <<pending, retry>>
      BY <1>4, <2>2 DEF LinkFails
    <3> QED  BY <2>1, <2>2, <3>1, AttemptGoesOn
  <2>3. CASE take[a] # "first"
    <3>1. /\ take' = [take EXCEPT ![a] = "done"] /\ pending' = 0
          /\ retry' = (retry \/ active) /\ open' = open
      BY <1>4, <2>3 DEF LinkFails, Retried
    <3> QED  BY <2>1, <3>1, AttemptEnds
  <2> QED  BY <2>2, <2>3
<1>5. ASSUME NEW m \in Payloads, PutAside(m) PROVE TakeInv'
  <2>1. UNCHANGED <<ever, leaving, overtaken>>  BY <1>5 DEF PutAside, Steady
  <2>2. CASE Reconnect  BY <2>1, <2>2, Reconnecting
  <2>3. CASE Retried /\ UNCHANGED <<active, take, pending, inUse, open, linkStatus>>
    BY <2>1, <2>3, TakeRests DEF Retried
  <2> QED  BY <1>5, <2>2, <2>3 DEF PutAside
<1>6. CASE FlushEnds
  BY <1>6, TakeRests DEF FlushEnds, Retried, Steady
<1>7. CASE LinkBreaks \/ FlushLists \/ UNCHANGED linkVars
  BY <1>7, TakeRests DEF LinkBreaks, FlushLists, linkVars, takeVars, Steady
<1>8. ASSUME NEW m \in Payloads,
             \/ Send(m) \/ SendTaken(m) \/ SendRefused(m) \/ QueueFails(m) \/ FlushSends(m)
             \/ FlushRemoves(m) \/ FlushRefused(m) \/ RemovalFails(m) \/ FlushBreaks(m)
             \/ PayloadDue(m)
      PROVE  TakeInv'
  <2>1. UNCHANGED <<takeVars, ever, leaving, overtaken>>
    BY <1>8 DEF Send, SendTaken, SendRefused, QueueFails, FlushSends, FlushRemoves, FlushRefused,
                RemovalFails, FlushBreaks, PayloadDue, Postponed, Steady
  <2> QED  BY <2>1, TakeRests DEF takeVars
<1> QED
  BY <1>1, <1>2, <1>3, <1>4, <1>5, <1>6, <1>7, <1>8, Leaving DEF LinkNext

-----------------------------------------------------------------------------
LEMMA FlushFields ==
    ASSUME BoxInv
    PROVE  /\ flush.via \in Links /\ flush.pc \in {"none", "list", "send"}
           /\ flush.failing \in BOOLEAN /\ flush.left \subseteq Payloads
           /\ flush.sent \subseteq Payloads
  BY DEF BoxInv

LEMMA FlushOver == NoFlush.left = {} /\ NoFlush.sent = {} /\ NoFlush.pc = "none"
                   /\ NoFlush \in [via : Links, pc : {"none", "list", "send"},
                                   left : SUBSET Payloads, sent : SUBSET Payloads,
                                   failing : BOOLEAN]
<1>1. NoLink \in Links  BY DEF Links
<1> QED  BY <1>1 DEF NoFlush

\* A send takes a step, and nothing is put aside or handed over by it.
LEMMA SendMoves ==
    ASSUME BoxInv, NEW m \in Payloads, sends[m] \notin {"done", "refused"},
           NEW step \in {"send", "queue", "requeue", "refused"},
           sends' = [sends EXCEPT ![m] = step], via' \in [Payloads -> Links],
           spoilt \subseteq spoilt', UNCHANGED <<flush, box, handed>>
    PROVE  BoxInv'
<1>1. /\ sends' \in [Payloads -> {"none", "send", "queue", "requeue", "done", "refused"}]
      /\ sends'[m] = step /\ \A n \in Payloads : n # m => sends'[n] = sends[n]
  BY DEF BoxInv
<1>2. FlushInv'  BY <1>1 DEF BoxInv, FlushInv
<1>3. NothingDropped'  BY <1>1 DEF BoxInv, NothingDropped
<1>4. TwiceHasCause'  BY DEF BoxInv, TwiceHasCause
<1> QED  BY <1>1, <1>2, <1>3, <1>4 DEF BoxInv

LEMMA SendIsDone ==
    ASSUME BoxInv, NEW m \in Payloads, sends[m] \in {"send", "queue", "requeue"},
           sends' = [sends EXCEPT ![m] = "done"], via' \in [Payloads -> Links],
           \/ handed' = handed \cup {m} /\ box' = box
           \/ handed' = handed /\ box' = [box EXCEPT ![m] = "due"],
           UNCHANGED <<flush, spoilt>>
    PROVE  BoxInv'
<1>1. /\ sends' \in [Payloads -> {"none", "send", "queue", "requeue", "done", "refused"}]
      /\ sends'[m] = "done" /\ \A n \in Payloads : n # m => sends'[n] = sends[n]
  BY DEF BoxInv
<1>2. box[m] = "none" /\ m \notin handed /\ m \notin flush.left
  BY DEF BoxInv, FlushInv
<1>3. /\ box' \in [Payloads -> {"none", "due", "later", "expired"}] /\ handed' \subseteq Payloads
      /\ handed \subseteq handed'
      /\ \A n \in Payloads : n # m => box'[n] = box[n] /\ (n \in handed' <=> n \in handed)
      /\ m \in handed' \/ box'[m] # "none"
      /\ ~(m \in handed' /\ box'[m] \in {"due", "later"})
  BY <1>2 DEF BoxInv
<1>4. flush.left \subseteq Payloads  BY FlushFields
<1>5. FlushInv'  BY <1>1, <1>2, <1>3, <1>4 DEF BoxInv, FlushInv
<1>6. NothingDropped' /\ TwiceHasCause'
  BY <1>1, <1>3 DEF BoxInv, NothingDropped, TwiceHasCause
<1> QED  BY <1>1, <1>3, <1>5, <1>6 DEF BoxInv

LEMMA Sends_ ==
    ASSUME BoxInv, NEW m \in Payloads, TakeInv,
           Send(m) \/ SendTaken(m) \/ SendRefused(m) \/ PutAside(m) \/ QueueFails(m)
    PROVE  BoxInv'
<1>1. via \in [Payloads -> Links] /\ inUse \in Links /\ NoLink \in Links
  BY DEF BoxInv, TakeInv, Links
<1>2. CASE Send(m)
  <2>1. \E step \in {"queue", "send"} : sends' = [sends EXCEPT ![m] = step]
    BY <1>2 DEF Send
  <2>2. via' \in [Payloads -> Links]  BY <1>1, <1>2 DEF Send
  <2>3. sends[m] = "none" /\ UNCHANGED <<flush, box, handed, spoilt>>
    BY <1>2 DEF Send, Steady
  <2> QED  BY <2>1, <2>2, <2>3, SendMoves
<1>3. CASE SendTaken(m)
  <2>1. via' \in [Payloads -> Links]  BY <1>1, <1>3 DEF SendTaken
  <2> QED  BY <1>3, <2>1, SendIsDone DEF SendTaken, Steady
<1>4. CASE SendRefused(m)
  <2>1. via' \in [Payloads -> Links]  BY <1>1, <1>4 DEF SendRefused
  <2> QED  BY <1>4, <2>1, SendMoves DEF SendRefused, Steady
<1>5. CASE PutAside(m)
  BY <1>1, <1>5, SendIsDone DEF PutAside, Steady
<1>6. CASE QueueFails(m)
  BY <1>1, <1>6, SendMoves DEF QueueFails, Fails
<1> QED  BY <1>2, <1>3, <1>4, <1>5, <1>6

LEMMA FlushBegins ==
    ASSUME BoxInv, NEW l \in Links, flush.pc = "none",
           flush' = [NoFlush EXCEPT !.via = l, !.pc = "list"], UNCHANGED <<boxVars, spoilt>>
    PROVE  BoxInv'
<1>1. /\ flush' \in [via : Links, pc : {"none", "list", "send"}, left : SUBSET Payloads,
                     sent : SUBSET Payloads, failing : BOOLEAN]
      /\ flush'.left = {} /\ flush'.sent = {} /\ flush'.pc = "list"
  BY DEF NoFlush
<1>2. flush.sent = {}  BY DEF BoxInv, FlushInv
<1> QED  BY <1>1, <1>2 DEF BoxInv, FlushInv, NothingDropped, TwiceHasCause, boxVars

\* A flush is over when nothing is left of it, or when an access failed.
LEMMA FlushIsOver ==
    ASSUME BoxInv, flush' = NoFlush, UNCHANGED boxVars,
           \/ flush.left = {} /\ spoilt' = spoilt
           \/ \E m \in Payloads : flush.sent \subseteq {m} /\ spoilt' = spoilt \cup {m}
    PROVE  BoxInv'
<1>1. FlushInv' /\ NothingDropped'
  BY FlushOver DEF BoxInv, FlushInv, NothingDropped, boxVars
<1>2. flush.sent \cup spoilt \subseteq spoilt'  BY DEF BoxInv, FlushInv
<1>3. TwiceHasCause'  BY <1>2 DEF BoxInv, TwiceHasCause, boxVars
<1> QED  BY <1>1, <1>3, FlushOver DEF BoxInv, boxVars

\* A payload leaves the flush: removed after it was handed over, or postponed.
LEMMA FlushLeaves ==
    ASSUME BoxInv, NEW m \in Payloads, m \in flush.left, flush.pc = "send",
           flush.sent \subseteq {m}, NEW mark \in {"none", "later"},
           mark = "none" => m \in flush.sent,
           mark = "later" /\ m \in flush.sent => m \in spoilt',
           NEW failing \in BOOLEAN,
           flush' = [flush EXCEPT !.sent = {}, !.left = @ \ {m}, !.failing = failing],
           box' = [box EXCEPT ![m] = mark], spoilt \subseteq spoilt',
           UNCHANGED <<sends, via, handed>>
    PROVE  BoxInv'
<1>1. /\ flush' \in [via : Links, pc : {"none", "list", "send"}, left : SUBSET Payloads,
                     sent : SUBSET Payloads, failing : BOOLEAN]
      /\ flush'.left = flush.left \ {m} /\ flush'.sent = {} /\ flush'.pc = flush.pc
  BY DEF BoxInv
<1>2. /\ box' \in [Payloads -> {"none", "due", "later", "expired"}]
      /\ box'[m] = mark /\ \A n \in Payloads : n # m => box'[n] = box[n]
  BY DEF BoxInv
<1>3. /\ box[m] = "due" /\ flush.left \subseteq Payloads /\ flush.sent \subseteq handed
      /\ sends[m] = "done"
  BY FlushFields DEF BoxInv, FlushInv
<1>4. FlushInv'  BY <1>1, <1>2, <1>3 DEF BoxInv, FlushInv
<1>5. NothingDropped'  BY <1>2, <1>3 DEF BoxInv, NothingDropped
<1>6. TwiceHasCause'  BY <1>1, <1>2, <1>3 DEF BoxInv, TwiceHasCause
<1> QED  BY <1>1, <1>2, <1>4, <1>5, <1>6 DEF BoxInv

LEMMA Flushes ==
    ASSUME BoxInv, NEW m \in Payloads,
           FlushSends(m) \/ FlushRemoves(m) \/ FlushRefused(m) \/ RemovalFails(m)
    PROVE  BoxInv'
<1>1. /\ flush.sent \subseteq flush.left /\ (flush.pc # "send" => flush.left = {})
      /\ \A k, n \in flush.sent : k = n
      /\ flush.failing \in BOOLEAN
  BY FlushFields DEF BoxInv, FlushInv
<1>2. CASE FlushSends(m)
  <2>1. /\ flush.pc = "send" /\ flush.sent = {} /\ m \in flush.left
        /\ handed' = handed \cup {m} /\ flush' = [flush EXCEPT !.sent = {m}]
        /\ UNCHANGED <<sends, via, box, spoilt>>
    BY <1>2 DEF FlushSends, Steady
  <2>2. /\ flush' \in [via : Links, pc : {"none", "list", "send"}, left : SUBSET Payloads,
                       sent : SUBSET Payloads, failing : BOOLEAN]
        /\ flush'.left = flush.left /\ flush'.sent = {m} /\ flush'.pc = flush.pc
    BY <2>1 DEF BoxInv
  <2>3. box[m] = "due" /\ sends[m] = "done"  BY <2>1 DEF BoxInv, FlushInv
  <2>4. FlushInv'  BY <2>1, <2>2, <2>3 DEF BoxInv, FlushInv
  <2>5. NothingDropped' /\ TwiceHasCause'
    BY <2>1, <2>2 DEF BoxInv, NothingDropped, TwiceHasCause
  <2>6. handed' \subseteq Payloads  BY <2>1 DEF BoxInv
  <2> QED  BY <2>1, <2>2, <2>4, <2>5, <2>6 DEF BoxInv
<1>3. CASE FlushRemoves(m)
  <2>1. /\ m \in flush.sent /\ box' = [box EXCEPT ![m] = "none"]
        /\ flush' = [flush EXCEPT !.sent = {}, !.left = @ \ {m}, !.failing = flush.failing]
        /\ UNCHANGED <<sends, via, handed, spoilt>>
    <3>1. flush' = [flush EXCEPT !.sent = {}, !.left = @ \ {m}]  BY <1>3 DEF FlushRemoves
    <3>2. flush' = [flush EXCEPT !.sent = {}, !.left = @ \ {m}, !.failing = flush.failing]
      BY <3>1 DEF BoxInv
    <3> QED  BY <1>3, <3>2 DEF FlushRemoves, Steady
  <2>2. m \in flush.left /\ flush.pc = "send" /\ flush.sent \subseteq {m}  BY <1>1, <2>1
  <2> QED  BY <1>1, <2>1, <2>2, FlushLeaves
<1>4. CASE FlushRefused(m)
  BY <1>4, FlushLeaves DEF FlushRefused, Postponed
<1>5. CASE RemovalFails(m)
  <2>1. m \in flush.left /\ flush.pc = "send" /\ flush.sent \subseteq {m}
    BY <1>1, <1>5 DEF RemovalFails
  <2>2. spoilt' = spoilt \cup {m}  BY <1>5 DEF RemovalFails, Fails
  <2> QED  BY <1>5, <2>1, <2>2, FlushLeaves DEF RemovalFails, Postponed
<1> QED  BY <1>2, <1>3, <1>4, <1>5

LEMMA BoxKept ==
    ASSUME BoxInv, TakeInv, [LinkNext]_linkVars
    PROVE  BoxInv'
<1>0. ASSUME UNCHANGED <<flush, boxVars, spoilt>> PROVE BoxInv'
  BY <1>0 DEF BoxInv, FlushInv, NothingDropped, TwiceHasCause, boxVars
<1>1. CASE OpenConversation \/ RetryFires \/ LeaveBegins \/ LeaveEnds \/ LinkBreaks
           \/ UNCHANGED linkVars
  BY <1>0, <1>1 DEF OpenConversation, RetryFires, LeaveBegins, LeaveEnds, LinkBreaks, linkVars,
                    Steady
<1>2. ASSUME NEW a \in Takes, OldClosed(a) \/ Decided(a) \/ LinkFails(a) PROVE BoxInv'
  BY <1>0, <1>2 DEF OldClosed, Decided, LinkFails, Steady
<1>3. ASSUME NEW a \in Takes, LinkUp(a) PROVE BoxInv'
  <2>1. LinkOf(a) \in Links  BY LinksOfTakes DEF LinkOf
  <2>2. CASE flush.pc = "none"
    BY <1>3, <2>1, <2>2, FlushBegins DEF LinkUp
  <2>3. CASE flush.pc # "none"  BY <1>0, <1>3, <2>3 DEF LinkUp
  <2> QED  BY <2>2, <2>3
<1>4. CASE FlushLists
  <2>1. PICK old \in SUBSET {m \in Payloads : box[m] \in {"due", "later"}} :
            /\ box' = [m \in Payloads |-> IF m \in old THEN "expired" ELSE box[m]]
            /\ flush' = [flush EXCEPT !.pc = "send", !.left = {m \in Payloads : box'[m] = "due"}]
            /\ flush.pc = "list" /\ UNCHANGED <<sends, via, handed, spoilt>>
    BY <1>4 DEF FlushLists, Steady
  <2>2. flush.sent = {}  BY <2>1 DEF BoxInv, FlushInv
  <2>3. /\ flush' \in [via : Links, pc : {"none", "list", "send"}, left : SUBSET Payloads,
                       sent : SUBSET Payloads, failing : BOOLEAN]
        /\ flush'.left = {m \in Payloads : box'[m] = "due"} /\ flush'.sent = {}
        /\ flush'.pc = "send"
    BY <2>1, <2>2 DEF BoxInv
  <2>4. /\ box' \in [Payloads -> {"none", "due", "later", "expired"}]
        /\ \A m \in Payloads : /\ box'[m] \in {"due", "later"} => box'[m] = box[m]
                               /\ box'[m] = "none" <=> box[m] = "none"
    BY <2>1 DEF BoxInv
  <2>5. FlushInv'  BY <2>1, <2>3, <2>4 DEF BoxInv, FlushInv
  <2>6. NothingDropped' /\ TwiceHasCause'
    BY <2>1, <2>2, <2>3, <2>4 DEF BoxInv, NothingDropped, TwiceHasCause
  <2> QED  BY <2>1, <2>3, <2>4, <2>5, <2>6 DEF BoxInv
<1>5. CASE FlushEnds
  BY <1>5, FlushIsOver DEF FlushEnds, Steady
<1>6. ASSUME NEW m \in Payloads, FlushBreaks(m) PROVE BoxInv'
  <2>1. flush.sent \subseteq {m}
    BY <1>6 DEF FlushBreaks, BoxInv, FlushInv
  <2> QED  BY <1>6, <2>1, FlushIsOver DEF FlushBreaks, Fails
<1>7. ASSUME NEW m \in Payloads, PayloadDue(m) PROVE BoxInv'
  <2>1. /\ box' \in [Payloads -> {"none", "due", "later", "expired"}]
        /\ box[m] = "later" /\ box'[m] = "due"
        /\ \A n \in Payloads : n # m => box'[n] = box[n]
        /\ UNCHANGED <<flush, sends, via, handed, spoilt>>
    BY <1>7 DEF PayloadDue, Steady, BoxInv
  <2>2. FlushInv'  BY <2>1, FlushFields DEF BoxInv, FlushInv
  <2>3. NothingDropped' /\ TwiceHasCause'  BY <2>1 DEF BoxInv, NothingDropped, TwiceHasCause
  <2> QED  BY <2>1, <2>2, <2>3 DEF BoxInv
<1>8. ASSUME NEW m \in Payloads,
             Send(m) \/ SendTaken(m) \/ SendRefused(m) \/ PutAside(m) \/ QueueFails(m)
      PROVE  BoxInv'
  BY <1>8, Sends_
<1>9. ASSUME NEW m \in Payloads,
             FlushSends(m) \/ FlushRemoves(m) \/ FlushRefused(m) \/ RemovalFails(m)
      PROVE  BoxInv'
  BY <1>9, Flushes
<1> QED
  BY <1>1, <1>2, <1>3, <1>4, <1>5, <1>6, <1>7, <1>8, <1>9 DEF LinkNext

LEMMA LinkStep ==
    ASSUME LinkInv, [LinkNext]_linkVars
    PROVE  LinkInv'
<1>1. TakeInv /\ BoxInv  BY TwoParts
<1>2. TakeInv' /\ BoxInv'  BY <1>1, TakeKept, BoxKept
<1> QED  BY <1>2 DEF LinkInv, LinkTypes, TakeInv, BoxInv

LEMMA LinkIsSound == ASSUME LinkInv PROVE LinkSound
<1>1. flush.via \in Links /\ flush.left \subseteq Payloads  BY DEF LinkInv, LinkTypes
<1> QED  BY <1>1 DEF LinkInv, LinkTypes, FlushInv, LinkSound, LinkTypeOK

-----------------------------------------------------------------------------
(***************************************************************************)
(* The files that are sent in a conversation (MediaTransfer).              *)
(***************************************************************************)
Cursors == [through : Int, acked : Nat \cup {-1}, early : SUBSET Nat,
            status : {"none", "active", "complete"}]
Lanes == [size : 1..MaxWindow, streak : Nat, broken : BOOLEAN, wait : BOOLEAN]
ChunkStates == {"none", "sealing", "boxed", "acked", "failed"}
Updates == [file : Files, kind : {"stored", "acked"}, chunk : Nat, was : Cursors]

SenderTypes ==
    /\ filesSent \in 0..Len(Totals) /\ ended \subseteq 1..filesSent
    /\ sending \in (1..filesSent) \cup {0}
    /\ phase \in {"none", "manifest", "store", "settle"}
    /\ lane \in Lanes /\ tasks \subseteq Nat /\ todo \subseteq Nat /\ IsFiniteSet(tasks)
    /\ DOMAIN out = Files /\ \A t \in Files : out[t] \in [ChunksOf(t) -> ChunkStates]
    /\ manifest \in [Files -> {"none", "boxed"}]
    /\ mine \in [Files -> {"none", "here", "deleted"}] /\ kept \in [Files -> SUBSET Nat]
    /\ \A t \in Files : kept[t] \subseteq ChunksOf(t)
    /\ progress \in [Files -> Cursors] /\ updates \subseteq Updates

\* The receiver's side: a chunk is saved of a message that is there, or whose deletion met it.
ReceiverInv ==
    /\ theirs \in [Files -> {"none", "here", "deleted"}] /\ got \in [Files -> SUBSET Nat]
    /\ \A t \in Files : got[t] \subseteq ChunksOf(t)
    /\ \A t \in Files : \A c \in ChunksOf(t) :
        theirs[t] = "deleted" /\ <<t, c>> \in saving => t \in raced
    /\ \A t \in Files : theirs[t] = "deleted" /\ got[t] # {} => t \in raced

\* The transfer that runs: its phase, what is stored and not yet handed to a task, its tasks.
PipeInv ==
    /\ sending = 0 <=> phase = "none"
    /\ sending \notin ended
    /\ phase \in {"none", "manifest"} => tasks = {}
    /\ phase # "store" => todo = {}
    /\ phase \in {"store", "settle"} => manifest[sending] = "boxed"
    /\ \A c \in todo : /\ c \in ChunksOf(sending) /\ c > progress[sending].through
                       /\ c \in kept[sending] \/ mine[sending] = "deleted"
    /\ tasks # {} => tasks \subseteq ChunksOf(sending)

\* While nothing has failed, the tasks fit the window, and what does not wait has a free lane.
LaneInv ==
    /\ Cardinality(tasks) <= MaxWindow
    /\ ~lane.broken => /\ Cardinality(tasks) <= lane.size
                       /\ ~lane.wait => Cardinality(tasks) < lane.size

\* An update of the cursors is the only one of its file, and what it has read still holds.
UpdateInv ==
    /\ \A u, v \in updates : u.file = v.file => u = v
    /\ \A u \in updates :
        /\ u.was = progress[u.file] /\ u.chunk \in ChunksOf(u.file)
        /\ u.kind = "stored" => /\ u.file = sending /\ phase = "store" /\ ~lane.wait
                                /\ u.chunk \in todo /\ Next1(u.chunk)
        /\ u.kind = "acked" => out[u.file][u.chunk] = "boxed"

\* A transfer has cursors from its beginning on, and chunks in the outbox after its message.
BegunInv ==
    /\ \A t \in Files : progress[t].status # "none" => t \in ended \cup {sending}
    /\ phase # "none" => progress[sending].status # "none"
    /\ \A t \in Files : progress[t].status = "none" \/ (phase = "manifest" /\ t = sending)
                            => \A c \in ChunksOf(t) : out[t][c] = "none"
    /\ \A t \in Files : mine[t] = "deleted" => t \in cut \cup ended

SenderInv ==
    /\ SenderTypes /\ PipeInv /\ LaneInv /\ UpdateInv /\ BegunInv
    /\ CursorsExact /\ ManifestFirst
    /\ \A t \in Files : \A c \in ChunksOf(t) : out[t][c] = "sealing" => t = sending /\ c \in tasks
    /\ \A t \in Files : mine[t] = "deleted" /\ kept[t] # {} => t \in cut

MediaInv == SenderInv /\ ReceiverInv

LEMMA FilesAreCounted ==
    /\ Files = 1..Len(Totals) /\ Len(Totals) \in Nat
    /\ \A t \in Files : /\ Totals[t] \in Nat \ {0} /\ ChunksOf(t) \subseteq Nat
                        /\ 0 \in ChunksOf(t) /\ t # 0
                        /\ \A c : c \in ChunksOf(t) <=> c \in Nat /\ c < Totals[t]
<1>1. Totals \in Seq(Nat \ {0})  BY MediaAssumption
<1>2. Files = 1..Len(Totals) /\ Len(Totals) \in Nat  BY <1>1 DEF Files
<1>3. \A t \in Files : Totals[t] \in Nat \ {0}  BY <1>1, <1>2
<1> QED  BY <1>2, <1>3 DEF ChunksOf

LEMMA MediaStarts == ASSUME MediaInit PROVE MediaInv
<1>1. NoProgress \in Cursors /\ FreshLane \in Lanes /\ NoProgress.status = "none"
      /\ ~FreshLane.broken /\ FreshLane.size = 1
  BY MediaAssumption DEF NoProgress, Cursors, FreshLane, Lanes
<1>2. IsFiniteSet({}) /\ Cardinality({}) = 0  BY FS_EmptySet
<1>3. out = [t \in Files |-> [c \in ChunksOf(t) |-> "none"]]  BY DEF MediaInit
<1>4. DOMAIN out = Files /\ \A t \in Files : out[t] \in [ChunksOf(t) -> ChunkStates]
  BY <1>3 DEF ChunkStates
<1>5. \A t \in Files : \A c \in ChunksOf(t) : out[t][c] = "none"  BY <1>3
<1>6. SenderTypes
  BY <1>1, <1>2, <1>4, FilesAreCounted DEF MediaInit, SenderTypes
<1>7. PipeInv /\ LaneInv /\ UpdateInv
  BY <1>1, <1>2, MediaAssumption DEF MediaInit, PipeInv, LaneInv, UpdateInv
<1>8. BegunInv /\ CursorsExact /\ ManifestFirst
  BY <1>1, <1>5 DEF MediaInit, BegunInv, CursorsExact, ManifestFirst
<1>9. ReceiverInv  BY DEF MediaInit, ReceiverInv
<1>10. /\ \A t \in Files : \A c \in ChunksOf(t) : out[t][c] # "sealing"
       /\ \A t \in Files : mine[t] # "deleted"
  BY <1>5 DEF MediaInit
<1> QED  BY <1>6, <1>7, <1>8, <1>9, <1>10 DEF MediaInv, SenderInv

-----------------------------------------------------------------------------
LEMMA ReceiverStays ==
    ASSUME ReceiverInv, UNCHANGED <<theirs, got, saving, raced>>
    PROVE  ReceiverInv'
  BY DEF ReceiverInv

LEMMA SenderStays ==
    ASSUME SenderInv, UNCHANGED <<filesSent, ended, pipeVars, out, manifest, mine, kept, progress,
                                  updates, cut>>
    PROVE  SenderInv'
<1>1. SenderTypes' /\ PipeInv' /\ LaneInv'
  BY DEF SenderInv, SenderTypes, PipeInv, LaneInv, pipeVars
<1>2. UpdateInv' /\ BegunInv'
  BY DEF SenderInv, UpdateInv, BegunInv, Next1, pipeVars
<1>3. CursorsExact' /\ ManifestFirst'
  BY DEF SenderInv, CursorsExact, ManifestFirst
<1> QED  BY <1>1, <1>2, <1>3 DEF SenderInv, pipeVars

LEMMA ReceiverMoves ==
    ASSUME MediaInv, NEW t \in Files,
           ManifestArrives(t) \/ DeleteTheirs(t)
           \/ \E c \in ChunksOf(t) : ChunkArrives(t, c) \/ ChunkSaved(t, c)
    PROVE  MediaInv'
<1>1. SenderInv'
  BY SenderStays DEF MediaInv, ManifestArrives, DeleteTheirs, ChunkArrives, ChunkSaved
<1>2. CASE ManifestArrives(t)
  <2>1. theirs[t] = "none" /\ theirs' = [theirs EXCEPT ![t] = "here"]
        /\ UNCHANGED <<got, saving, raced>>
    BY <1>2 DEF ManifestArrives
  <2> QED  BY <1>1, <2>1 DEF MediaInv, ReceiverInv
<1>3. CASE DeleteTheirs(t)
  <2>1. /\ theirs' = [theirs EXCEPT ![t] = "deleted"] /\ got' = [got EXCEPT ![t] = {}]
        /\ raced \subseteq raced' /\ saving' = saving
        /\ \A c \in ChunksOf(t) : <<t, c>> \in saving => t \in raced'
    BY <1>3 DEF DeleteTheirs
  <2>2. theirs' \in [Files -> {"none", "here", "deleted"}] /\ got' \in [Files -> SUBSET Nat]
        /\ \A u \in Files : u # t => theirs'[u] = theirs[u] /\ got'[u] = got[u]
        /\ got'[t] = {}
    BY <2>1 DEF MediaInv, ReceiverInv
  <2> QED  BY <1>1, <2>1, <2>2 DEF MediaInv, ReceiverInv
<1>4. ASSUME NEW c \in ChunksOf(t), ChunkArrives(t, c) PROVE MediaInv'
  <2>1. theirs[t] = "here" /\ saving' = saving \cup {<<t, c>>} /\ UNCHANGED <<theirs, got, raced>>
    BY <1>4 DEF ChunkArrives
  <2>2. \A u \in Files : \A d \in ChunksOf(u) :
            <<u, d>> \in saving' => <<u, d>> \in saving \/ theirs[u] = "here"
    BY <2>1
  <2> QED  BY <1>1, <2>1, <2>2 DEF MediaInv, ReceiverInv
<1>5. ASSUME NEW c \in ChunksOf(t), ChunkSaved(t, c) PROVE MediaInv'
  <2>1. /\ <<t, c>> \in saving /\ saving' \subseteq saving /\ UNCHANGED <<theirs, raced>>
        /\ got' = [got EXCEPT ![t] = @ \cup {c}]
    BY <1>5 DEF ChunkSaved
  <2>2. c \in Nat  BY FilesAreCounted
  <2>3. got' \in [Files -> SUBSET Nat] /\ got'[t] = got[t] \cup {c}
        /\ \A u \in Files : u # t => got'[u] = got[u]
    BY <2>1, <2>2 DEF MediaInv, ReceiverInv
  <2> QED  BY <1>1, <2>1, <2>3 DEF MediaInv, ReceiverInv
<1> QED  BY <1>2, <1>3, <1>4, <1>5

-----------------------------------------------------------------------------
\* What a step changes is one part of the pipeline at a time.
LEMMA PipeMoves ==
    ASSUME MediaInv, SendFile \/ ManifestSent \/ ManifestFails \/ TransferEnds \/ AllStored
                     \/ StoreFails
    PROVE  MediaInv'
<1>1. ReceiverInv'
  BY ReceiverStays DEF MediaInv, SendFile, ManifestSent, ManifestFails, TransferEnds, AllStored,
                       StoreFails, Untouched, receiverVars
<1>2. CASE SendFile
  <2>1. PICK t : t = filesSent + 1  OBVIOUS
  <2>2. /\ t \in Files /\ filesSent' = t /\ mine' = [mine EXCEPT ![t] = "here"]
        /\ UNCHANGED <<ended, sending, phase, todo, tasks, lane, out, manifest, kept, progress,
                       updates, cut>>
    BY <1>2, <2>1 DEF SendFile, pipeVars
  <2>3. filesSent \in Nat /\ t \notin ended \cup {sending}
    BY <2>1, FilesAreCounted DEF MediaInv, SenderInv, SenderTypes
  <2>4. /\ mine' \in [Files -> {"none", "here", "deleted"}] /\ mine'[t] = "here"
        /\ \A u \in Files : u # t => mine'[u] = mine[u]
    BY <2>2 DEF MediaInv, SenderInv, SenderTypes
  <2>5. \A c \in ChunksOf(t) : out[t][c] = "none"
    BY <2>2, <2>3 DEF MediaInv, SenderInv, BegunInv
  <2>6. SenderTypes'
    <3>1. filesSent' \in 0..Len(Totals) /\ 1..filesSent \subseteq 1..filesSent'
      BY <2>1, <2>2, <2>3, FilesAreCounted
    <3> QED  BY <2>2, <2>4, <3>1 DEF MediaInv, SenderInv, SenderTypes
  <2>7. PipeInv'  BY <2>2, <2>3, <2>4 DEF MediaInv, SenderInv, PipeInv, SenderTypes
  <2>8. LaneInv' /\ UpdateInv'
    BY <2>2 DEF MediaInv, SenderInv, LaneInv, UpdateInv, Next1
  <2>9. BegunInv'  BY <2>2, <2>4 DEF MediaInv, SenderInv, BegunInv
  <2>10. CursorsExact' /\ ManifestFirst'
    BY <2>2, <2>4, <2>5 DEF MediaInv, SenderInv, CursorsExact, ManifestFirst
  <2> QED  BY <1>1, <2>2, <2>4, <2>6, <2>7, <2>8, <2>9, <2>10 DEF MediaInv, SenderInv
<1>3. CASE ManifestSent
  <2>1. PICK t : t = sending  OBVIOUS
  <2>2. /\ phase = "manifest" /\ phase' = "store"
        /\ manifest' = [manifest EXCEPT ![t] = "boxed"] /\ kept' = [kept EXCEPT ![t] = {}]
        /\ UNCHANGED <<filesSent, ended, sending, todo, tasks, lane, out, mine, progress, updates,
                       cut>>
    BY <1>3, <2>1 DEF ManifestSent, Untouched
  <2>3. t \in Files /\ t # 0
    BY <2>1, <2>2, FilesAreCounted DEF MediaInv, SenderInv, SenderTypes, PipeInv
  <2>4. /\ manifest' \in [Files -> {"none", "boxed"}] /\ manifest'[t] = "boxed"
        /\ kept' \in [Files -> SUBSET Nat] /\ kept'[t] = {}
        /\ \A u \in Files : u # t => kept'[u] = kept[u] /\ manifest'[u] = manifest[u]
    BY <2>2, <2>3 DEF MediaInv, SenderInv, SenderTypes
  <2>5. \A c \in ChunksOf(t) : out[t][c] = "none"
    BY <2>1, <2>2, <2>3 DEF MediaInv, SenderInv, BegunInv
  <2>6. SenderTypes'
    BY <2>2, <2>4 DEF MediaInv, SenderInv, SenderTypes
  <2>7. PipeInv'  BY <2>1, <2>2, <2>3, <2>4 DEF MediaInv, SenderInv, PipeInv
  <2>8. LaneInv'  BY <2>2 DEF MediaInv, SenderInv, LaneInv
  <2>9. UpdateInv'  BY <2>2 DEF MediaInv, SenderInv, UpdateInv, Next1
  <2>10. BegunInv'  BY <2>2 DEF MediaInv, SenderInv, BegunInv
  <2>11. CursorsExact'  BY <2>2 DEF MediaInv, SenderInv, CursorsExact
  <2>12. ManifestFirst'  BY <2>2, <2>4, <2>5 DEF MediaInv, SenderInv, ManifestFirst
  <2> QED  BY <1>1, <2>2, <2>4, <2>6, <2>7, <2>8, <2>9, <2>10, <2>11, <2>12 DEF MediaInv, SenderInv
<1>4. CASE ManifestFails \/ TransferEnds
  <2>1. PICK t : t = sending  OBVIOUS
  <2>2. /\ phase \in {"manifest", "settle"} /\ tasks = {} /\ phase' = "none"
        /\ ended' = ended \cup {t} /\ sending' = 0 /\ todo' = {}
        /\ manifest' = manifest \/ manifest' = [manifest EXCEPT ![t] = "boxed"]
        /\ UNCHANGED <<filesSent, tasks, lane, out, mine, kept, progress, updates, cut>>
    BY <1>4, <2>1 DEF ManifestFails, TransferEnds, AllHandled, Leave, Untouched, MediaInv,
                      SenderInv, PipeInv
  <2>3. t \in Files /\ t \in 1..filesSent /\ t # 0
    BY <2>1, <2>2, FilesAreCounted DEF MediaInv, SenderInv, SenderTypes, PipeInv
  <2>4. /\ manifest' \in [Files -> {"none", "boxed"}]
        /\ \A u \in Files : manifest[u] = "boxed" => manifest'[u] = "boxed"
    BY <2>2, <2>3 DEF MediaInv, SenderInv, SenderTypes
  <2>5. SenderTypes'
    BY <2>2, <2>3, <2>4 DEF MediaInv, SenderInv, SenderTypes
  <2>6. 0 \notin ended'
    <3>1. 0 \notin 1..filesSent  BY DEF MediaInv, SenderInv, SenderTypes
    <3> QED  BY <2>2, <2>3, <3>1 DEF MediaInv, SenderInv, SenderTypes
  <2>7. PipeInv'  BY <2>2, <2>6 DEF MediaInv, SenderInv, PipeInv
  <2>8. LaneInv'  BY <2>2 DEF MediaInv, SenderInv, LaneInv
  <2>9. UpdateInv'  BY <2>2 DEF MediaInv, SenderInv, UpdateInv
  <2>10. BegunInv'  BY <2>1, <2>2 DEF MediaInv, SenderInv, BegunInv
  <2>11. CursorsExact'  BY <2>2 DEF MediaInv, SenderInv, CursorsExact
  <2>12. ManifestFirst'  BY <2>2, <2>4 DEF MediaInv, SenderInv, ManifestFirst
  <2>13. \A u \in Files : \A c \in ChunksOf(u) : out[u][c] # "sealing"
    BY <2>2 DEF MediaInv, SenderInv
  <2> QED  BY <1>1, <2>2, <2>5, <2>7, <2>8, <2>9, <2>10, <2>11, <2>12, <2>13 DEF MediaInv, SenderInv
<1>5. CASE AllStored \/ StoreFails
  <2>1. /\ phase = "store" /\ phase' = "settle" /\ todo = {}
        /\ ~\E u \in updates : u.file = sending /\ u.kind = "stored"
        /\ UNCHANGED <<filesSent, ended, sending, todo, tasks, lane, out, manifest, mine, kept,
                       progress, updates, cut>>
    BY <1>5 DEF AllStored, StoreFails, Untouched
  <2>2. SenderTypes' /\ PipeInv' /\ LaneInv'
    BY <2>1 DEF MediaInv, SenderInv, SenderTypes, PipeInv, LaneInv
  <2>3. UpdateInv'  BY <2>1 DEF MediaInv, SenderInv, UpdateInv
  <2>4. BegunInv'  BY <2>1 DEF MediaInv, SenderInv, BegunInv
  <2>5. CursorsExact' /\ ManifestFirst'
    BY <2>1 DEF MediaInv, SenderInv, CursorsExact, ManifestFirst
  <2> QED  BY <1>1, <2>1, <2>2, <2>3, <2>4, <2>5 DEF MediaInv, SenderInv
<1> QED  BY <1>2, <1>3, <1>4, <1>5

LEMMA TransferStarts ==
    ASSUME MediaInv, NEW t \in Files, TransferBegins(t)
    PROVE  MediaInv'
<1>1. ReceiverInv'
  BY ReceiverStays DEF MediaInv, TransferBegins, Untouched, receiverVars
<1>2. PICK begun : begun = [NoProgress EXCEPT !.status = "active"]  OBVIOUS
<1>3. /\ sending = 0 /\ t \in (1..filesSent) \ ended /\ sending' = t /\ phase' = "manifest"
      /\ lane' = FreshLane /\ progress' = [progress EXCEPT ![t] = begun]
      /\ UNCHANGED <<filesSent, ended, todo, tasks, out, manifest, mine, kept, updates, cut>>
  BY <1>2 DEF TransferBegins, Turn, Untouched
<1>4. /\ begun \in Cursors /\ begun.status = "active" /\ begun.acked = -1 /\ begun.early = {}
      /\ begun.through = -1
  BY <1>2 DEF NoProgress, Cursors
<1>5. /\ progress' \in [Files -> Cursors] /\ progress'[t] = begun
      /\ \A u \in Files : u # t => progress'[u] = progress[u]
  BY <1>3, <1>4 DEF MediaInv, SenderInv, SenderTypes
<1>6. /\ FreshLane \in Lanes /\ ~FreshLane.broken /\ FreshLane.size = 1
      /\ Cardinality({}) = 0
  BY MediaAssumption, FS_EmptySet DEF FreshLane, Lanes
<1>7. t # 0 /\ \A c \in ChunksOf(t) : out[t][c] = "none"
  BY <1>3, FilesAreCounted DEF MediaInv, SenderInv, BegunInv
<1>8. /\ phase = "none" /\ tasks = {} /\ todo = {}
  BY <1>3 DEF MediaInv, SenderInv, PipeInv
<1>9. \A u \in updates : u.file \in Files /\ u.file # t /\ u.kind = "acked"
  BY <1>3, <1>7, <1>8 DEF MediaInv, SenderInv, SenderTypes, Updates, UpdateInv
<1>10. SenderTypes'
  BY <1>3, <1>5, <1>6 DEF MediaInv, SenderInv, SenderTypes
<1>11. PipeInv' /\ LaneInv'
  BY <1>3, <1>6, <1>7, <1>8, MediaAssumption DEF MediaInv, SenderInv, PipeInv, LaneInv
<1>12. UpdateInv'
  <2>1. \A u \in updates :
            /\ u.was = progress'[u.file] /\ u.chunk \in ChunksOf(u.file)
            /\ out[u.file][u.chunk] = "boxed" /\ u.kind # "stored"
    BY <1>5, <1>9 DEF MediaInv, SenderInv, UpdateInv
  <2> QED  BY <1>3, <2>1 DEF MediaInv, SenderInv, UpdateInv
<1>13. BegunInv'
  <2>1. \A u \in Files : progress'[u].status # "none" => u \in ended' \cup {sending'}
    BY <1>3, <1>5, <1>8, FilesAreCounted DEF MediaInv, SenderInv, BegunInv
  <2>2. phase' # "none" => progress'[sending'].status # "none"
    BY <1>3, <1>4, <1>5
  <2>3. ASSUME NEW u \in Files, NEW c \in ChunksOf(u),
               progress'[u].status = "none" \/ (phase' = "manifest" /\ u = sending')
        PROVE  out'[u][c] = "none"
    <3>1. CASE u = t  BY <1>3, <1>7, <3>1
    <3>2. CASE u # t
      BY <1>3, <1>5, <2>3, <3>2 DEF MediaInv, SenderInv, BegunInv
    <3> QED  BY <3>1, <3>2
  <2>4. \A u \in Files : mine'[u] = "deleted" => u \in cut' \cup ended'
    BY <1>3 DEF MediaInv, SenderInv, BegunInv
  <2> QED  BY <2>1, <2>2, <2>3, <2>4 DEF BegunInv
<1>14. CursorsExact'
  <2>1. 0..begun.acked = {} /\ 0 \in ChunksOf(t)  BY <1>4, FilesAreCounted
  <2> QED  BY <1>3, <1>4, <1>5, <1>7, <2>1 DEF MediaInv, SenderInv, CursorsExact
<1>15. ManifestFirst'
  BY <1>3, <1>5, <1>7 DEF MediaInv, SenderInv, ManifestFirst
<1>16. \A u \in Files : \A c \in ChunksOf(u) : out[u][c] # "sealing"
  BY <1>8 DEF MediaInv, SenderInv
<1> QED
  BY <1>1, <1>3, <1>10, <1>11, <1>12, <1>13, <1>14, <1>15, <1>16 DEF MediaInv, SenderInv

\* Chunks are written to the disk, and the next of them is about to be marked.
LEMMA ChunksWritten ==
    ASSUME MediaInv, StoreBatch
    PROVE  MediaInv'
<1>1. ReceiverInv'
  BY ReceiverStays DEF MediaInv, StoreBatch, Untouched, receiverVars
<1>2. PICK t : t = sending  OBVIOUS
<1>3. PICK batch : batch = NextBatch(t)  OBVIOUS
<1>4. /\ phase = "store" /\ todo = {} /\ kept' = [kept EXCEPT ![t] = @ \cup batch]
      /\ todo' = batch
      /\ ~\E u \in updates : u.file = sending /\ u.kind = "stored"
      /\ UNCHANGED <<filesSent, ended, sending, phase, tasks, lane, out, manifest, mine, progress,
                     updates, cut>>
  BY <1>2, <1>3 DEF StoreBatch, Untouched
<1>5. t \in Files
  BY <1>2, <1>4, FilesAreCounted DEF MediaInv, SenderInv, SenderTypes, PipeInv
<1>6. batch \subseteq ChunksOf(t) /\ batch \subseteq Nat
      /\ \A c \in batch : c > progress[t].through
  BY <1>3, <1>5, FilesAreCounted DEF NextBatch, Left
<1>7. /\ kept' \in [Files -> SUBSET Nat] /\ kept'[t] = kept[t] \cup batch
      /\ \A u \in Files : u # t => kept'[u] = kept[u]
  BY <1>4, <1>5, <1>6 DEF MediaInv, SenderInv, SenderTypes
<1>8. SenderTypes'
  BY <1>4, <1>6, <1>7 DEF MediaInv, SenderInv, SenderTypes
<1>9. PipeInv'
  BY <1>2, <1>4, <1>5, <1>6, <1>7 DEF MediaInv, SenderInv, PipeInv
<1>10. LaneInv' /\ BegunInv'
  BY <1>4 DEF MediaInv, SenderInv, LaneInv, BegunInv
<1>11. UpdateInv'
  BY <1>4 DEF MediaInv, SenderInv, UpdateInv
<1>12. CursorsExact' /\ ManifestFirst'
  BY <1>4, <1>7 DEF MediaInv, SenderInv, CursorsExact, ManifestFirst
<1>13. \A u \in Files : mine[u] = "deleted" /\ kept'[u] # {} => u \in cut
  <2>1. t \notin ended  BY <1>2 DEF MediaInv, SenderInv, PipeInv
  <2> QED  BY <1>5, <1>7, <2>1 DEF MediaInv, SenderInv, BegunInv
<1> QED
  BY <1>1, <1>4, <1>8, <1>9, <1>10, <1>11, <1>12, <1>13 DEF MediaInv, SenderInv

\* The cursors are read: at no time has a file two updates.
LEMMA CursorsRead ==
    ASSUME MediaInv,
           MarkStored \/ \E t \in Files : \E c \in ChunksOf(t) : AckRead(t, c)
    PROVE  MediaInv'
<1>1. ReceiverInv'
  BY ReceiverStays DEF MediaInv, MarkStored, AckRead, Untouched, receiverVars
<1>2. PICK u \in Updates :
          /\ \A v \in updates : v.file # u.file
          /\ updates' = updates \cup {u} /\ u.was = progress[u.file]
          /\ u.chunk \in ChunksOf(u.file)
          /\ u.kind = "stored" => /\ u.file = sending /\ phase = "store" /\ ~lane.wait
                                  /\ u.chunk \in todo /\ Next1(u.chunk)
          /\ u.kind = "acked" => out[u.file][u.chunk] = "boxed"
  <2>1. ASSUME NEW t \in Files, NEW c \in ChunksOf(t), NEW kind \in {"stored", "acked"},
               Read(t, kind, c),
               kind = "stored" => /\ t = sending /\ phase = "store" /\ ~lane.wait
                                  /\ c \in todo /\ Next1(c),
               kind = "acked" => out[t][c] = "boxed"
        PROVE  \E u \in Updates :
                  /\ \A v \in updates : v.file # u.file
                  /\ updates' = updates \cup {u} /\ u.was = progress[u.file]
                  /\ u.chunk \in ChunksOf(u.file)
                  /\ u.kind = "stored" => /\ u.file = sending /\ phase = "store" /\ ~lane.wait
                                          /\ u.chunk \in todo /\ Next1(u.chunk)
                  /\ u.kind = "acked" => out[u.file][u.chunk] = "boxed"
    <3>1. PICK u : u = [file |-> t, kind |-> kind, chunk |-> c, was |-> progress[t]]  OBVIOUS
    <3>2. u.file = t /\ u.kind = kind /\ u.chunk = c /\ u.was = progress[t]  BY <3>1
    <3>3. c \in Nat /\ progress[t] \in Cursors
      BY FilesAreCounted DEF MediaInv, SenderInv, SenderTypes
    <3>4. u \in Updates  BY <3>1, <3>3 DEF Updates
    <3>5. updates' = updates \cup {u} /\ \A v \in updates : v.file # t
      BY <2>1, <3>1 DEF Read, Locked
    <3> QED  BY <2>1, <3>2, <3>4, <3>5
  <2>2. CASE MarkStored
    <3>1. PICK c \in todo : Next1(c) /\ Read(sending, "stored", c)  BY <2>2 DEF MarkStored
    <3>2. sending \in Files /\ c \in ChunksOf(sending)
      BY <2>2, FilesAreCounted DEF MarkStored, MediaInv, SenderInv, SenderTypes, PipeInv
    <3> QED  BY <2>1, <2>2, <3>1, <3>2 DEF MarkStored
  <2>3. ASSUME NEW t \in Files, NEW c \in ChunksOf(t), AckRead(t, c)
        PROVE  Read(t, "acked", c) /\ out[t][c] = "boxed"
    BY <2>3 DEF AckRead
  <2> QED  BY <2>1, <2>2, <2>3
<1>3. UNCHANGED <<filesSent, ended, sending, phase, todo, tasks, lane, out, manifest, mine, kept,
                  progress, cut>>
  BY DEF MarkStored, AckRead, Untouched, pipeVars
<1>4. SenderTypes' /\ PipeInv' /\ LaneInv'
  BY <1>2, <1>3 DEF MediaInv, SenderInv, SenderTypes, PipeInv, LaneInv
<1>5. UpdateInv'
  BY <1>2, <1>3 DEF MediaInv, SenderInv, UpdateInv, Next1
<1>6. BegunInv' /\ CursorsExact' /\ ManifestFirst'
  BY <1>3 DEF MediaInv, SenderInv, BegunInv, CursorsExact, ManifestFirst
<1> QED  BY <1>1, <1>3, <1>4, <1>5, <1>6 DEF MediaInv, SenderInv

-----------------------------------------------------------------------------
\* One chunk's envelope changes.
ChunkTo(t, c, x) == out' = [out EXCEPT ![t][c] = x]

LEMMA OneChunkMoves ==
    ASSUME SenderTypes, NEW t \in Files, NEW c \in ChunksOf(t), NEW x \in ChunkStates,
           ChunkTo(t, c, x)
    PROVE  /\ DOMAIN out' = Files /\ \A u \in Files : out'[u] \in [ChunksOf(u) -> ChunkStates]
           /\ out'[t][c] = x
           /\ \A u \in Files : \A d \in ChunksOf(u) : u # t \/ d # c => out'[u][d] = out[u][d]
<1>1. PICK o : o = [out[t] EXCEPT ![c] = x]  OBVIOUS
<1>2. out' = [out EXCEPT ![t] = o]  BY <1>1 DEF ChunkTo
<1>3. /\ o \in [ChunksOf(t) -> ChunkStates] /\ o[c] = x
      /\ \A d \in ChunksOf(t) : d # c => o[d] = out[t][d]
  BY <1>1 DEF SenderTypes
<1>4. DOMAIN out = Files  BY DEF SenderTypes
<1>5. DOMAIN out' = Files /\ out'[t] = o /\ \A u \in Files : u # t => out'[u] = out[u]
  BY <1>2, <1>4
<1> QED  BY <1>3, <1>5 DEF SenderTypes

\* A task's window after it has ended well, and after something failed.
LEMMA Windows ==
    ASSUME NEW l \in Lanes
    PROVE  /\ Widened(l) \in Lanes /\ Widened(l).broken = l.broken /\ Widened(l).size >= l.size
           /\ Narrowed(l) \in Lanes /\ Narrowed(l).broken
           /\ ~Widened(l).wait /\ ~Narrowed(l).wait
<1>1. PICK wide : wide = [l EXCEPT !.size = MaxWindow, !.streak = 0, !.wait = FALSE]  OBVIOUS
<1>2. wide \in Lanes /\ wide.broken = l.broken /\ wide.size >= l.size /\ ~wide.wait
  <2>1. MaxWindow \in 1..MaxWindow  BY MediaAssumption
  <2>2. wide \in Lanes  BY <1>1, <2>1 DEF Lanes
  <2>3. wide.broken = l.broken /\ ~wide.wait /\ wide.size = MaxWindow  BY <1>1 DEF Lanes
  <2> QED  BY <2>1, <2>2, <2>3 DEF Lanes
<1>3. PICK streak : streak = IF l.streak < Promotion THEN l.streak + 1 ELSE l.streak  OBVIOUS
<1>4. PICK same : same = [l EXCEPT !.streak = streak, !.wait = FALSE]  OBVIOUS
<1>5. streak \in Nat  BY <1>3 DEF Lanes
<1>6. same \in Lanes /\ same.broken = l.broken /\ same.size = l.size /\ ~same.wait
  BY <1>4, <1>5 DEF Lanes
<1>7. same = [l EXCEPT !.streak = IF @ < Promotion THEN @ + 1 ELSE @, !.wait = FALSE]
  BY <1>3, <1>4
<1>8. Widened(l) = wide \/ Widened(l) = same
  BY <1>1, <1>7 DEF Widened
<1>9. same.size \in Nat /\ l.size \in Nat /\ wide.size \in Nat
  BY <1>2, <1>6, MediaAssumption DEF Lanes
<1>10. Narrowed(l) \in Lanes /\ Narrowed(l).broken /\ ~Narrowed(l).wait
  BY MediaAssumption DEF Narrowed, Lanes
<1> QED  BY <1>2, <1>6, <1>8, <1>9, <1>10

\* A task seals its chunk, or ends.
LEMMA TaskMoves ==
    ASSUME MediaInv, NEW c \in tasks, Boxed(c) \/ TaskEnds(c) \/ SealFails(c)
    PROVE  MediaInv'
<1>1. ReceiverInv'
  BY ReceiverStays DEF MediaInv, Boxed, TaskEnds, SealFails, Untouched, receiverVars
<1>2. PICK t : t = sending  OBVIOUS
<1>3. t \in Files /\ c \in ChunksOf(t) /\ phase \in {"store", "settle"}
  <2>1. phase \in {"store", "settle"} /\ c \in ChunksOf(t)
    BY <1>2 DEF MediaInv, SenderInv, SenderTypes, PipeInv
  <2> QED  BY <1>2, <2>1, FilesAreCounted DEF MediaInv, SenderInv, SenderTypes, PipeInv
<1>4. UNCHANGED <<filesSent, ended, sending, phase, todo, manifest, mine, kept, progress, updates,
                  cut>>
  BY DEF Boxed, TaskEnds, SealFails, Untouched, pipeVars
<1>5. \/ out' = out /\ out[t][c] # "sealing"
      \/ out[t][c] = "sealing" /\ \E x \in {"boxed", "failed"} : out' = [out EXCEPT ![t][c] = x]
  BY <1>2 DEF Boxed, TaskEnds, SealFails
<1>6. /\ DOMAIN out' = Files /\ \A u \in Files : out'[u] \in [ChunksOf(u) -> ChunkStates]
      /\ \A u \in Files : \A d \in ChunksOf(u) :
            \/ out'[u][d] = out[u][d] /\ (u = t /\ d = c => out[u][d] # "sealing")
            \/ /\ out[u][d] = "sealing" /\ u = t /\ d = c
               /\ out'[u][d] \in {"boxed", "failed"}
  <2>1. CASE out' = out /\ out[t][c] # "sealing"
    BY <2>1 DEF MediaInv, SenderInv, SenderTypes
  <2>2. ASSUME NEW x \in {"boxed", "failed"}, out[t][c] = "sealing",
               out' = [out EXCEPT ![t][c] = x]
        PROVE  /\ DOMAIN out' = Files
               /\ \A u \in Files : out'[u] \in [ChunksOf(u) -> ChunkStates]
               /\ out'[t][c] = x
               /\ \A u \in Files : \A d \in ChunksOf(u) : u # t \/ d # c => out'[u][d] = out[u][d]
    <3>1. x \in ChunkStates  BY DEF ChunkStates
    <3>2. SenderTypes /\ ChunkTo(t, c, x)  BY <2>2 DEF MediaInv, SenderInv, ChunkTo
    <3> QED  BY <1>3, <3>1, <3>2, OneChunkMoves
  <2> QED  BY <1>5, <2>1, <2>2
<1>7. /\ tasks' \subseteq tasks /\ lane' \in Lanes
      /\ \/ tasks' = tasks /\ lane' = lane
         \/ tasks' = tasks \ {c} /\ ~lane'.wait
            /\ (lane'.broken \/ (~lane.broken /\ lane'.size >= lane.size))
  <2>1. lane \in Lanes  BY DEF MediaInv, SenderInv, SenderTypes
  <2> QED  BY <2>1, Windows DEF Boxed, TaskEnds, SealFails, pipeVars
<1>8. \A d \in tasks : d # c => d \in tasks'
  BY <1>7
<1>9. IsFiniteSet(tasks') /\ LaneInv'
  <2>1. IsFiniteSet(tasks) /\ lane \in Lanes  BY DEF MediaInv, SenderInv, SenderTypes
  <2>2. Cardinality(tasks \ {c}) = Cardinality(tasks) - 1 /\ IsFiniteSet(tasks \ {c})
        /\ Cardinality(tasks) \in Nat
    BY <2>1, FS_RemoveElement, FS_CardinalityType
  <2>3. CASE tasks' = tasks /\ lane' = lane
    BY <2>1, <2>3 DEF MediaInv, SenderInv, LaneInv
  <2>4. CASE tasks' = tasks \ {c}
    <3>1. lane'.size \in Nat /\ lane.size \in Nat /\ MaxWindow \in Nat
      BY <1>7, <2>1, MediaAssumption DEF Lanes
    <3>2. Cardinality(tasks') < MaxWindow
      BY <2>2, <2>4, <3>1 DEF MediaInv, SenderInv, LaneInv
    <3>3. ~lane'.broken => Cardinality(tasks') < lane'.size
      <4>1. CASE lane' = lane /\ tasks' = tasks
        BY <2>2, <2>4, <4>1
      <4>2. CASE ~lane'.broken /\ ~lane.broken /\ lane'.size >= lane.size
        BY <2>2, <2>4, <3>1, <4>2 DEF MediaInv, SenderInv, LaneInv
      <4> QED  BY <1>7, <4>1, <4>2
    <3>4. Cardinality(tasks') \in Nat  BY <2>2, <2>4, FS_CardinalityType
    <3> QED  BY <2>2, <2>4, <3>1, <3>2, <3>3, <3>4 DEF LaneInv
  <2> QED  BY <1>7, <2>3, <2>4
<1>10. SenderTypes'
  BY <1>4, <1>6, <1>7, <1>9 DEF MediaInv, SenderInv, SenderTypes
<1>11. PipeInv'
  BY <1>4, <1>7 DEF MediaInv, SenderInv, PipeInv
<1>12. UpdateInv'
  <2>1. \A u \in updates : u.kind = "acked" => out'[u.file][u.chunk] = "boxed"
    <3> SUFFICES ASSUME NEW u \in updates, u.kind = "acked"
                 PROVE  out'[u.file][u.chunk] = "boxed"
      OBVIOUS
    <3>1. out[u.file][u.chunk] = "boxed" /\ u.chunk \in ChunksOf(u.file) /\ u.file \in Files
      BY DEF MediaInv, SenderInv, SenderTypes, Updates, UpdateInv
    <3> QED  BY <1>6, <3>1
  <2>2. ~lane.wait => ~lane'.wait  BY <1>7
  <2> QED  BY <1>4, <2>1, <2>2 DEF MediaInv, SenderInv, UpdateInv, Next1
<1>13. BegunInv'
  BY <1>4, <1>6 DEF MediaInv, SenderInv, BegunInv
<1>14. CursorsExact'
  <2>1. \A u \in Files : \A d \in ChunksOf(u) : out'[u][d] = "acked" <=> out[u][d] = "acked"
    BY <1>6
  <2> QED  BY <1>4, <2>1 DEF MediaInv, SenderInv, CursorsExact
<1>15. ManifestFirst'
  BY <1>4, <1>6 DEF MediaInv, SenderInv, ManifestFirst
<1>16. \A u \in Files : \A d \in ChunksOf(u) : out'[u][d] = "sealing" => u = t /\ d \in tasks'
  <2> SUFFICES ASSUME NEW u \in Files, NEW d \in ChunksOf(u), out'[u][d] = "sealing"
               PROVE  u = t /\ d \in tasks'
    OBVIOUS
  <2>1. out[u][d] = "sealing" /\ ~(u = t /\ d = c)
    BY <1>6
  <2>2. u = t /\ d \in tasks  BY <1>2, <2>1 DEF MediaInv, SenderInv
  <2> QED  BY <1>8, <2>1, <2>2
<1> QED
  BY <1>1, <1>2, <1>4, <1>10, <1>11, <1>9, <1>12, <1>13, <1>14, <1>15, <1>16 DEF MediaInv, SenderInv

\* The cursor of what is stored moves, and the chunk is handed to a task.
LEMMA ChunkStored ==
    ASSUME MediaInv, NEW u \in updates, Stored(u)
    PROVE  MediaInv'
<1>1. ReceiverInv'
  BY ReceiverStays DEF MediaInv, Stored, Untouched, receiverVars
<1>2. PICK t, c : t = u.file /\ c = u.chunk  OBVIOUS
<1>3. /\ u \in Updates /\ t \in Files /\ t = sending /\ phase = "store" /\ ~lane.wait
      /\ c \in todo /\ Next1(c) /\ u.was = progress[t] /\ c \in ChunksOf(t)
      /\ \A v \in updates \ {u} : v.file \in Files /\ v.file # t
  BY <1>2 DEF Stored, MediaInv, SenderInv, SenderTypes, UpdateInv, Updates
<1>4. /\ c > progress[t].through /\ (c \in kept[t] \/ mine[t] = "deleted") /\ c \in Nat
      /\ manifest[t] = "boxed" /\ progress[t] \in Cursors /\ progress[t].through \in Int
      /\ \A d \in todo : d \in Nat /\ c <= d
      /\ progress[t].status # "none"
  BY <1>3, FilesAreCounted
  DEF MediaInv, SenderInv, SenderTypes, PipeInv, BegunInv, Next1, Cursors
<1>5. PICK n : n = [progress[t] EXCEPT !.through = c]  OBVIOUS
<1>6. /\ n \in Cursors /\ n.through = c /\ n.acked = progress[t].acked
      /\ n.early = progress[t].early /\ n.status = progress[t].status
  BY <1>4, <1>5 DEF Cursors
<1>7. Written(u.was, u.chunk) = n  BY <1>2, <1>3, <1>4, <1>5 DEF Written
<1>8. /\ updates' = updates \ {u} /\ progress' = [progress EXCEPT ![t] = n]
      /\ todo' = todo \ {c}
      /\ UNCHANGED <<filesSent, ended, sending, phase, manifest, mine, kept, cut>>
      /\ \/ lane.broken /\ UNCHANGED <<tasks, lane, out>>
         \/ /\ ~lane.broken /\ tasks' = tasks \cup {c} /\ out' = [out EXCEPT ![t][c] = "sealing"]
            /\ lane' = IF Cardinality(tasks') < lane.size THEN lane
                       ELSE [lane EXCEPT !.wait = TRUE]
  BY <1>2, <1>3, <1>7 DEF Stored, Untouched
<1>9. /\ progress' \in [Files -> Cursors] /\ progress'[t] = n
      /\ \A v \in Files : v # t => progress'[v] = progress[v]
  BY <1>3, <1>6, <1>8 DEF MediaInv, SenderInv, SenderTypes
<1>10. out[t][c] = "none"
  BY <1>3, <1>4 DEF MediaInv, SenderInv, ManifestFirst
<1>11. /\ DOMAIN out' = Files /\ \A v \in Files : out'[v] \in [ChunksOf(v) -> ChunkStates]
       /\ \A v \in Files : \A d \in ChunksOf(v) :
             out'[v][d] = out[v][d]
             \/ (v = t /\ d = c /\ out'[v][d] = "sealing" /\ d \in tasks')
  <2>1. CASE out' = out  BY <2>1 DEF MediaInv, SenderInv, SenderTypes
  <2>2. CASE out' = [out EXCEPT ![t][c] = "sealing"] /\ c \in tasks'
    <3>1. PICK x \in ChunkStates : x = "sealing"  BY DEF ChunkStates
    <3>2. SenderTypes /\ ChunkTo(t, c, x)
      BY <2>2, <3>1 DEF MediaInv, SenderInv, ChunkTo
    <3>3. /\ DOMAIN out' = Files /\ \A v \in Files : out'[v] \in [ChunksOf(v) -> ChunkStates]
          /\ out'[t][c] = x
          /\ \A v \in Files : \A d \in ChunksOf(v) : v # t \/ d # c => out'[v][d] = out[v][d]
      BY <1>3, <3>2, OneChunkMoves
    <3> QED  BY <2>2, <3>1, <3>3
  <2> QED  BY <1>8, <2>1, <2>2
<1>12. /\ tasks \subseteq tasks' /\ tasks' \subseteq tasks \cup {c} /\ IsFiniteSet(tasks')
       /\ lane' \in Lanes /\ LaneInv'
  <2>1. IsFiniteSet(tasks) /\ lane \in Lanes  BY DEF MediaInv, SenderInv, SenderTypes
  <2>2. CASE lane.broken /\ UNCHANGED <<tasks, lane, out>>
    BY <2>1, <2>2 DEF MediaInv, SenderInv, LaneInv
  <2>3. CASE /\ ~lane.broken /\ tasks' = tasks \cup {c}
             /\ lane' = IF Cardinality(tasks') < lane.size THEN lane
                        ELSE [lane EXCEPT !.wait = TRUE]
    <3>1. /\ IsFiniteSet(tasks') /\ Cardinality(tasks') <= Cardinality(tasks) + 1
          /\ Cardinality(tasks) \in Nat /\ Cardinality(tasks') \in Nat
      <4>1. IsFiniteSet(tasks \cup {c})
            /\ Cardinality(tasks \cup {c}) = IF c \in tasks THEN Cardinality(tasks)
                                             ELSE Cardinality(tasks) + 1
        BY <2>1, FS_AddElement
      <4>2. Cardinality(tasks) \in Nat  BY <2>1, FS_CardinalityType
      <4> QED  BY <2>3, <4>1, <4>2
    <3>2. Cardinality(tasks) < lane.size
      BY <1>3, <2>3 DEF MediaInv, SenderInv, LaneInv
    <3>3. lane.size \in 1..MaxWindow /\ MaxWindow \in Nat  BY <2>1, MediaAssumption DEF Lanes
    <3>4. /\ lane' \in Lanes /\ lane'.size = lane.size /\ lane'.broken = lane.broken
          /\ ~lane'.wait => Cardinality(tasks') < lane.size
      <4>1. CASE lane' = lane /\ Cardinality(tasks') < lane.size
        BY <2>1, <4>1
      <4>2. CASE lane' = [lane EXCEPT !.wait = TRUE]
        BY <2>1, <4>2 DEF Lanes
      <4> QED  BY <2>3, <4>1, <4>2
    <3>6. Cardinality(tasks') <= lane.size  BY <3>1, <3>2, <3>3
    <3>7. ~lane'.wait => Cardinality(tasks') < lane.size  BY <3>1, <3>3, <3>4
    <3>8. Cardinality(tasks') <= MaxWindow  BY <3>1, <3>3, <3>6
    <3>9. LaneInv'  BY <3>4, <3>6, <3>7, <3>8 DEF LaneInv
    <3> QED  BY <2>3, <3>1, <3>4, <3>9
  <2> QED  BY <1>8, <2>2, <2>3
<1>13. SenderTypes'
  <2>1. todo' \subseteq Nat /\ tasks' \subseteq Nat /\ updates' \subseteq Updates
    BY <1>4, <1>8, <1>12 DEF MediaInv, SenderInv, SenderTypes
  <2> QED  BY <1>8, <1>9, <1>11, <1>12, <2>1 DEF MediaInv, SenderInv, SenderTypes
<1>14. PipeInv'
  <2>1. \A d \in todo' : d \in Nat /\ d > c  BY <1>4, <1>8
  <2>2. tasks' \subseteq ChunksOf(t)
    BY <1>3, <1>12 DEF MediaInv, SenderInv, PipeInv
  <2> QED  BY <1>3, <1>6, <1>8, <1>9, <2>1, <2>2 DEF MediaInv, SenderInv, PipeInv
<1>15. UpdateInv'
  <2> SUFFICES ASSUME NEW v \in updates \ {u}
               PROVE  /\ v.was = progress'[v.file] /\ v.chunk \in ChunksOf(v.file)
                      /\ v.kind # "stored"
                      /\ v.kind = "acked" => out'[v.file][v.chunk] = "boxed"
    BY <1>8 DEF MediaInv, SenderInv, UpdateInv
  <2>1. v.was = progress[v.file] /\ v.chunk \in ChunksOf(v.file) /\ v.kind # "stored"
        /\ (v.kind = "acked" => out[v.file][v.chunk] = "boxed")
    BY <1>3 DEF MediaInv, SenderInv, UpdateInv
  <2> QED  BY <1>3, <1>9, <1>11, <2>1
<1>16. BegunInv'
  <2>1. ASSUME NEW v \in Files, progress'[v].status = "none"
        PROVE  v # t /\ progress[v].status = "none"
    BY <1>4, <1>6, <1>9, <2>1
  <2>2. \A v \in Files : progress'[v].status = progress[v].status
    BY <1>6, <1>9
  <2>3. ASSUME NEW v \in Files, NEW d \in ChunksOf(v),
               progress'[v].status = "none" \/ (phase' = "manifest" /\ v = sending')
        PROVE  out'[v][d] = "none"
    BY <1>3, <1>8, <1>11, <2>1, <2>3 DEF MediaInv, SenderInv, BegunInv
  <2> QED  BY <1>3, <1>8, <2>2, <2>3 DEF MediaInv, SenderInv, BegunInv
<1>17. CursorsExact'
  <2>1. \A v \in Files : \A d \in ChunksOf(v) : out'[v][d] = "acked" <=> out[v][d] = "acked"
    BY <1>10, <1>11
  <2>2. \A v \in Files : /\ progress'[v].status = progress[v].status
                         /\ progress'[v].acked = progress[v].acked
                         /\ progress'[v].early = progress[v].early
    BY <1>6, <1>9
  <2> QED  BY <2>1, <2>2 DEF MediaInv, SenderInv, CursorsExact
<1>18. ManifestFirst'
  <2> SUFFICES ASSUME NEW v \in Files, NEW d \in ChunksOf(v), out'[v][d] # "none"
               PROVE  /\ manifest[v] = "boxed" /\ (d \in kept[v] \/ mine[v] = "deleted")
                      /\ d <= progress'[v].through
    BY <1>8 DEF ManifestFirst
  <2>1. CASE v = t /\ d = c  BY <1>4, <1>6, <1>9, <2>1
  <2>2. CASE ~(v = t /\ d = c)
    <3>1. /\ manifest[v] = "boxed" /\ (d \in kept[v] \/ mine[v] = "deleted")
          /\ d <= progress[v].through
      BY <1>11, <2>2 DEF MediaInv, SenderInv, ManifestFirst
    <3>2. d \in Nat  BY FilesAreCounted
    <3> QED  BY <1>4, <1>6, <1>9, <3>1, <3>2
  <2> QED  BY <2>1, <2>2
<1>19. \A v \in Files : \A d \in ChunksOf(v) : out'[v][d] = "sealing" => v = t /\ d \in tasks'
  BY <1>3, <1>11, <1>12 DEF MediaInv, SenderInv
<1> QED
  BY <1>1, <1>3, <1>8, <1>12, <1>13, <1>14, <1>15, <1>16, <1>17, <1>18, <1>19
  DEF MediaInv, SenderInv

-----------------------------------------------------------------------------
\* Where the acknowledged chunks join: what was acknowledged early and is not beyond that point
\* is before it, and the transfer is complete exactly when nothing is missing.
LEMMA AcksJoin ==
    ASSUME NEW t \in Files, NEW was \in Cursors, NEW c \in ChunksOf(t), NEW acks,
           acks \subseteq ChunksOf(t), c \notin acks, (0..was.acked) \cup was.early = acks,
           was.status = "complete" <=> acks = ChunksOf(t),
           NEW through \in JoinTo(t, was, c)
    PROVE  LET n == Acked(t, was, c, through)
           IN  /\ n \in Cursors /\ n.through = was.through
               /\ (0..n.acked) \cup n.early = acks \cup {c}
               /\ n.status = "complete" <=> acks \cup {c} = ChunksOf(t)
               /\ n.status # "complete" => n.status = was.status
<1>1. PICK early : early = Early(was, c)  OBVIOUS
<1>2. PICK n : n = Acked(t, was, c, through)  OBVIOUS
<1>3. /\ was.acked \in Nat \cup {-1} /\ was.early \subseteq Nat /\ c \in Nat
      /\ was.status \in {"none", "active", "complete"}
      /\ \A d : d \in ChunksOf(t) <=> d \in Nat /\ d < Totals[t]
      /\ Totals[t] \in Nat \ {0}
  BY FilesAreCounted DEF Cursors
<1>4. c > was.acked /\ early = was.early \cup {c}
  BY <1>1, <1>3 DEF Early
<1>5. /\ through \in Nat \cup {-1} /\ was.acked <= through /\ through <= Totals[t] - 1
      /\ was.acked + 1..through \subseteq early /\ through + 1 \notin early
  BY <1>1, <1>3 DEF JoinTo
<1>6. PICK status : status = IF through = Totals[t] - 1 THEN "complete" ELSE was.status  OBVIOUS
<1>7. n = [was EXCEPT !.acked = through, !.early = {d \in early : d > through}, !.status = status]
  BY <1>1, <1>2, <1>6 DEF Acked
<1>8. status \in {"none", "active", "complete"} /\ {d \in early : d > through} \in SUBSET Nat
  BY <1>3, <1>4, <1>6
<1>9. /\ n \in Cursors /\ n.through = was.through /\ n.acked = through
      /\ n.early = {d \in early : d > through} /\ n.status = status
  BY <1>5, <1>7, <1>8 DEF Cursors
<1>10. (0..through) \cup {d \in early : d > through} = acks \cup {c}
  <2>1. ASSUME NEW d \in 0..through PROVE d \in acks \cup {c}
    <3>1. d \in 0..was.acked \/ d \in was.acked + 1..through  BY <1>3, <1>5
    <3> QED  BY <1>4, <1>5, <3>1
  <2>2. ASSUME NEW d \in acks \cup {c} PROVE d \in 0..through \/ (d \in early /\ d > through)
    <3>1. d \in Nat  BY <1>3
    <3>2. d \in 0..was.acked \/ d \in early  BY <1>4
    <3> QED  BY <1>3, <1>5, <3>1, <3>2
  <2>3. early \subseteq acks \cup {c}  BY <1>4
  <2> QED  BY <2>1, <2>2, <2>3
<1>11. status = "complete" <=> acks \cup {c} = ChunksOf(t)
  <2>1. CASE through = Totals[t] - 1
    <3>1. ChunksOf(t) \subseteq 0..through  BY <1>3, <2>1
    <3>2. acks \cup {c} \subseteq ChunksOf(t)  OBVIOUS
    <3> QED  BY <1>6, <1>10, <2>1, <3>1, <3>2
  <2>2. CASE through # Totals[t] - 1
    <3>1. was.status # "complete"  OBVIOUS
    <3>2. acks \cup {c} # ChunksOf(t)
      <4>1. through + 1 \in ChunksOf(t) \/ through + 1 < 0  BY <1>3, <1>5, <2>2
      <4>2. through + 1 \notin acks \cup {c}
        <5>1. through + 1 \notin 0..through /\ through + 1 \notin {d \in early : d > through}
          BY <1>5
        <5> QED  BY <1>10, <5>1
      <4>3. through + 1 >= 0  BY <1>3, <1>5
      <4> QED  BY <1>5, <4>1, <4>2, <4>3
    <3> QED  BY <1>6, <2>2, <3>1, <3>2
  <2> QED  BY <2>1, <2>2
<1> QED  BY <1>2, <1>6, <1>9, <1>10, <1>11

\* An acknowledgement is written: no other was between its reading and this.
LEMMA AckCounted ==
    ASSUME MediaInv, NEW u \in updates, AckWritten(u)
    PROVE  MediaInv'
<1>1. ReceiverInv'
  BY ReceiverStays DEF MediaInv, AckWritten, Untouched, receiverVars
<1>2. PICK t, c : t = u.file /\ c = u.chunk  OBVIOUS
<1>3. /\ u \in Updates /\ t \in Files /\ u.was = progress[t] /\ c \in ChunksOf(t)
      /\ out[t][c] = "boxed" /\ progress[t] \in Cursors
      /\ \A v \in updates \ {u} : v.file \in Files /\ v.file # t
  BY <1>2 DEF AckWritten, MediaInv, SenderInv, SenderTypes, UpdateInv, Updates
<1>4. progress[t].status # "none" /\ ~(phase = "manifest" /\ t = sending)
  BY <1>3 DEF MediaInv, SenderInv, BegunInv
<1>5. PICK through \in JoinTo(t, progress[t], c) :
          progress' = [progress EXCEPT ![t] = Acked(t, progress[t], c, through)]
  BY <1>2, <1>3 DEF AckWritten
<1>6. PICK acks : acks = {d \in ChunksOf(t) : out[t][d] = "acked"}  OBVIOUS
<1>7. PICK n : n = Acked(t, progress[t], c, through)  OBVIOUS
<1>8. /\ n \in Cursors /\ n.through = progress[t].through
      /\ (0..n.acked) \cup n.early = acks \cup {c}
      /\ n.status = "complete" <=> acks \cup {c} = ChunksOf(t)
      /\ n.status # "complete" => n.status = progress[t].status
  <2>1. acks \subseteq ChunksOf(t) /\ c \notin acks  BY <1>3, <1>6
  <2>2. (0..progress[t].acked) \cup progress[t].early = acks
    BY <1>3, <1>4, <1>6 DEF MediaInv, SenderInv, CursorsExact
  <2>3. progress[t].status = "complete" <=> acks = ChunksOf(t)
    <3>1. progress[t].status = "complete" <=> \A d \in ChunksOf(t) : out[t][d] = "acked"
      BY <1>3, <1>4 DEF MediaInv, SenderInv, CursorsExact
    <3> QED  BY <1>6, <3>1
  <2> QED  BY <1>3, <1>7, <2>1, <2>2, <2>3, AcksJoin
<1>9. n.status # "none"  BY <1>4, <1>8
<1>10. /\ updates' = updates \ {u} /\ progress' = [progress EXCEPT ![t] = n]
       /\ out' = [out EXCEPT ![t][c] = "acked"]
       /\ UNCHANGED <<filesSent, ended, sending, phase, todo, tasks, lane, manifest, mine, kept,
                      cut>>
  BY <1>2, <1>5, <1>7 DEF AckWritten, Untouched, pipeVars
<1>11. /\ progress' \in [Files -> Cursors] /\ progress'[t] = n
       /\ \A v \in Files : v # t => progress'[v] = progress[v]
  BY <1>3, <1>8, <1>10 DEF MediaInv, SenderInv, SenderTypes
<1>12. /\ DOMAIN out' = Files /\ \A v \in Files : out'[v] \in [ChunksOf(v) -> ChunkStates]
       /\ out'[t][c] = "acked"
       /\ \A v \in Files : \A d \in ChunksOf(v) : v # t \/ d # c => out'[v][d] = out[v][d]
  <2>1. PICK x \in ChunkStates : x = "acked"  BY DEF ChunkStates
  <2>2. SenderTypes /\ ChunkTo(t, c, x)
    BY <1>10, <2>1 DEF MediaInv, SenderInv, ChunkTo
  <2> QED  BY <1>3, <2>1, <2>2, OneChunkMoves
<1>13. SenderTypes'
  BY <1>10, <1>11, <1>12 DEF MediaInv, SenderInv, SenderTypes
<1>14. \A v \in Files : progress'[v].through = progress[v].through
  BY <1>8, <1>11
<1>15. PipeInv'
  <2>1. sending \in Files \/ todo = {}
    BY FilesAreCounted DEF MediaInv, SenderInv, SenderTypes, PipeInv
  <2> QED  BY <1>10, <1>14, <2>1 DEF MediaInv, SenderInv, PipeInv
<1>16. LaneInv'  BY <1>10 DEF MediaInv, SenderInv, LaneInv
<1>17. UpdateInv'
  <2>1. ASSUME NEW v \in updates \ {u}
        PROVE  v.was = progress'[v.file] /\ (v.kind = "acked" => out'[v.file][v.chunk] = "boxed")
    <3>1. /\ v.was = progress[v.file] /\ v.chunk \in ChunksOf(v.file)
          /\ v.kind = "acked" => out[v.file][v.chunk] = "boxed"
      BY DEF MediaInv, SenderInv, UpdateInv
    <3> QED  BY <1>3, <1>11, <1>12, <3>1
  <2> QED  BY <1>10, <2>1 DEF MediaInv, SenderInv, UpdateInv, Next1
<1>18. BegunInv'
  <2>1. \A v \in Files : progress'[v].status = "none" <=> progress[v].status = "none"
    BY <1>4, <1>9, <1>11
  <2>2. phase' # "none" => progress'[sending'].status # "none"
    <3>1. phase # "none" => sending \in Files
      BY FilesAreCounted DEF MediaInv, SenderInv, SenderTypes, PipeInv
    <3> QED  BY <1>10, <2>1, <3>1 DEF MediaInv, SenderInv, BegunInv
  <2>3. ASSUME NEW v \in Files, NEW d \in ChunksOf(v),
               progress'[v].status = "none" \/ (phase' = "manifest" /\ v = sending')
        PROVE  out'[v][d] = "none"
    <3>1. v # t  BY <1>4, <1>9, <1>10, <1>11, <2>3
    <3> QED  BY <1>10, <1>12, <2>1, <2>3, <3>1 DEF MediaInv, SenderInv, BegunInv
  <2> QED  BY <1>10, <2>1, <2>2, <2>3 DEF MediaInv, SenderInv, BegunInv
<1>19. CursorsExact'
  <2> SUFFICES ASSUME NEW v \in Files, progress'[v].status # "none"
               PROVE  /\ (0..progress'[v].acked) \cup progress'[v].early
                             = {d \in ChunksOf(v) : out'[v][d] = "acked"}
                      /\ progress'[v].status = "complete"
                             <=> \A d \in ChunksOf(v) : out'[v][d] = "acked"
    BY DEF CursorsExact
  <2>1. CASE v = t
    <3>1. {d \in ChunksOf(t) : out'[t][d] = "acked"} = acks \cup {c}
      BY <1>3, <1>6, <1>12
    <3>2. (\A d \in ChunksOf(t) : out'[t][d] = "acked") <=> acks \cup {c} = ChunksOf(t)
      BY <3>1
    <3> QED  BY <1>8, <1>11, <2>1, <3>1, <3>2
  <2>2. CASE v # t
    <3>1. \A d \in ChunksOf(v) : out'[v][d] = out[v][d]  BY <1>12, <2>2
    <3>2. progress'[v] = progress[v]  BY <1>11, <2>2
    <3> QED  BY <3>1, <3>2 DEF MediaInv, SenderInv, CursorsExact
  <2> QED  BY <2>1, <2>2
<1>20. ManifestFirst'
  BY <1>3, <1>10, <1>12, <1>14 DEF MediaInv, SenderInv, ManifestFirst
<1>21. \A v \in Files : \A d \in ChunksOf(v) : out'[v][d] = "sealing" => v = sending /\ d \in tasks
  BY <1>12 DEF MediaInv, SenderInv
<1> QED
  BY <1>1, <1>10, <1>13, <1>15, <1>16, <1>17, <1>18, <1>19, <1>20, <1>21 DEF MediaInv, SenderInv

-----------------------------------------------------------------------------
\* The sender deletes the message, or the program ends.
LEMMA MineDeleted ==
    ASSUME MediaInv, NEW t \in Files, DeleteMine(t)
    PROVE  MediaInv'
<1>1. ReceiverInv'
  BY ReceiverStays DEF MediaInv, DeleteMine, receiverVars
<1>2. /\ mine' = [mine EXCEPT ![t] = "deleted"] /\ kept' = [kept EXCEPT ![t] = {}]
      /\ cut \subseteq cut' /\ t \in ended \cup cut'
      /\ UNCHANGED <<filesSent, ended, sending, phase, todo, tasks, lane, out, manifest, progress,
                     updates>>
  BY DEF DeleteMine, pipeVars
<1>3. /\ mine' \in [Files -> {"none", "here", "deleted"}] /\ mine'[t] = "deleted"
      /\ kept' \in [Files -> SUBSET Nat] /\ kept'[t] = {}
      /\ \A u \in Files : u # t => mine'[u] = mine[u] /\ kept'[u] = kept[u]
  BY <1>2 DEF MediaInv, SenderInv, SenderTypes
<1>4. SenderTypes'  BY <1>2, <1>3 DEF MediaInv, SenderInv, SenderTypes
<1>5. PipeInv'
  <2>1. sending \in Files \/ todo = {}
    BY FilesAreCounted DEF MediaInv, SenderInv, SenderTypes, PipeInv
  <2> QED  BY <1>2, <1>3, <2>1 DEF MediaInv, SenderInv, PipeInv
<1>6. LaneInv' /\ UpdateInv' /\ CursorsExact'
  BY <1>2 DEF MediaInv, SenderInv, LaneInv, UpdateInv, Next1, CursorsExact
<1>7. BegunInv'  BY <1>2, <1>3 DEF MediaInv, SenderInv, BegunInv
<1>8. ManifestFirst'  BY <1>2, <1>3 DEF MediaInv, SenderInv, ManifestFirst
<1>9. \A u \in Files : mine'[u] = "deleted" /\ kept'[u] # {} => u \in cut'
  BY <1>2, <1>3 DEF MediaInv, SenderInv
<1> QED  BY <1>1, <1>2, <1>4, <1>5, <1>6, <1>7, <1>8, <1>9 DEF MediaInv, SenderInv

LEMMA ProgramEnded ==
    ASSUME MediaInv, MediaEnd
    PROVE  MediaInv'
<1>1. ReceiverInv'
  BY ReceiverStays DEF MediaInv, MediaEnd, receiverVars
<1>2. /\ ended' = 1..filesSent /\ sending' = 0 /\ phase' = "none" /\ todo' = {} /\ tasks' = {}
      /\ lane' = FreshLane /\ updates' = {}
      /\ UNCHANGED <<filesSent, manifest, mine, kept, progress, cut>>
      /\ out' = [t \in Files |-> [c \in ChunksOf(t) |->
                    IF out[t][c] = "sealing" THEN "failed" ELSE out[t][c]]]
  BY DEF MediaEnd
<1>3. \A t \in Files : out'[t] = [c \in ChunksOf(t) |->
                                     IF out[t][c] = "sealing" THEN "failed" ELSE out[t][c]]
      /\ DOMAIN out' = Files
  BY <1>2
<1>4. \A t \in Files : \A c \in ChunksOf(t) :
          /\ out[t][c] \in ChunkStates
          /\ out'[t][c] = IF out[t][c] = "sealing" THEN "failed" ELSE out[t][c]
  <2> SUFFICES ASSUME NEW t \in Files, NEW c \in ChunksOf(t)
               PROVE  /\ out[t][c] \in ChunkStates
                      /\ out'[t][c] = IF out[t][c] = "sealing" THEN "failed" ELSE out[t][c]
    OBVIOUS
  <2>1. out[t] \in [ChunksOf(t) -> ChunkStates]  BY DEF MediaInv, SenderInv, SenderTypes
  <2>2. out[t][c] \in ChunkStates  BY <2>1
  <2>3. out'[t][c] = IF out[t][c] = "sealing" THEN "failed" ELSE out[t][c]  BY <1>3
  <2> QED  BY <2>2, <2>3
<1>5. \A t \in Files : out'[t] \in [ChunksOf(t) -> ChunkStates]
  <2> SUFFICES ASSUME NEW t \in Files PROVE out'[t] \in [ChunksOf(t) -> ChunkStates]
    OBVIOUS
  <2>1. PICK o : o = [c \in ChunksOf(t) |->
                         IF out[t][c] = "sealing" THEN "failed" ELSE out[t][c]]
    OBVIOUS
  <2>2. \A c \in ChunksOf(t) : o[c] \in ChunkStates  BY <1>4, <2>1 DEF ChunkStates
  <2>3. o \in [ChunksOf(t) -> ChunkStates]  BY <2>1, <2>2
  <2> QED  BY <1>3, <2>1, <2>3
<1>6. /\ FreshLane \in Lanes /\ FreshLane.size = 1
      /\ Cardinality({}) = 0 /\ IsFiniteSet({})
  BY MediaAssumption, FS_EmptySet DEF FreshLane, Lanes
<1>7. SenderTypes'
  BY <1>2, <1>3, <1>5, <1>6 DEF MediaInv, SenderInv, SenderTypes
<1>8. PipeInv' /\ LaneInv' /\ UpdateInv'
  <2>1. 0 \notin 1..filesSent  BY DEF MediaInv, SenderInv, SenderTypes
  <2> QED  BY <1>2, <1>6, <2>1, MediaAssumption DEF PipeInv, LaneInv, UpdateInv
<1>9. BegunInv'
  <2>1. \A t \in Files : progress[t].status # "none" => t \in 1..filesSent
    BY FilesAreCounted DEF MediaInv, SenderInv, SenderTypes, BegunInv
  <2>2. \A t \in Files : mine[t] = "deleted" => t \in cut \cup 1..filesSent
    BY DEF MediaInv, SenderInv, SenderTypes, BegunInv
  <2>3. \A t \in Files : progress[t].status = "none" => \A c \in ChunksOf(t) : out'[t][c] = "none"
    BY <1>4 DEF MediaInv, SenderInv, BegunInv
  <2> QED  BY <1>2, <2>1, <2>2, <2>3 DEF BegunInv
<1>10. CursorsExact'
  <2>1. \A t \in Files : \A c \in ChunksOf(t) : out'[t][c] = "acked" <=> out[t][c] = "acked"
    BY <1>4
  <2> QED  BY <1>2, <2>1 DEF MediaInv, SenderInv, CursorsExact
<1>11. ManifestFirst'  BY <1>2, <1>4 DEF MediaInv, SenderInv, ManifestFirst
<1>12. \A t \in Files : \A c \in ChunksOf(t) : out'[t][c] # "sealing"  BY <1>4
<1> QED  BY <1>1, <1>2, <1>7, <1>8, <1>9, <1>10, <1>11, <1>12 DEF MediaInv, SenderInv

LEMMA MediaStep ==
    ASSUME MediaInv, [MediaNext]_mediaVars
    PROVE  MediaInv'
<1>1. CASE UNCHANGED mediaVars
  BY <1>1, SenderStays, ReceiverStays DEF mediaVars, receiverVars, pipeVars, MediaInv
<1> QED
  BY <1>1, PipeMoves, TransferStarts, ChunksWritten, CursorsRead, TaskMoves, ChunkStored,
     AckCounted, ReceiverMoves, MineDeleted, ProgramEnded DEF MediaNext

LEMMA MediaIsSound == ASSUME MediaInv PROVE MediaSound
<1>1. IsFiniteSet(Files) /\ Cardinality(Files) = Len(Totals)
  <2>1. PICK n \in Nat : n = Len(Totals) /\ Files = 1..n  BY FilesAreCounted
  <2>2. 1 \in Int /\ n \in Int  OBVIOUS
  <2>3. IsFiniteSet(1..n) /\ Cardinality(1..n) = IF 1 > n THEN 0 ELSE n - 1 + 1
    BY <2>2, FS_Interval
  <2> QED  BY <2>1, <2>3
<1>2. MediaTypeOK
  BY <1>1, FilesAreCounted DEF MediaTypeOK, MediaInv, SenderInv, SenderTypes, ReceiverInv, Lanes
<1>3. LanesKept
  BY DEF LanesKept, MediaInv, SenderInv, PipeInv, LaneInv
<1>4. OrphansHaveCause
  BY DEF OrphansHaveCause, MediaInv, SenderInv, ReceiverInv
<1> QED  BY <1>2, <1>3, <1>4 DEF MediaSound, MediaInv, SenderInv

-----------------------------------------------------------------------------
(***************************************************************************)
(* The components together: of these four one moves, or none.              *)
(***************************************************************************)
TogetherInv == PairingInv /\ DirectInv /\ LinkInv /\ MediaInv

LEMMA TogetherStarts == ASSUME KeptInit PROVE TogetherInv
  BY PairingStarts, DirectStarts, LinkStarts, MediaStarts DEF KeptInit, TogetherInv

LEMMA TogetherStep ==
    ASSUME TogetherInv,
           [KeptNext]_<<part, vars, routerVars, convVars, mediaVars, linkVars, pairingVars,
                        directVars, vaultVars, installVars>>
    PROVE  TogetherInv'
<1>1. /\ [PairingNext]_pairingVars /\ [DirectNext]_directVars
      /\ [LinkNext]_linkVars /\ [MediaNext]_mediaVars
  BY DEF KeptNext, Rest
<1> QED  BY <1>1, PairingStep, DirectStep, LinkStep, MediaStep DEF TogetherInv

\* However requests, results, timeouts and the user's clicks interleave: a code is used for one
\* request at most, and a guest that shows itself linked has been approved (devicePairing.ts,
\* useDeviceSyncSettings.ts).  However signals are lost, repeated or late: no candidate that was
\* handled is left behind, nothing is sent in a form that the other device does not know, and a
\* session that was stopped has a connection only by a poll of its own (directP2PTransport.ts).
THEOREM DevicesHold == KeptSpec => []DevicesSound
<1>1. KeptInit => TogetherInv  BY TogetherStarts
<1>2. TogetherInv /\ [KeptNext]_<<part, vars, routerVars, convVars, mediaVars, linkVars,
                                  pairingVars, directVars, vaultVars, installVars>>
      => TogetherInv'
  BY TogetherStep
<1>3. TogetherInv => DevicesSound
  BY PairingIsSound, DirectIsSound DEF TogetherInv, DevicesSound
<1> QED  BY <1>1, <1>2, <1>3, PTL DEF KeptSpec

\* However many files, chunks, lanes and batches there are, and whenever acknowledgements come,
\* messages are deleted or the program ends: the cursors are those of the acknowledged chunks, the
\* lanes are kept, and a chunk follows its message (App.tsx, mediaTransferStore.ts).  However the
\* attempts, flushes, sends and disconnects of a conversation interleave: what was given to it is
\* handed over or waits, and is handed over twice only after a fault (transportManager.ts).
THEOREM MessagesHold == KeptSpec => []MessagesSound
<1>1. KeptInit => TogetherInv  BY TogetherStarts
<1>2. TogetherInv /\ [KeptNext]_<<part, vars, routerVars, convVars, mediaVars, linkVars,
                                  pairingVars, directVars, vaultVars, installVars>>
      => TogetherInv'
  BY TogetherStep
<1>3. TogetherInv => MessagesSound
  BY MediaIsSound, LinkIsSound DEF TogetherInv, MessagesSound
<1> QED  BY <1>1, <1>2, <1>3, PTL DEF KeptSpec
=============================================================================
