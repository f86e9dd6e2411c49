------------------------------ MODULE MCKept -------------------------------
(***************************************************************************)
(* The components that keep something for later, for TLC: the store of the *)
(* worker that receives files, the router that is asked with what waits in *)
(* the outbox, the keys and events of a conversation, the files sent in    *)
(* one, its transport and what waits for it, the devices that were paired  *)
(* and how two of them connect, the vault, the versions of Tor on disk.    *)
(*                                                                         *)
(* They share no variable here.  A behaviour is one of one component,      *)
(* which `part` names, while the others stay in their initial states.  Of  *)
(* the router there are two: "router" is its calls, "listener" the starts  *)
(* and stops of whoever listens; what they share only grows.               *)
(***************************************************************************)
EXTENDS MCReceiveStore, Router, Conversation, MediaTransfer, ConversationLink,
        DevicePairing, DirectLink, Vault, OnionInstall

CONSTANTS p1, g1, g2, c1, r1, r2

OnePayload == {p1}
TwoGuests  == {g1, g2}
OneCode    == {c1}
TwoRecords == {r1, r2}
TwoFiles   == <<2, 1>>

VARIABLE part  \* the component of this behaviour

KeptInit ==
    /\ part \in {"receive", "router", "listener", "conversation", "media", "link", "pairing",
                 "direct", "vault", "install"}
    /\ Init /\ RouterInit /\ ConvInit /\ MediaInit /\ LinkInit
    /\ PairingInit /\ DirectInit /\ VaultInit /\ InstallInit
    /\ part \notin {"router", "listener"} => ~learnt
    /\ part # "receive" => dir.final = [n \in Names |-> NoFile]
    /\ part # "direct" => capable = [s \in Sides |-> TRUE]
    /\ part # "install" => pointer = 0

\* The components but one stay as they are.
Rest(p) ==
    /\ p # "receive" => UNCHANGED vars
    /\ p \notin {"router", "listener"} => UNCHANGED routerVars
    /\ p # "conversation" => UNCHANGED convVars
    /\ p # "media" => UNCHANGED mediaVars
    /\ p # "link" => UNCHANGED linkVars
    /\ p # "pairing" => UNCHANGED pairingVars
    /\ p # "direct" => UNCHANGED directVars
    /\ p # "vault" => UNCHANGED vaultVars
    /\ p # "install" => UNCHANGED installVars

KeptNext ==
    /\ UNCHANGED part /\ Rest(part)
    /\ \/ part = "receive" /\ Next
       \/ part = "router" /\ RouterNext /\ UNCHANGED inboundVars
       \/ part = "listener" /\ RouterNext /\ UNCHANGED callVars
       \/ part = "conversation" /\ ConvNext
       \/ part = "media" /\ MediaNext
       \/ part = "link" /\ LinkNext
       \/ part = "pairing" /\ PairingNext
       \/ part = "direct" /\ DirectNext
       \/ part = "vault" /\ VaultNext
       \/ part = "install" /\ InstallNext

KeptSpec ==
    /\ KeptInit
    /\ [][KeptNext]_<<part, vars, routerVars, convVars, mediaVars, linkVars, pairingVars, directVars,
                      vaultVars, installVars>>

\* What a conversation's files and its transport keep, and what the user's devices do.
MessagesSound == MediaSound /\ LinkSound
DevicesSound == PairingSound /\ DirectSound
=============================================================================
