----------------------------- MODULE MCArriving -----------------------------
(***************************************************************************)
(* What arrives, for TLC: the inbox with the polled device and another     *)
(* one, two messages of different lengths; a group of three whose members  *)
(* tell each other what they do; two sides that greet each other; messages *)
(* that are forwarded, or queued when that fails; read receipts; and the   *)
(* messages of a conversation through hydrations and deletions.            *)
(*                                                                         *)
(* They share no variable: a behaviour is one of one of them, which `part` *)
(* names, while the others stay in their initial states.  Of the receipts  *)
(* there are two: "reading" is what the reader does; "told" is what the    *)
(* peer does when the reader has mailed all it can, in whatever order and  *)
(* however often that arrives.  All they share is what is mailed.  Of the  *)
(* forwarding, too: the worker may die ("forward"), or its proxies be      *)
(* cleared ("cleared").  The names of the hydrations do not matter.        *)
(***************************************************************************)
EXTENDS OnionInbox, Groups, Handshake, Forward, ReadCursors, ChatHistory

CONSTANTS own, other, small, large, u1, u2, u3, d1, m1, h1, h2

TwoDevices == {own, other}
TwoIds     == {small, large}
Sizes      == [id \in Ids |-> IF id = small THEN 1 ELSE 2]
Three      == {u1, u2, u3}
Alike      == Permutations(Hydrations)
TwoRoles   == {[device |-> d1, ts |-> 1], [device |-> d1, ts |-> 2]}

VARIABLE part  \* the component of this behaviour

\* The reader has read everything, has told of each message, and rests.
AllMailed ==
    /\ newest = MaxTs /\ receipts = TRUE /\ viewCursor = MaxTs /\ viewed = Stamps
    /\ stored = [d \in Owners |-> IF d = "reader" THEN MaxTs ELSE 0]
    /\ read = [d \in Owners |-> IF d = "reader" THEN Stamps ELSE {}]
    /\ puts = [d \in Owners |-> [s \in Puts |-> Free]]
    /\ cooling = FALSE /\ timer = "off" /\ pending = 0 /\ sentTs = MaxTs /\ leaving = {}
    /\ mailed = Stamps /\ applied = {} /\ heard = 0
    /\ restarts = 0 /\ raced = FALSE /\ causes = {} /\ cut = {}

ArrivingInit ==
    /\ part \in {"inbox", "groups", "handshake", "forward", "cleared", "reading", "told",
                 "history"}
    /\ Init /\ GroupInit /\ HandshakeInit /\ ForwardInit
    /\ IF part = "told" THEN AllMailed ELSE CursorInit
    /\ HistoryInit /\ (part # "history" => mine = {})

\* What is not of part p rests.
Rests(p) ==
    /\ part = p /\ UNCHANGED part
    /\ p # "inbox" => UNCHANGED vars
    /\ p # "groups" => UNCHANGED groupVars
    /\ p # "handshake" => UNCHANGED handshakeVars
    /\ p \notin {"forward", "cleared"} => UNCHANGED fwdVars
    /\ p \notin {"reading", "told"} => UNCHANGED cursorVars
    /\ p # "history" => UNCHANGED chatVars

ArrivingNext ==
    \/ Rests("inbox") /\ Next
    \/ Rests("groups") /\ GroupNext
    \/ Rests("handshake") /\ HandshakeNext
    \/ Rests("forward") /\ ForwardNext /\ UNCHANGED clears
    \/ Rests("cleared") /\ ForwardNext /\ UNCHANGED deaths
    \/ Rests("reading") /\ ReaderNext
    \/ Rests("told") /\ PeerNext
    \/ Rests("history") /\ HistoryNext

ArrivingSpec ==
    /\ ArrivingInit
    /\ [][ArrivingNext]_<<part, vars, groupVars, handshakeVars, fwdVars, cursorVars, chatVars>>

\* What users tell each other, and how it is sent.
BetweenUsersSound == GroupsSound /\ HandshakeSound /\ ForwardSound

\* What a conversation shows of its messages, and of their being read.
ChatSound == CursorsSound /\ HistorySound
=============================================================================
