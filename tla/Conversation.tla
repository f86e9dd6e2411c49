---------------------------- MODULE Conversation ----------------------------
(***************************************************************************)
(* A conversation of two devices: what the interface encrypts and sends    *)
(* (sendDirectEnvelope in app/App.tsx), the ratchet of version 2           *)
(* (crypto/ratchet.ts), and what the receiving engine does with an         *)
(* envelope (applyEnvelopeEvents in sync/syncEngine.ts).                   *)
(*                                                                         *)
(* Everything that was sent may arrive at any time: late, out of order,    *)
(* more than once, or never.  Envelopes are ingested concurrently: one is  *)
(* opened with a ratchet state that is written back some awaits later,     *)
(* with sends and other envelopes in between, and the program may end at   *)
(* any of them.                                                            *)
(*                                                                         *)
(* Keys are terms: a chain key is its root, the side of the derivation and *)
(* how often it was advanced, a root the secrets mixed into it, a shared   *)
(* secret the two public keys, and an envelope opens if the keys are the   *)
(* same term.  Signatures are good and bodies are messages or chunks.  The *)
(* ratchet of version 1 and the key without one are left out: the sender   *)
(* falls back to them only when its store fails.                           *)
(***************************************************************************)
EXTENDS Naturals, Sequences, FiniteSets

CONSTANTS
    MaxSent,      \* bound: envelopes of device "a"
    MaxReplies,   \* ... and of device "b"
    MaxSkip,      \* how far a chain is advanced for one envelope (50)
    RotateEvery,  \* envelopes of a device under one key pair (50)
    MaxOpening,   \* bound: envelopes a device ingests at a time
    MaxConvEnds       \* bound: ends of the program

ASSUME ConversationAssumption ==
    /\ MaxSent \in Nat /\ MaxReplies \in Nat /\ MaxSkip \in Nat /\ RotateEvery \in Nat \ {0}
    /\ MaxOpening \in Nat /\ MaxConvEnds \in Nat

VARIABLES
    sent,     \* the envelopes of each device, numbered by their lamport
    ratchet,  \* the stored state of each device's ratchet
    ingests,  \* envelopes that are opened but not yet applied
    convSeen,     \* perConvLamportSeen, for the other device; it is not stored
    events,   \* the lamports of the other device in the event log
    convShown,    \* ... in the messages and the media
    opened, failed,  \* history: ... that were opened, or could not be, ever
    convEnds

convVars == <<sent, ratchet, ingests, convSeen, events, convShown, opened, failed, convEnds>>

BothDevices == {"a", "b"}
Peer(d) == CHOOSE other \in BothDevices : other # d
Bound(d) == IF d = "a" THEN MaxSent ELSE MaxReplies

-----------------------------------------------------------------------------
(***************************************************************************)
(* The ratchet.                                                            *)
(***************************************************************************)

NoDhKey == <<"none", 0>>
Chain(root, side) == [root |-> root, side |-> side, turns |-> 0]
Advanced(chain, n) == [chain EXCEPT !.turns = @ + n]

\* getOrInitDhRatchetState: both devices begin with the same chain, for both directions.
FirstState(d) ==
    [rk |-> <<>>, self |-> <<d, 1>>, remote |-> NoDhKey, mode |-> "sym", sendI |-> 0, recvI |-> 0,
     sendCk |-> Chain(<<>>, "init"), recvCk |-> Chain(<<>>, "init")]

\* dhStep: who receives takes the two chains the other way round.
Stepped(s, pub) == Append(s.rk, {s.self, pub})
StepToSend(s) ==
    [s EXCEPT !.rk = Stepped(s, s.remote), !.sendCk = Chain(Stepped(s, s.remote), "send"),
              !.sendI = 0, !.mode = "dh"]
StepToReceive(s, pub) ==
    [s EXCEPT !.rk = Stepped(s, pub), !.sendCk = Chain(Stepped(s, pub), "recv"), !.sendI = 0,
              !.recvCk = Chain(Stepped(s, pub), "send"), !.recvI = 0,
              !.remote = pub, !.mode = "dh"]

\* nextSendDhKey: the first step once the peer's key is known, a new key pair now and then.
Rotated(s) ==
    LET fresh == [s EXCEPT !.self[2] = @ + 1, !.sendI = 0]
    IN  IF s.sendI < RotateEvery THEN s ELSE IF s.remote = NoDhKey THEN fresh ELSE StepToSend(fresh)
ToSend(s) == Rotated(IF s.remote # NoDhKey /\ s.mode = "sym" THEN StepToSend(s) ELSE s)

\* deriveRecvKeyAtIndex, and the state that is written if the envelope opens.
Reaches(s, i) == s.recvI <= i /\ i - s.recvI <= MaxSkip
KeyAfter(s, i) == Advanced(s.recvCk, i + 1 - s.recvI)
KeyAt(s, i) == Advanced(s.recvCk, i - s.recvI)
After(s, i, pub) ==
    [s EXCEPT !.recvCk = Advanced(s.recvCk, i - s.recvI + 1), !.recvI = i + 1, !.remote = pub]

\* tryRecvDhKey: the present state is tried first, then the one a step further; the first
\* that reaches the index is taken.
Candidates(s, envelope) ==
    IF s.remote # envelope.dh \/ s.mode = "sym" THEN {s, StepToReceive(s, envelope.dh)} ELSE {s}
Taken(s, envelope) ==
    IF Reaches(s, envelope.i) THEN {s} ELSE {c \in Candidates(s, envelope) : Reaches(c, envelope.i)}

-----------------------------------------------------------------------------
(***************************************************************************)
(* sendDirectEnvelope.                                                     *)
(***************************************************************************)

\* The sends of a conversation wait for each other.
SendEnvelope(d, kind) ==
    LET state == ToSend(ratchet[d])
    IN  /\ Len(sent[d]) < Bound(d)
        /\ kind = "chunk" => sent[d] # <<>> /\ sent[d][1].kind = "message"
        /\ sent' = [sent EXCEPT ![d] = Append(@, [kind |-> kind, dh |-> state.self,
                                                  i |-> state.sendI, key |-> state.sendCk])]
        /\ ratchet' = [ratchet EXCEPT ![d] = [state EXCEPT !.sendCk = Advanced(@, 1),
                                                           !.sendI = @ + 1]]
        /\ UNCHANGED <<ingests, convSeen, events, convShown, opened, failed, convEnds>>

-----------------------------------------------------------------------------
(***************************************************************************)
(* applyEnvelopeEvents for one envelope.                                   *)
(***************************************************************************)

\* An envelope that is not newer than the newest one is taken for a replay, and one that
\* is in the log is known.
IsReplay(d, lamport) == lamport <= convSeen[d]
Newer(d, lamport) == IF lamport > convSeen[d] THEN lamport ELSE convSeen[d]

KnownEvent(d, lamport) ==
    /\ lamport \in events[d] /\ ~IsReplay(d, lamport)
    /\ convSeen' = [convSeen EXCEPT ![d] = Newer(d, lamport)]
    /\ UNCHANGED <<sent, ratchet, ingests, events, convShown, opened, failed, convEnds>>

\* The first state that reaches the index has the key, or the envelope does not open; it
\* is forgotten then, as is one that no state reaches ("deferred").
SeenWhenRead(d, lamport) == convSeen' = [convSeen EXCEPT ![d] = Newer(d, lamport)]
SeenLater(d, lamport) == UNCHANGED convSeen

OpenEnvelope(d, lamport) ==
    LET envelope == sent[Peer(d)][lamport]
        taken == Taken(ratchet[d], envelope)
        right == {c \in taken : KeyAt(c, envelope.i) = envelope.key}
    IN  /\ ~IsReplay(d, lamport) /\ lamport \notin events[d]
        /\ Cardinality({o \in ingests : o.to = d}) < MaxOpening
        /\ SeenLater(d, lamport)
        /\ IF right # {}
           THEN /\ ingests' = ingests \cup
                       {[to |-> d, lamport |-> lamport, step |-> "commit",
                         state |-> After(c, envelope.i, envelope.dh)] : c \in right}
                /\ opened' = [opened EXCEPT ![d] = @ \cup {lamport}]
                /\ UNCHANGED failed
           ELSE /\ failed' = [failed EXCEPT ![d] = @ \cup IF taken = {} THEN {} ELSE {lamport}]
                /\ UNCHANGED <<ingests, opened>>
        /\ UNCHANGED <<sent, ratchet, events, convShown, convEnds>>

Goes(o, step) == ingests' = (ingests \ {o}) \cup {[o EXCEPT !.step = step]}

\* The state is written back as it was read, without a look at what is stored now.
CommitRatchet(o) ==
    /\ o.step = "commit"
    /\ ratchet' = [ratchet EXCEPT ![o.to] = o.state]
    /\ Goes(o, "store")
    /\ UNCHANGED <<sent, convSeen, events, convShown, opened, failed, convEnds>>

\* persistAppliedEnvelope; chunks are not logged.
Kind(o) == sent[Peer(o.to)][o.lamport].kind
StoreEvent(o) ==
    /\ o.step = "store"
    /\ events' = [events EXCEPT ![o.to] = @ \cup IF Kind(o) = "chunk" THEN {} ELSE {o.lamport}]
    /\ convSeen' = [convSeen EXCEPT ![o.to] = Newer(o.to, o.lamport)]
    /\ Goes(o, "apply")
    /\ UNCHANGED <<sent, ratchet, convShown, opened, failed, convEnds>>

\* applyMessageEvent, saveReceivedMessageMediaChunk: a chunk without its manifest is
\* refused.
AnyChunk(o) == TRUE
Accepted(o) == Kind(o) = "chunk" => 1 \in convShown[o.to]

ApplyBody(o) ==
    /\ o.step = "apply"
    /\ convShown' = [convShown EXCEPT ![o.to] = @ \cup IF Accepted(o) THEN {o.lamport} ELSE {}]
    /\ ingests' = ingests \ {o}
    /\ UNCHANGED <<sent, ratchet, convSeen, events, opened, failed, convEnds>>

\* The program ends and starts again.
ConvRestart(d) ==
    /\ convEnds < MaxConvEnds
    /\ convEnds' = convEnds + 1
    /\ ingests' = {o \in ingests : o.to # d}
    /\ convSeen' = [convSeen EXCEPT ![d] = 0]
    /\ UNCHANGED <<sent, ratchet, events, convShown, opened, failed>>

ConvInit ==
    /\ sent = [d \in BothDevices |-> <<>>]
    /\ ratchet = [d \in BothDevices |-> FirstState(d)]
    /\ ingests = {}
    /\ convSeen = [d \in BothDevices |-> 0]
    /\ events = [d \in BothDevices |-> {}] /\ convShown = [d \in BothDevices |-> {}]
    /\ opened = [d \in BothDevices |-> {}] /\ failed = [d \in BothDevices |-> {}]
    /\ convEnds = 0

ConvNext ==
    \/ \E d \in BothDevices :
        \/ \E kind \in {"message", "chunk"} : SendEnvelope(d, kind)
        \/ \E lamport \in DOMAIN sent[Peer(d)] : KnownEvent(d, lamport) \/ OpenEnvelope(d, lamport)
        \/ ConvRestart(d)
    \/ \E o \in ingests : CommitRatchet(o) \/ StoreEvent(o) \/ ApplyBody(o)

ConvSpec == ConvInit /\ [][ConvNext]_convVars

-----------------------------------------------------------------------------
\* As long as only one device writes, and has not changed its key pair, an envelope meets a
\* wrong key only if it or a newer one was opened before, in whatever order envelopes come,
\* are opened together and are written back.  (Once the other answers: `ReplyOpens`.)
OneWayOpens ==
    \A d \in BothDevices :
        sent[d] = <<>> /\ Len(sent[Peer(d)]) <= RotateEvery =>
            \A lamport \in failed[d] : \E other \in opened[d] : other >= lamport

\* The filter against replays is moved by envelopes alone that have been opened: one that
\* is refused, deferred or not signed hides nothing.
SeenWasOpened == \A d \in BothDevices : convSeen[d] > 0 => convSeen[d] \in opened[d]

\* No chunk is kept without the message that describes it, and nothing is shown that was
\* not opened.
ChunksHaveManifest ==
    \A d \in BothDevices :
        /\ convShown[d] \subseteq opened[d]
        /\ \A lamport \in convShown[d] :
               sent[Peer(d)][lamport].kind = "chunk" => 1 \in convShown[d]

\* docs/manual-two-device-checklist.md: a chat message in the reverse direction is sent
\* during a transfer, and the chat remains usable.  Of two devices that have sent one
\* envelope each, none meets a wrong key with an envelope it has not opened before.
ReplyOpens ==
    \A d \in BothDevices :
        Len(sent[d]) = 1 /\ Len(sent[Peer(d)]) = 1 /\ convEnds = 0 => failed[d] \subseteq opened[d]

\* The ratchet, the newest lamport and the stored events of a conversation agree.
ConversationSound == OneWayOpens /\ SeenWasOpened /\ ChunksHaveManifest
=============================================================================
