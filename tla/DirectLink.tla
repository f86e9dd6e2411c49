----------------------------- MODULE DirectLink -----------------------------
(***************************************************************************)
(* Two devices that are being paired open a direct connection              *)
(* (devices/devicePairing.ts from line 420, net/rendezvousSignaling.ts,    *)
(* adapters/transports/directP2PTransport.ts and packetCodec.ts).          *)
(*                                                                         *)
(* The host publishes an offer, the guest answers, and each publishes the  *)
(* candidates that its WebRTC connection finds.  Every signal is a request *)
(* of its own to the rendezvous relay, so they arrive in any order; a side *)
(* polls with the largest time it has seen, and handles what one poll      *)
(* brought all at once.  The channel, once open, carries capabilities      *)
(* first; a packet goes out in the binary form when the peer has said that *)
(* it understands it.                                                      *)
(*                                                                         *)
(* Abstracted: codes and descriptions (a signal is its kind), the relay's  *)
(* limit of 50 items, the delays of polls, the channel for files.          *)
(***************************************************************************)
EXTENDS Integers, Sequences, FiniteSets

CONSTANTS
    MaxIce,       \* bound: candidates of a side
    MaxSignalFaults \* bound: failing requests and signals that cannot be handled

ASSUME SignalAssumption == MaxIce \in Nat /\ MaxSignalFaults \in Nat

Sides == {"host", "guest"}
Other(s) == IF s = "host" THEN "guest" ELSE "host"
Signals == {"offer", "answer", "ice"}
NoPc == [there |-> FALSE, local |-> FALSE, remote |-> FALSE, waiting |-> {}, added |-> {}]

VARIABLES
    sessionOn,   \* activeRef
    setup,       \* the host's start: "start", "offer", "publish", "done"
    pc,          \* peerConnection with pendingIce and the candidates that were added
    made,        \* the signals of a side, in the order of their times
    atRelay,     \* those of them that have arrived
    after,       \* afterTs: how far into the peer's signals a side has polled
    polling,     \* "idle", "asked", "handling"
    accepts,     \* the peer's signals that a side handles
    capable,     \* this version of the program knows the binary form
    channel,     \* "none", "made", "open", "closed"
    told,        \* binaryPacketSupported
    wire,        \* what a side has sent that the peer has not received
    handled, late,  \* history: the signals a side took up; stopped with a poll under way
    signalFaults

sigVars == <<made, atRelay, after, polling, accepts, handled>>
chanVars == <<channel, told, wire>>
directVars == <<sessionOn, setup, pc, sigVars, capable, chanVars, late, signalFaults>>

DirectTypeOK ==
    /\ setup \in {"start", "offer", "publish", "done"}
    /\ \A s \in Sides :
          /\ made[s] \in Seq(Signals) /\ after[s] \in 0..Len(made[Other(s)])
          /\ \A set \in {accepts[s], handled[s], pc[s].waiting, pc[s].added} :
                set \subseteq DOMAIN made[Other(s)]
          /\ polling[s] \in {"idle", "asked", "handling"} /\ told[s] \in BOOLEAN
          /\ channel[s] \in {"none", "made", "open", "closed"}
          /\ wire[s] \in Seq({"caps", "text", "binary"})

SignalFault == signalFaults < MaxSignalFaults /\ signalFaults' = signalFaults + 1
Make(s, signal) == made' = [made EXCEPT ![s] = Append(@, signal)]

-----------------------------------------------------------------------------
\* The host: start, createOfferCode, publish.
HostStarts ==
    /\ setup = "start" /\ sessionOn["host"]
    /\ setup' = "offer"
    /\ pc' = [pc EXCEPT !["host"].there = TRUE]
    /\ channel' = [channel EXCEPT !["host"] = "made"]
    /\ UNCHANGED <<sessionOn, sigVars, capable, told, wire, late, signalFaults>>

\* A connection that was closed meanwhile takes no description: the start ends.
OfferMade ==
    /\ setup = "offer"
    /\ IF pc["host"].there
       THEN Make("host", "offer") /\ pc' = [pc EXCEPT !["host"].local = TRUE] /\ setup' = "publish"
       ELSE setup' = "done" /\ UNCHANGED <<made, pc>>
    /\ UNCHANGED <<sessionOn, atRelay, after, polling, accepts, handled, capable, chanVars, late,
                   signalFaults>>

\* A candidate is found once there is a local description; a stopped session keeps it.
IceFound(s) ==
    /\ pc[s].there /\ pc[s].local /\ sessionOn[s]
    /\ Cardinality({i \in DOMAIN made[s] : made[s][i] = "ice"}) < MaxIce
    /\ Make(s, "ice")
    /\ UNCHANGED <<sessionOn, setup, pc, atRelay, after, polling, accepts, handled, capable,
                   chanVars, late, signalFaults>>

\* Requests of one side overtake each other, and may fail.
Published(s, i) ==
    /\ i \in DOMAIN made[s] \ atRelay[s]
    /\ atRelay' = [atRelay EXCEPT ![s] = @ \cup {i}]
    /\ setup' = IF made[s][i] = "offer" THEN "done" ELSE setup
    /\ UNCHANGED <<sessionOn, pc, made, after, polling, accepts, handled, capable, chanVars, late,
                   signalFaults>>

-----------------------------------------------------------------------------
PollAsked(s) ==
    /\ sessionOn[s] /\ polling[s] = "idle"
    /\ polling' = [polling EXCEPT ![s] = "asked"]
    /\ UNCHANGED <<sessionOn, setup, pc, made, atRelay, after, accepts, handled, capable, chanVars,
                   late, signalFaults>>

\* What a poll brings is handled although the session may have been stopped meanwhile: every
\* signal starts the transport again.
PollAnswered(s) ==
    LET fresh == {i \in atRelay[Other(s)] : i > after[s]}
    IN  /\ polling[s] = "asked"
        /\ \E last \in {after[s]} \cup fresh :
              (\A i \in fresh : i <= last) /\ after' = [after EXCEPT ![s] = last]
        /\ accepts' = [accepts EXCEPT ![s] = @ \cup fresh]
        /\ handled' = [handled EXCEPT ![s] = @ \cup fresh]
        /\ polling' = [polling EXCEPT ![s] = IF fresh = {} THEN "idle" ELSE "handling"]
        /\ pc' = [pc EXCEPT ![s].there = @ \/ fresh # {}]
        /\ UNCHANGED <<sessionOn, setup, made, atRelay, capable, chanVars, late, signalFaults>>

PollFails(s) ==
    /\ polling[s] = "asked" /\ SignalFault
    /\ polling' = [polling EXCEPT ![s] = "idle"]
    /\ UNCHANGED <<sessionOn, setup, pc, made, atRelay, after, accepts, handled, capable, chanVars,
                   late>>

AllAccepted(s) ==
    /\ polling[s] = "handling" /\ accepts[s] = {}
    /\ polling' = [polling EXCEPT ![s] = "idle"]
    /\ UNCHANGED <<sessionOn, setup, pc, made, atRelay, after, accepts, handled, capable, chanVars,
                   late, signalFaults>>

NotFlushed(p) == [p EXCEPT !.remote = TRUE]

\* flushPendingIce, once a description of the peer is set.
Flushed(p) == [p EXCEPT !.remote = TRUE, !.added = @ \cup p.waiting, !.waiting = {}]

Accepts(s, i, signal) == i \in accepts[s] /\ made[Other(s)][i] = signal
Done(s, i) == accepts' = [accepts EXCEPT ![s] = @ \ {i}]
Handling == <<sessionOn, setup, atRelay, after, polling, handled, capable, chanVars, late>>

OfferSet(s, i) ==
    /\ Accepts(s, i, "offer") /\ pc[s].there /\ ~pc[s].remote
    /\ pc' = [pc EXCEPT ![s] = Flushed(@)]
    /\ UNCHANGED <<accepts, made, signalFaults, Handling>>

\* The answer is only published by a session that goes on.
AnswerMade(s, i) ==
    /\ Accepts(s, i, "offer") /\ pc[s].there /\ pc[s].remote /\ ~pc[s].local
    /\ pc' = [pc EXCEPT ![s].local = TRUE]
    /\ IF sessionOn[s] THEN Make(s, "answer") ELSE UNCHANGED made
    /\ Done(s, i)
    /\ UNCHANGED <<signalFaults, Handling>>

AnswerSet(s, i) ==
    /\ Accepts(s, i, "answer") /\ pc[s].there /\ pc[s].local /\ ~pc[s].remote
    /\ pc' = [pc EXCEPT ![s] = Flushed(@)]
    /\ Done(s, i)
    /\ UNCHANGED <<made, signalFaults, Handling>>

WithCandidate(p, i) ==
    IF p.remote THEN [p EXCEPT !.added = @ \cup {i}] ELSE [p EXCEPT !.waiting = @ \cup {i}]

IceTaken(s, i) ==
    /\ Accepts(s, i, "ice") /\ pc[s].there
    /\ pc' = [pc EXCEPT ![s] = WithCandidate(@, i)]
    /\ Done(s, i)
    /\ UNCHANGED <<made, signalFaults, Handling>>

\* A signal that cannot be handled: the poll that brought it gives up the others to themselves.
AcceptFails(s, i) ==
    /\ i \in accepts[s]
    /\ \/ SignalFault
       \/ UNCHANGED signalFaults
          /\ \/ ~pc[s].there
             \/ Accepts(s, i, "answer") /\ (~pc[s].local \/ pc[s].remote)
    /\ Done(s, i)
    /\ polling' = [polling EXCEPT ![s] = IF @ = "handling" THEN "idle" ELSE @]
    /\ UNCHANGED <<sessionOn, setup, pc, made, atRelay, after, handled, capable, chanVars, late>>

-----------------------------------------------------------------------------
\* A channel that opens sends what the program can do, unless it is an older one.
Hello(s) == IF capable[s] THEN <<"caps">> ELSE <<>>

Negotiated == \A s \in Sides : pc[s].there /\ pc[s].local /\ pc[s].remote

ChannelOpens(s) ==
    /\ Negotiated /\ channel["host"] \in {"made", "open"}
    /\ channel[s] = IF s = "host" THEN "made" ELSE "none"
    /\ channel' = [channel EXCEPT ![s] = "open"]
    /\ told' = [told EXCEPT ![s] = FALSE]
    /\ wire' = [wire EXCEPT ![s] = Hello(s)]
    /\ UNCHANGED <<sessionOn, setup, pc, sigVars, capable, late, signalFaults>>

\* The answer to capabilities repeats nothing: they were sent when the channel opened.
DataReceived(s) ==
    /\ channel[s] = "open" /\ wire[Other(s)] # <<>>
    /\ told' = [told EXCEPT ![s] = @ \/ (Head(wire[Other(s)]) = "caps" /\ capable[s])]
    /\ wire' = [wire EXCEPT ![Other(s)] = Tail(@)]
    /\ UNCHANGED <<sessionOn, setup, pc, sigVars, capable, channel, late, signalFaults>>

FormOf(s) == IF told[s] THEN "binary" ELSE "text"

PacketSent(s) ==
    /\ channel[s] = "open" /\ Len(wire[s]) < 2
    /\ wire' = [wire EXCEPT ![s] = Append(@, FormOf(s))]
    /\ UNCHANGED <<sessionOn, setup, pc, sigVars, capable, channel, told, late, signalFaults>>

ChannelCloses(s) ==
    /\ channel[s] = "open" /\ channel[Other(s)] # "open"
    /\ channel' = [channel EXCEPT ![s] = "closed"] /\ wire' = [wire EXCEPT ![s] = <<>>]
    /\ UNCHANGED <<sessionOn, setup, pc, sigVars, capable, told, late, signalFaults>>

\* The session is stopped: the transport forgets connection, channels and candidates.
SessionStops(s) ==
    /\ sessionOn[s]
    /\ sessionOn' = [sessionOn EXCEPT ![s] = FALSE]
    /\ late' = [late EXCEPT ![s] = polling[s] = "asked"]
    /\ pc' = [pc EXCEPT ![s] = NoPc]
    /\ channel' = [channel EXCEPT ![s] = "closed"]
    /\ told' = [told EXCEPT ![s] = FALSE] /\ wire' = [wire EXCEPT ![s] = <<>>]
    /\ UNCHANGED <<setup, sigVars, capable, signalFaults>>

DirectInit ==
    /\ sessionOn = [s \in Sides |-> TRUE] /\ setup = "start" /\ pc = [s \in Sides |-> NoPc]
    /\ made = [s \in Sides |-> <<>>] /\ atRelay = [s \in Sides |-> {}]
    /\ after = [s \in Sides |-> 0] /\ polling = [s \in Sides |-> "idle"]
    /\ accepts = [s \in Sides |-> {}] /\ handled = [s \in Sides |-> {}]
    /\ capable \in [Sides -> BOOLEAN] /\ channel = [s \in Sides |-> "none"]
    /\ told = [s \in Sides |-> FALSE] /\ wire = [s \in Sides |-> <<>>]
    /\ late = [s \in Sides |-> FALSE] /\ signalFaults = 0

DirectNext ==
    \/ HostStarts \/ OfferMade
    \/ \E s \in Sides :
          \/ IceFound(s) \/ PollAsked(s) \/ PollAnswered(s) \/ PollFails(s) \/ AllAccepted(s)
          \/ ChannelOpens(s) \/ DataReceived(s) \/ PacketSent(s) \/ ChannelCloses(s)
          \/ SessionStops(s)
          \/ \E i \in DOMAIN made[s] : Published(s, i)
          \/ \E i \in accepts[s] : \/ OfferSet(s, i) \/ AnswerMade(s, i) \/ AnswerSet(s, i)
                                   \/ IceTaken(s, i) \/ AcceptFails(s, i)

DirectSpec == DirectInit /\ [][DirectNext]_directVars

-----------------------------------------------------------------------------
\* A candidate that came before the description, or beside it in the same poll, is added once
\* the description is set: none that was handled without an error is left behind.
NoCandidateLost ==
    \A s \in Sides :
        /\ pc[s].waiting # {} => ~pc[s].remote
        /\ sessionOn[s] /\ signalFaults = 0 =>
              \A i \in handled[s] \ (accepts[s] \cup pc[s].waiting \cup pc[s].added) :
                  made[Other(s)][i] # "ice"

\* Nothing is sent in the binary form to a program that does not know it.
BinaryUnderstood ==
    \A s \in Sides : (\E n \in DOMAIN wire[s] : wire[s][n] = "binary") => capable[Other(s)]

\* A stopped session has a connection again only by a poll that was under way when it stopped.
LeftoverHasCause == \A s \in Sides : pc[s].there => sessionOn[s] \/ late[s]

DirectSound == DirectTypeOK /\ NoCandidateLost /\ BinaryUnderstood /\ LeftoverHasCause
=============================================================================
