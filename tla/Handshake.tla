------------------------------ MODULE Handshake ------------------------------
(***************************************************************************)
(* How two sides greet each other on a conversation (HELLO and ACK of      *)
(* sync/syncEngine.ts), and what waits for it: the changes of the roles of *)
(* a device (devices/deviceRegistry.ts) that the second side tells the     *)
(* first, which are put off until its capabilities are known.              *)
(*                                                                         *)
(* A frame is handled by a handler of its own, in steps between which      *)
(* other handlers, connections and disconnections run.  What a connection  *)
(* begins with, the context of the peer, it empties; the registry is read, *)
(* changed and written as a whole.                                         *)
(*                                                                         *)
(* Abstracted: signatures (a frame that does not fit is dropped), legacy   *)
(* peers without capabilities, the content of profiles; an answer's nonce  *)
(* is the one of the greeting, and a nonce is remembered for good.         *)
(***************************************************************************)
EXTENDS Integers, FiniteSets, Sequences

CONSTANTS
    RoleEvents,         \* what the second side tells: [device, ts], ts also ordering the epochs
    MaxConnects,        \* bound: connections of both
    MaxHandshakeFaults  \* bound: frames lost or repeated, nonces expired, writes that fail, restarts

ASSUME HandshakeAssumption ==
    /\ MaxConnects \in Nat /\ MaxHandshakeFaults \in Nat
    /\ IsFiniteSet(RoleEvents) /\ \A e \in RoleEvents : e.ts \in Nat
    /\ \A e, f \in RoleEvents : e.ts = f.ts => e = f

VARIABLES
    known,      \* peerContexts: the capabilities of the peer are in the context of a side
    subscribed, \* convSubscriptions
    connecting, \* connections under way: [side, nonce, step]
    pendingHello, \* pendingHelloNonces, 0 for none
    helloSeen,  \* seenHelloNonces
    greetings,  \* frames on their way
    greeters,   \* handlers of frames, and of role events: what they still have to do
    roleFrames, \* role events that have not arrived
    deferredRoles, \* deferredRoleEvents of the first side
    registry,   \* of the first side: per device the time of the last event taken, 0 for none
    connects,
    rolesHeard,      \* history: the role events that have arrived
    excusedRoles,  \* history: updates of the registry overlapped, failed, or memory was lost
    excusedHello,  \* history: a frame was lost, a nonce expired, memory lost, a side disconnected
    handshakeFaults

handshakeVars == <<known, subscribed, connecting, pendingHello, helloSeen, greetings, greeters,
                   roleFrames, deferredRoles, registry, connects, rolesHeard, excusedRoles, excusedHello,
                   handshakeFaults>>

Sides == {1, 2}
Peer(s) == 3 - s
RoleDevices == {e.device : e \in RoleEvents}
Nonces == 1..MaxConnects
Greetings == [to : Sides, kind : {"HELLO", "ACK"}, nonce : Nonces]

\* A handler: of a frame, or ("ROLE") of a role event; `todo` are the role events it takes, and
\* `read` is the registry as it has read it for the first of them.
Handler(s, kind, nonce, step, todo) ==
    [side |-> s, kind |-> kind, nonce |-> nonce, step |-> step, todo |-> todo, read |-> <<>>]

HandshakeTypeOK ==
    /\ known \in [Sides -> BOOLEAN] /\ subscribed \in [Sides -> BOOLEAN]
    /\ pendingHello \in [Sides -> Nonces \cup {0}]
    /\ helloSeen \in [Sides -> SUBSET Nonces] /\ greetings \subseteq Greetings
    /\ \A h \in greeters :
          /\ h.side \in Sides /\ h.step \in {"verify", "flush", "write", "profile"}
          /\ h.step = "write" => h.todo # <<>> /\ h.read \in [RoleDevices -> Nat]
    /\ deferredRoles \subseteq RoleEvents /\ registry \in [RoleDevices -> Nat]

HandshakeFault == handshakeFaults < MaxHandshakeFaults /\ handshakeFaults' = handshakeFaults + 1
Roles == <<roleFrames, deferredRoles, registry, rolesHeard, excusedRoles>>

-----------------------------------------------------------------------------
\* connectConversation: the context is the hint of the caller, which has no capabilities; a device
\* that is not approved gets no further.
ConnectBegins(s, allowed) ==
    /\ connects < MaxConnects /\ connects' = connects + 1
    /\ known' = [known EXCEPT ![s] = FALSE]
    /\ IF allowed
       THEN /\ subscribed' = [subscribed EXCEPT ![s] = TRUE]
            /\ connecting' = connecting \cup {[side |-> s, nonce |-> connects + 1, step |-> "open"]}
            /\ UNCHANGED excusedHello
       ELSE excusedHello' = TRUE /\ UNCHANGED <<subscribed, connecting>>
    /\ UNCHANGED <<pendingHello, helloSeen, greetings, greeters, Roles, handshakeFaults>>

NonceKept(c) ==
    /\ c \in connecting /\ c.step = "open"
    /\ connecting' = (connecting \ {c}) \cup {[c EXCEPT !.step = "sign"]}
    /\ pendingHello' = [pendingHello EXCEPT ![c.side] = c.nonce]
    /\ UNCHANGED <<known, subscribed, helloSeen, greetings, greeters, Roles, connects, excusedHello,
                   handshakeFaults>>

HelloSent(c) ==
    /\ c \in connecting /\ c.step = "sign"
    /\ connecting' = connecting \ {c}
    /\ greetings' = greetings \cup {[to |-> Peer(c.side), kind |-> "HELLO", nonce |-> c.nonce]}
    /\ UNCHANGED <<known, subscribed, pendingHello, helloSeen, greeters, Roles, connects,
                   excusedHello, handshakeFaults>>

\* disconnectConversation.
Disconnects(s) ==
    /\ subscribed[s]
    /\ pendingHello' = [pendingHello EXCEPT ![s] = 0]
    /\ subscribed' = [subscribed EXCEPT ![s] = FALSE]
    /\ excusedHello' = TRUE
    /\ UNCHANGED <<known, connecting, helloSeen, greetings, greeters, Roles, connects,
                   handshakeFaults>>

-----------------------------------------------------------------------------
\* The answer to another greeting than the last is dropped at once.
Wanted(f) == f.kind = "HELLO" \/ pendingHello[f.to] = f.nonce

GreetingArrives(f, again) ==
    /\ f \in greetings /\ subscribed[f.to]
    /\ greetings' = IF again THEN greetings ELSE greetings \ {f}
    /\ IF again THEN HandshakeFault ELSE UNCHANGED handshakeFaults
    /\ greeters' = IF Wanted(f)
                   THEN greeters \cup {Handler(f.to, f.kind, f.nonce, "verify", <<>>)}
                   ELSE greeters
    /\ UNCHANGED <<known, subscribed, connecting, pendingHello, helloSeen, Roles, connects,
                   excusedHello>>

InOrder(events) ==
    CHOOSE s \in [1..Cardinality(events) -> events] :
        \A i, j \in 1..Cardinality(events) : i < j => s[i].ts < s[j].ts

PutOff(s) == IF s = 1 THEN InOrder(deferredRoles) ELSE <<>>

\* The mutant: what was put off stays so.
PutNothing(h) == (greeters \ {h}) \cup {[h EXCEPT !.step = "profile"]}

\* flushDeferredRoleEvents: all that was put off, in the order of their times.
Flushes(h) ==
    (greeters \ {h}) \cup {[h EXCEPT !.step = IF PutOff(h.side) = <<>> THEN "profile" ELSE "flush",
                                     !.todo = PutOff(h.side)]}

\* The signature fits: a greeting that comes again ends here, the answer ends the waiting for it.
Verified(h) ==
    /\ h \in greeters /\ h.step = "verify"
    /\ IF h.kind = "HELLO" /\ h.nonce \in helloSeen[h.side]
       THEN greeters' = greeters \ {h} /\ UNCHANGED <<known, pendingHello, helloSeen>>
       ELSE /\ greeters' = Flushes(h)
            /\ known' = [known EXCEPT ![h.side] = TRUE]
            /\ IF h.kind = "HELLO"
               THEN /\ helloSeen' = [helloSeen EXCEPT ![h.side] = @ \cup {h.nonce}]
                    /\ UNCHANGED pendingHello
               ELSE pendingHello' = [pendingHello EXCEPT ![h.side] = 0] /\ UNCHANGED helloSeen
    /\ UNCHANGED <<subscribed, connecting, greetings, Roles, connects, excusedHello,
                   handshakeFaults>>

\* applyVerification has saved the profile; a greeting is answered.
ProfileSaved(h) ==
    /\ h \in greeters /\ h.step = "profile"
    /\ greeters' = greeters \ {h}
    /\ greetings' = IF h.kind = "HELLO"
                    THEN greetings \cup {[to |-> Peer(h.side), kind |-> "ACK", nonce |-> h.nonce]}
                    ELSE greetings
    /\ UNCHANGED <<known, subscribed, connecting, pendingHello, helloSeen, Roles, connects,
                   excusedHello, handshakeFaults>>

-----------------------------------------------------------------------------
\* A role event is applied, or put off while the capabilities are not known.
RoleArrives(e) ==
    /\ e \in roleFrames
    /\ roleFrames' = roleFrames \ {e} /\ rolesHeard' = rolesHeard \cup {e}
    /\ IF known[1]
       THEN /\ greeters' = greeters \cup {Handler(1, "ROLE", e.ts, "flush", <<e>>)}
            /\ UNCHANGED deferredRoles
       ELSE deferredRoles' = deferredRoles \cup {e} /\ UNCHANGED greeters
    /\ UNCHANGED <<known, subscribed, connecting, pendingHello, helloSeen, greetings, registry,
                   connects, excusedRoles, excusedHello, handshakeFaults>>

\* updateFromRoleEvent: the registry is read ...
RegistryRead(h) ==
    /\ h \in greeters /\ h.step = "flush"
    /\ greeters' = (greeters \ {h}) \cup {[h EXCEPT !.step = "write", !.read = registry]}
    /\ UNCHANGED <<known, subscribed, connecting, pendingHello, helloSeen, greetings, Roles,
                   connects, excusedHello, handshakeFaults>>

\* The handler has taken its first event.
Taken(h) ==
    LET rest == Tail(h.todo)
        done == h.kind = "ROLE" /\ rest = <<>>
    IN  (greeters \ {h}) \cup
          IF done THEN {}
          ELSE {[h EXCEPT !.todo = rest, !.read = <<>>,
                          !.step = IF rest = <<>> THEN "profile" ELSE "flush"]}

Newer(read, e) == IF e.ts >= read[e.device] THEN [read EXCEPT ![e.device] = e.ts] ELSE read

\* ... and written as it was read, with the event if it is not older than the one taken before.
RegistryWritten(h) ==
    /\ h \in greeters /\ h.step = "write"
    /\ LET e == Head(h.todo)
           new == Newer(h.read, e)
       IN  /\ registry' = IF new # h.read \/ e.ts = h.read[e.device] THEN new ELSE registry
           /\ excusedRoles' = (excusedRoles \/ (registry' = new /\ h.read # registry))
           /\ deferredRoles' = deferredRoles \ {e}
    /\ greeters' = Taken(h)
    /\ UNCHANGED <<known, subscribed, connecting, pendingHello, helloSeen, greetings, roleFrames,
                   connects, rolesHeard, excusedHello, handshakeFaults>>

\* An event that could not be written stays where it was, if it had been put off.
WriteFails(h) ==
    /\ h \in greeters /\ h.step = "write" /\ HandshakeFault
    /\ greeters' = Taken(h) /\ excusedRoles' = TRUE
    /\ UNCHANGED <<known, subscribed, connecting, pendingHello, helloSeen, greetings, roleFrames,
                   deferredRoles, registry, connects, rolesHeard, excusedHello>>

-----------------------------------------------------------------------------
GreetingLost(f) ==
    /\ f \in greetings /\ (IF subscribed[f.to] THEN HandshakeFault ELSE UNCHANGED handshakeFaults)
    /\ greetings' = greetings \ {f} /\ excusedHello' = TRUE
    /\ UNCHANGED <<known, subscribed, connecting, pendingHello, helloSeen, greeters, Roles,
                   connects>>

\* An answer that takes longer than HANDSHAKE_NONCE_TTL_MS is none.
NonceExpires(s) ==
    /\ pendingHello[s] # 0 /\ HandshakeFault
    /\ pendingHello' = [pendingHello EXCEPT ![s] = 0] /\ excusedHello' = TRUE
    /\ UNCHANGED <<known, subscribed, connecting, helloSeen, greetings, greeters, Roles, connects>>

\* Only the registry is on disk.
FirstRestarts ==
    /\ HandshakeFault
    /\ known' = [known EXCEPT ![1] = FALSE] /\ subscribed' = [subscribed EXCEPT ![1] = FALSE]
    /\ connecting' = {c \in connecting : c.side # 1}
    /\ pendingHello' = [pendingHello EXCEPT ![1] = 0]
    /\ helloSeen' = [helloSeen EXCEPT ![1] = {}]
    /\ greeters' = {h \in greeters : h.side # 1}
    /\ deferredRoles' = {} /\ excusedRoles' = TRUE /\ excusedHello' = TRUE
    /\ UNCHANGED <<greetings, roleFrames, registry, connects, rolesHeard>>

HandshakeInit ==
    /\ known = [s \in Sides |-> FALSE] /\ subscribed = [s \in Sides |-> FALSE]
    /\ connecting = {} /\ pendingHello = [s \in Sides |-> 0] /\ helloSeen = [s \in Sides |-> {}]
    /\ greetings = {} /\ greeters = {} /\ roleFrames = RoleEvents /\ deferredRoles = {}
    /\ registry = [d \in RoleDevices |-> 0] /\ connects = 0 /\ rolesHeard = {}
    /\ excusedRoles = FALSE /\ excusedHello = FALSE /\ handshakeFaults = 0

HandshakeNext ==
    \/ \E s \in Sides : (\E b \in BOOLEAN : ConnectBegins(s, b)) \/ Disconnects(s) \/ NonceExpires(s)
    \/ \E c \in connecting : NonceKept(c) \/ HelloSent(c)
    \/ \E f \in greetings : (\E b \in BOOLEAN : GreetingArrives(f, b)) \/ GreetingLost(f)
    \/ \E h \in greeters :
          \/ Verified(h) \/ ProfileSaved(h) \/ RegistryRead(h) \/ RegistryWritten(h) \/ WriteFails(h)
    \/ \E e \in roleFrames : RoleArrives(e)
    \/ FirstRestarts

HandshakeSpec == HandshakeInit /\ [][HandshakeNext]_handshakeVars

-----------------------------------------------------------------------------
\* What was put off does not stay so: as soon as the capabilities are known and nobody is at work,
\* nothing is, unless a write failed.
DeferredIsFlushed ==
    known[1] /\ greeters = {} /\ ~excusedRoles => deferredRoles = {}

\* The registry has the latest of the events that arrived, of every device, those aside that are put
\* off or being applied; but two updates that overlap lose one.
LatestRoleKept ==
    ~excusedRoles =>
        \A e \in rolesHeard : \/ registry[e.device] >= e.ts \/ e \in deferredRoles
                         \/ \E h \in greeters : \E i \in DOMAIN h.todo : h.todo[i] = e

\* Greetings that cross, overtake each other or come twice leave both who have connected with the
\* capabilities of the other, unless something was lost or a side left.
GreetedIsKnown ==
    connecting = {} /\ greetings = {} /\ greeters = {} /\ ~excusedHello =>
        \A s \in Sides : subscribed[s] => known[s]

HandshakeSound == HandshakeTypeOK /\ DeferredIsFlushed /\ LatestRoleKept /\ GreetedIsKnown
=============================================================================
