----------------------------- MODULE MCRestart ------------------------------
(***************************************************************************)
(* What has to outlast the end of a process, for TLC: the offline queue of *)
(* the worker, and the friends and invites of the renderer.                *)
(*                                                                         *)
(* They share no variable.  A behaviour is one of one of them, which       *)
(* `part` names, while the other stays in its initial state.               *)
(***************************************************************************)
EXTENDS OfflineQueue, AddFriend

CONSTANTS m1, m2, f1, refusal

TwoMsgs    == {m1, m2}
OneFriend  == {f1}
SameFriend == [m \in TwoMsgs |-> f1]
InTurn     == [m \in TwoMsgs |-> IF m = m1 THEN 1 ELSE 2]
OneKind    == {refusal}
ShortDelay == [k \in OneKind |-> 1]
LongDelay  == [k \in OneKind |-> 2]

\* What a store of the older format holds: the first message.
OneOlder ==
    [msgs |-> [m \in TwoMsgs |->
                  [status |-> IF m = m1 THEN "PENDING" ELSE "ABSENT", attempts |-> 0,
                   nextAttemptAt |-> 0]],
     friends |-> {f1}]

Code(text, kind, who, dh, sum, exp, once) ==
    [text |-> text, kind |-> kind, who |-> who, dh |-> dh, sum |-> sum, whole |-> TRUE,
     exp |-> exp, once |-> once]

\* Codes of one friend, of which one has other keys, and the user's own.
FiveCodes ==
    {Code("oldest", "legacy", "friend", 1, "older", 0, FALSE),
     Code("broken", "friend", "friend", 1, "wrong", 0, FALSE),
     Code("renewed", "friend", "friend", 2, "sha256", 0, FALSE),
     Code("mine", "friend", "me", 1, "older", 0, FALSE),
     Code("invite", "invite", "friend", 1, "sha256", 1, TRUE)}

VARIABLE part  \* the component of this behaviour

RestartInit ==
    /\ part \in {"queue", "friends"} /\ Init /\ AddInit
    /\ part = "friends" => msg = m1

RestartNext ==
    \/ part = "queue" /\ Next /\ UNCHANGED <<part, addVars>>
    \/ part = "friends" /\ AddNext /\ UNCHANGED <<part, vars>>

RestartSpec == RestartInit /\ [][RestartNext]_<<part, vars, addVars>>
=============================================================================
