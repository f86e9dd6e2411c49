------------------------------ MODULE MCOutbox ------------------------------
(***************************************************************************)
(* One message in the outbox, the runtime of Tor that two sends rely on,   *)
(* and two users that give each other their codes, for TLC.  They share no *)
(* variable: a behaviour is one of one of them, which `part` names, while  *)
(* the others stay in their initial states.                                *)
(***************************************************************************)
EXTENDS Outbox, TorRuntime, FriendCode

CONSTANTS m1, s1, s2, timer

OneMsg   == {m1}
TwoSends == {s1, s2}

VARIABLE part  \* the component of this behaviour

SendingInit ==
    /\ part \in {"outbox", "runtime", "code"}
    /\ OutboxInit /\ RuntimeInit /\ CodeInit

\* What is not of part p rests.
Rests(p) ==
    /\ part = p /\ UNCHANGED part
    /\ p # "outbox" => UNCHANGED outboxVars
    /\ p # "runtime" => UNCHANGED runtimeVars
    /\ p # "code" => UNCHANGED codeVars

SendingNext ==
    \/ Rests("outbox") /\ OutboxNext
    \/ Rests("runtime") /\ RuntimeNext
    \/ Rests("code") /\ CodeNext

\* The fairness of each, for the behaviours that are its own.
SendingFairness ==
    /\ WF_outboxVars(part = "outbox" /\ Starting)
    /\ WF_outboxVars(part = "outbox" /\ Sweeping)
    /\ WF_outboxVars(part = "outbox" /\ Sent)
    /\ SF_outboxVars(part = "outbox" /\ MakePlan(Planned))
    /\ \A id \in Queued : /\ WF_outboxVars(part = "outbox" /\ Sending(id))
                          /\ WF_outboxVars(part = "outbox" /\ AckStep(id))
                          /\ WF_outboxVars(part = "outbox" /\ BecomesDue(id))
                          /\ WF_outboxVars(part = "outbox" /\ BecomesOverdue(id))
    /\ WF_runtimeVars(part = "runtime" /\ StopSteps)
    /\ WF_runtimeVars(part = "runtime" /\ TorBoots)
    /\ \A c \in Starters : WF_runtimeVars(part = "runtime" /\ RunSteps(c))
    /\ \A c \in Sends : WF_runtimeVars(part = "runtime" /\ SendSteps(c))
    /\ \A u \in Parties : /\ WF_codeVars(part = "code" /\ TorComes(u))
                         /\ WF_codeVars(part = "code" /\ Requested(u))
                         /\ WF_codeVars(part = "code" /\ requests[u] # <<>> /\ Arrived(u, 1))

SendingSpec ==
    /\ SendingInit
    /\ [][SendingNext]_<<part, outboxVars, runtimeVars, codeVars>>
    /\ SendingFairness

\* What must be there before something is sent.
ReadinessSound == RuntimeSound /\ CodeSound

\* What the runtime promises, and the repeated requests, for the behaviours that are their own.
SendsSettle ==
    /\ part = "runtime" => SendsGetThrough
    /\ part = "code" => RightAddressIsHeard
=============================================================================
