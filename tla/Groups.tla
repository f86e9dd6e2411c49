-------------------------------- MODULE Groups --------------------------------
(***************************************************************************)
(* A group (sync/groupSync.ts and the handlers of app/App.tsx).            *)
(*                                                                         *)
(* A group has no owner: every member keeps its own list of members, and   *)
(* what one of them does is told to each other in an event of its own,     *)
(* over the direct conversation with him.  A handler works from what the   *)
(* screen shows, writes the whole conversation and then sends one event    *)
(* after the other; who is not a friend, or cannot be reached, misses it.  *)
(* A member applies an event of a sender it has in its list.               *)
(*                                                                         *)
(* Abstracted: the direct conversations (module Conversation), names,      *)
(* pictures, notices.                                                      *)
(***************************************************************************)
EXTENDS Integers, FiniteSets

CONSTANTS
    Users,          \* who may be in the group
    Founder,        \* who creates it
    Unknown,        \* pairs that are not friends of each other
    MaxGroupOps,    \* bound: what is done to the group
    MaxGroupFaults  \* bound: events that cannot be sent, reloads while they are

ASSUME GroupAssumption ==
    /\ Founder \in Users /\ Unknown \subseteq SUBSET Users
    /\ MaxGroupOps \in Nat /\ MaxGroupFaults \in Nat

NoGroup == [known |-> FALSE, members |-> {}, hidden |-> FALSE]
Events == [kind : {"create", "invite", "leave"}, actor : Users, named : SUBSET Users, ts : Nat]

VARIABLES
    group,    \* the conversation in a user's database
    screen,   \* convs: what the user's screen shows of it
    fanout,   \* the events a user's handlers have not sent yet, each with its receiver
    posted,   \* the events on their way
    groupOps,
    mixed, missed, invited,  \* history: operations that overlapped, events lost, who was ever named
    groupFaults

groupVars == <<group, screen, fanout, posted, groupOps, mixed, missed, invited, groupFaults>>

Letters == [to : Users, event : Events]

GroupTypeOK ==
    /\ \A u \in Users :
          /\ group[u].members \cup screen[u].members \subseteq Users
          /\ fanout[u] \subseteq Letters /\ \A l \in fanout[u] : l.event.actor = u /\ l.to # u
    /\ posted \subseteq Letters

GroupFault == groupFaults < MaxGroupFaults /\ groupFaults' = groupFaults + 1
Shown(known, members, hidden) == [known |-> known, members |-> members, hidden |-> hidden]
Event(kind, u, named) == [kind |-> kind, actor |-> u, named |-> named, ts |-> groupOps]
To(receivers, event) == {[to |-> v, event |-> event] : v \in receivers \ {event.actor}}

\* Something of an earlier operation has not yet reached everybody's screen.
Underway == posted # {} \/ \E u \in Users : fanout[u] # {} \/ screen[u] # group[u]

-----------------------------------------------------------------------------
Acts(u) ==
    /\ groupOps < MaxGroupOps /\ groupOps' = groupOps + 1
    /\ mixed' = (mixed \/ Underway)
    /\ UNCHANGED <<screen, posted, missed, groupFaults>>

CreateGroup(members) ==
    /\ ~group[Founder].known /\ Founder \notin members /\ members # {}
    /\ Acts(Founder)
    /\ group' = [group EXCEPT ![Founder] = Shown(TRUE, members \cup {Founder}, FALSE)]
    /\ fanout' = [fanout EXCEPT ![Founder] =
                    To(members, Event("create", Founder, members \cup {Founder}))]
    /\ invited' = invited \cup members \cup {Founder}

\* The mutant: only the new members are told.
TellsNewOnly(u, members, new) == To(new, Event("create", u, members \cup new))

InviteEvents(u, members, new) ==
    To(members, Event("invite", u, new)) \cup To(new, Event("create", u, members \cup new))

\* The conversation is written as the screen has it, with the new members.
Invite(u, new) ==
    /\ screen[u].known /\ ~screen[u].hidden
    /\ new # {} /\ new \cap (screen[u].members \cup {u}) = {}
    /\ Acts(u)
    /\ group' = [group EXCEPT ![u] = Shown(TRUE, screen[u].members \cup new, FALSE)]
    /\ fanout' = [fanout EXCEPT ![u] = @ \cup InviteEvents(u, screen[u].members, new)]
    /\ invited' = invited \cup new

Leave(u) ==
    /\ screen[u].known /\ ~screen[u].hidden
    /\ Acts(u)
    /\ group' = [group EXCEPT ![u] = Shown(TRUE, screen[u].members \ {u}, TRUE)]
    /\ fanout' = [fanout EXCEPT ![u] = @ \cup To(screen[u].members, Event("leave", u, {u}))]
    /\ UNCHANGED invited

Hydrate(u) ==
    /\ screen[u] # group[u]
    /\ screen' = [screen EXCEPT ![u] = group[u]]
    /\ UNCHANGED <<group, fanout, posted, groupOps, mixed, missed, invited, groupFaults>>

-----------------------------------------------------------------------------
\* fanoutGroupEvent: a member that is no friend is only counted.
EventSent(u, l) ==
    /\ l \in fanout[u] /\ {u, l.to} \notin Unknown
    /\ fanout' = [fanout EXCEPT ![u] = @ \ {l}] /\ posted' = posted \cup {l}
    /\ UNCHANGED <<group, screen, groupOps, mixed, missed, invited, groupFaults>>

EventMissed(u, l) ==
    /\ l \in fanout[u]
    /\ IF {u, l.to} \in Unknown THEN UNCHANGED groupFaults ELSE GroupFault
    /\ fanout' = [fanout EXCEPT ![u] = @ \ {l}] /\ missed' = TRUE
    /\ UNCHANGED <<group, screen, posted, groupOps, mixed, invited>>

\* A reload ends the handlers: nothing remembers whom they have not told.
Reloaded(u) ==
    /\ fanout[u] # {} /\ GroupFault
    /\ fanout' = [fanout EXCEPT ![u] = {}] /\ missed' = TRUE
    /\ screen' = [screen EXCEPT ![u] = group[u]]
    /\ UNCHANGED <<group, posted, groupOps, mixed, invited>>

\* applyGroupEvent: a creation replaces what is there; the other events need a sender in the list,
\* and an invitation is ignored by who is not in the result, a leave by who is out of the group.
Applied(u, g, e) ==
    IF e.kind = "create"
    THEN IF u \in e.named THEN Shown(TRUE, e.named \cup {e.actor}, FALSE) ELSE g
    ELSE IF ~g.known \/ e.actor \notin g.members THEN g
    ELSE IF e.kind = "invite"
    THEN IF u \in g.members \cup e.named THEN Shown(TRUE, g.members \cup e.named, FALSE) ELSE g
    ELSE IF u \in g.members THEN Shown(TRUE, g.members \ e.named, g.hidden) ELSE g

Received(l) ==
    /\ l \in posted
    /\ posted' = posted \ {l}
    /\ group' = [group EXCEPT ![l.to] = Applied(l.to, @, l.event)]
    /\ UNCHANGED <<screen, fanout, groupOps, mixed, missed, invited, groupFaults>>

GroupInit ==
    /\ group = [u \in Users |-> NoGroup] /\ screen = [u \in Users |-> NoGroup]
    /\ fanout = [u \in Users |-> {}] /\ posted = {} /\ groupOps = 0
    /\ mixed = FALSE /\ missed = FALSE /\ invited = {} /\ groupFaults = 0

GroupNext ==
    \/ \E s \in SUBSET Users : CreateGroup(s) \/ \E u \in Users : Invite(u, s)
    \/ \E u \in Users :
          \/ Leave(u) \/ Hydrate(u) \/ Reloaded(u)
          \/ \E l \in fanout[u] : EventSent(u, l) \/ EventMissed(u, l)
    \/ \E l \in posted : Received(l)

GroupSpec == GroupInit /\ [][GroupNext]_groupVars

-----------------------------------------------------------------------------
InGroup(u) == group[u].known /\ ~group[u].hidden

\* When nothing is under way, the members have the same list, which is who they are: unless
\* operations overlapped, an event was lost, or somebody who was told could not be.
ListsAgree ==
    ~Underway /\ ~mixed /\ ~missed =>
        \A u \in Users : InGroup(u) => group[u].members = {v \in Users : InGroup(v)}

\* Who has left is out of his own list, whatever arrives afterwards: no invitation of another,
\* sent before his leave was known, shows him the group again.
LeftIsOut == \A u \in Users : group[u].known => (group[u].hidden <=> u \notin group[u].members)

\* Nobody is in a list who was not named by a member when he created or invited.
NamedByMembers == \A u \in Users : group[u].members \subseteq invited

GroupsSound == GroupTypeOK /\ ListsAgree /\ LeftIsOut /\ NamedByMembers
=============================================================================
