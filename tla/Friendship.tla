----------------------------- MODULE Friendship -----------------------------
(***************************************************************************)
(* How two users become friends: adding, answering and blocking in         *)
(* app/App.tsx, the two schedulers that repeat requests and answers        *)
(* (friends/), and what an incoming frame does in sync/syncEngine.ts.      *)
(*                                                                         *)
(* Each user has the database (`disk`) and the store the interface works   *)
(* from (`view`); `hydrateVault` copies the first to the second some time  *)
(* after a write.  A handler of the interface writes back what it has read *)
(* from the store, a handler of a frame what it has read from the          *)
(* database, and whoever writes, writes the whole profile.                 *)
(*                                                                         *)
(* Frames may be delayed, reordered, repeated and lost.  Abstracted: keys, *)
(* signatures and protocol records (frames are the friend's), routes (a  *)
(* send succeeds or fails), names and pictures, delays between attempts.   *)
(***************************************************************************)
EXTENDS Naturals, FiniteSets

CONSTANTS
    MaxFrames,  \* bound: frames that a user sends
    MaxChoices  \* bound: choices of the users

ASSUME FriendAssumption == MaxFrames \in Nat /\ MaxChoices \in Nat

VARIABLES
    disk,      \* per user, the friend's profile and conversation in the database
    view,      \* the same in the store of the interface
    friendFrames,    \* the frames on their way: [from, kind, ts]
    clock,     \* per user, the timestamp of the last frame sent
    handling,  \* frames that were found fresh and are about to be applied
    ticking,   \* per user, the request scheduler waits for its send
    answering, \* per user, the answer whose send has succeeded, or "none"
    choices,   \* bound
    wants,     \* history: the users that have asked or accepted
    restored,  \* history: a user has undone a block or brought back a hidden friend
    excused    \* history: the friendship was refused, cancelled, blocked or restored,
               \* a frame was lost, an answer forgotten, a stale profile written, or a
               \* user has become a friend whose own request could not be sent

friendVars == <<disk, view, friendFrames, clock, handling, ticking, answering, choices, wants,
                restored, excused>>

Users == {1, 2}
Other(u) == 3 - u

Statuses == {"none", "request_out", "request_in", "normal", "hidden", "blocked"}
Answers == {"none", "accept", "decline"}
Profile == [st : Statuses,         \* friendStatus
            seen : 0..MaxFrames,   \* friendControlTs, 0 when it is not there
            asks : BOOLEAN,        \* pendingAcceptance of the conversation
            answer : Answers]      \* pendingFriendResponse of the conversation
Frame == [from : Users, kind : {"req", "accept", "decline"}, ts : 1..MaxFrames]

FriendTypeOK ==
    /\ disk \in [Users -> Profile] /\ view \in [Users -> Profile]
    /\ friendFrames \subseteq Frame /\ handling \subseteq Frame
    /\ clock \in [Users -> 0..MaxFrames] /\ ticking \in [Users -> BOOLEAN]
    /\ answering \in [Users -> Answers]
    /\ choices \in 0..MaxChoices /\ wants \subseteq Users
    /\ restored \in BOOLEAN /\ excused \in BOOLEAN

-----------------------------------------------------------------------------
\* sendFriendControlPacket: a frame is on its way, or the send fails.
Send(u, kind) ==
    /\ clock[u] < MaxFrames
    /\ clock' = [clock EXCEPT ![u] = @ + 1]
    /\ friendFrames' = friendFrames \cup {[from |-> u, kind |-> kind, ts |-> clock'[u]]}
NotSent == UNCHANGED <<clock, friendFrames>>

Choose == choices < MaxChoices /\ choices' = choices + 1

\* updateFriendOrThrow, updateConversationOrThrow: the store's data with a change, and
\* the store is read again.
SaveProfile(u, profile) ==
    /\ disk' = [disk EXCEPT ![u] = profile]
    /\ view' = [view EXCEPT ![u] = profile]

\* Adding a friend by his code, which also answers a request of his.  The new profile
\* has no friendControlTs.
Added(profile) == CASE profile.st = "request_in" -> "normal"
                    [] profile.st = "none" -> "request_out"
                    [] OTHER -> profile.st

AddFriend(u) ==
    /\ Choose
    /\ view[u].st \notin {"request_out", "normal"}
    /\ disk' = [disk EXCEPT ![u] = [st |-> Added(view[u]), seen |-> 0,
                                    asks |-> view[u].st # "request_in" /\ @.asks,
                                    answer |-> IF view[u].st = "request_in" THEN "none"
                                                                           ELSE @.answer]]
    /\ wants' = wants \cup {u}
    /\ \/ Send(u, "req") /\ excused' = (excused \/ view[u] # disk[u])
       \/ NotSent /\ excused' = (excused \/ view[u] # disk[u] \/ disk'[u].st = "normal")
    /\ UNCHANGED <<view, handling, ticking, answering, restored>>

\* tick of the request scheduler, up to its await: a request for who is not a friend yet.
SendRequest(u) ==
    /\ view[u].st = "request_out" /\ ~ticking[u]
    /\ ticking' = [ticking EXCEPT ![u] = TRUE]
    /\ Send(u, "req")
    /\ UNCHANGED <<disk, view, handling, answering, choices, wants, restored, excused>>

\* onUpdate and markFriendRequestReachability: the attempt is written to the profile as
\* the store has it, which may be older than the database.
RequestSent(u) ==
    /\ ticking[u]
    /\ ticking' = [ticking EXCEPT ![u] = FALSE]
    /\ disk' = [disk EXCEPT ![u] = [@ EXCEPT !.st = view[u].st, !.seen = view[u].seen]]
    /\ excused' = (excused \/ view[u].st # disk[u].st \/ view[u].seen # disk[u].seen)
    /\ UNCHANGED <<view, friendFrames, clock, handling, answering, choices, wants, restored>>

\* The user answers a request.
Answer(u, answer) ==
    /\ Choose
    /\ view[u].asks /\ answering[u] = "none"
    /\ wants' = IF answer = "accept" THEN wants \cup {u} ELSE wants
    /\ excused' = (excused \/ answer = "decline")
    /\ \/ /\ Send(u, answer)
          /\ answering' = [answering EXCEPT ![u] = answer]
          /\ UNCHANGED <<disk, view>>
       \/ /\ NotSent
          /\ SaveProfile(u, [disk[u] EXCEPT !.asks = view[u].asks, !.answer = answer])
          /\ UNCHANGED answering
    /\ UNCHANGED <<handling, ticking, restored>>

\* tick of the response scheduler.
RetryAnswer(u) ==
    /\ view[u].answer # "none" /\ answering[u] = "none"
    /\ Send(u, view[u].answer)
    /\ answering' = [answering EXCEPT ![u] = view[u].answer]
    /\ UNCHANGED <<disk, view, handling, ticking, choices, wants, restored, excused>>

\* applyFriendResponseLocally.
ApplyAnswer(u) ==
    /\ answering[u] # "none"
    /\ SaveProfile(u, [st |-> IF answering[u] = "accept" THEN "normal" ELSE "blocked",
                seen |-> view[u].seen, asks |-> FALSE, answer |-> "none"])
    /\ answering' = [answering EXCEPT ![u] = "none"]
    /\ excused' = (excused \/ view[u] # disk[u])
    /\ UNCHANGED <<friendFrames, clock, handling, ticking, choices, wants, restored>>

\* A request is cancelled, a friend hidden, blocked, and restored.
ChangeStatus(u, status) ==
    /\ Choose
    /\ view[u].st # "none"
    /\ \/ status = "hidden" /\ view[u].st \in {"request_out", "normal"}
       \/ status = "blocked"
       \/ status = "normal" /\ view[u].st \in {"hidden", "blocked"}
    /\ SaveProfile(u, [st |-> status, seen |-> view[u].seen,
                asks |-> FALSE, answer |-> "none"])
    /\ restored' = (restored \/ status = "normal")
    /\ excused' = TRUE
    /\ UNCHANGED <<friendFrames, clock, handling, ticking, answering, wants>>

HydrateStore(u) ==
    /\ view[u] # disk[u]
    /\ view' = [view EXCEPT ![u] = disk[u]]
    /\ UNCHANGED <<disk, friendFrames, clock, handling, ticking, answering, choices, wants, restored,
                   excused>>

-----------------------------------------------------------------------------
(***************************************************************************)
(* handleIncomingFriendFrame: the timestamp is compared with the last one  *)
(* applied, and the profile is read once more before it is written.        *)
(***************************************************************************)

Arrives(frame) ==
    /\ frame \in friendFrames \ handling
    /\ disk[Other(frame.from)].seen < frame.ts
    /\ handling' = handling \cup {frame}
    /\ UNCHANGED <<disk, view, friendFrames, clock, ticking, answering, choices, wants, restored,
                   excused>>

Later(a, b) == IF a > b THEN a ELSE b

\* upsertFriendFromRequest: both have asked, or the request is put before the user.
AcceptAnyRequest(status) == "normal"
KeepOwnRequest(status) == IF status = "none" THEN "request_in" ELSE status
Mutual(status) == IF status = "request_out" THEN "mutual" ELSE status
RequestedStatus(status) == CASE status = "request_out" -> "normal"
                             [] status \in {"normal", "hidden", "blocked"} -> status
                             [] OTHER -> "request_in"

\* upsertFriendFromRequest and applyFriendResponse; an answer of a stranger is dropped.
Applied(profile, frame) ==
    LET status == CASE frame.kind = "req" -> RequestedStatus(profile.st)
                    [] frame.kind = "accept" -> "normal"
                    [] frame.kind = "decline" -> "blocked"
    IN  IF profile.st = "none" /\ frame.kind # "req" THEN profile
        ELSE [st |-> status, seen |-> Later(profile.seen, frame.ts),
              asks |-> status = "request_in", answer |-> "none"]

Apply(frame) ==
    LET u == Other(frame.from)
    IN  /\ frame \in handling
        /\ handling' = handling \ {frame}
        /\ disk' = [disk EXCEPT ![u] = Applied(@, frame)]
        /\ excused' = (excused \/ (disk[u].answer # "none" /\ disk'[u].asks)
                               \/ (disk[u].st = "request_out" /\ clock[u] = 0))
        /\ UNCHANGED <<view, friendFrames, clock, ticking, answering, choices, wants, restored>>

\* Frames reach a device that is away too late or never.
LoseFrame(frame) ==
    /\ frame \in friendFrames
    /\ friendFrames' = friendFrames \ {frame}
    /\ excused' = (excused \/ disk[Other(frame.from)].seen < frame.ts)
    /\ UNCHANGED <<disk, view, clock, handling, ticking, answering, choices, wants, restored>>

FriendInit ==
    /\ disk = [u \in Users |-> [st |-> "none", seen |-> 0, asks |-> FALSE, answer |-> "none"]]
    /\ view = disk
    /\ friendFrames = {} /\ clock = [u \in Users |-> 0] /\ handling = {}
    /\ ticking = [u \in Users |-> FALSE] /\ answering = [u \in Users |-> "none"]
    /\ choices = 0 /\ wants = {} /\ restored = FALSE /\ excused = FALSE

Working == \E u \in Users : RequestSent(u) \/ ApplyAnswer(u) \/ HydrateStore(u)
Retrying == \E u \in Users : SendRequest(u) \/ RetryAnswer(u)
Receiving == \E frame \in Frame : Arrives(frame) \/ Apply(frame)

FriendNext ==
    \/ \E u \in Users :
           \/ AddFriend(u)
           \/ \E answer \in {"accept", "decline"} : Answer(u, answer)
           \/ \E status \in {"hidden", "blocked", "normal"} : ChangeStatus(u, status)
    \/ Working \/ Retrying \/ Receiving
    \/ \E frame \in Frame : LoseFrame(frame)

\* The handlers go on, the schedulers repeat, and a frame that is not lost arrives.
FriendFairness ==
    /\ \A u \in Users :
           /\ WF_friendVars(RequestSent(u)) /\ WF_friendVars(ApplyAnswer(u))
           /\ WF_friendVars(HydrateStore(u))
           /\ WF_friendVars(SendRequest(u)) /\ WF_friendVars(RetryAnswer(u))
    /\ WF_friendVars(Receiving)

FriendSpec == FriendInit /\ [][FriendNext]_friendVars /\ FriendFairness

-----------------------------------------------------------------------------
\* Nobody becomes a friend of somebody who has not asked or accepted, whatever frames
\* cross, come late or twice, unless he himself undoes a block or brings back a hidden
\* profile.
FriendsByConsent ==
    \A u \in Users : disk[u].st = "normal" /\ ~restored => wants = Users

\* When both want it, both end up as friends: requests that cross, answers whose first
\* send failed and repeated requests included, unless one of the excuses holds.
FriendshipConverges ==
    (wants = Users) ~>
        (excused \/ \A u \in Users : disk[u].st = "normal")

\* What the user is told when his answer could not be sent: it is repeated until it is
\* sent.  A repeated request of the friend makes the program forget it.
AnswerIsRepeated ==
    [][\A u \in Users : disk[u].answer # "none" /\ disk'[u].answer = "none" =>
           answering[u] # "none" \/ choices' # choices
           \/ \E frame \in handling : frame.kind # "req"]_friendVars

\* The statuses of two users, over crossing, lost and repeated frames.
FriendsSound == FriendTypeOK /\ FriendsByConsent
=============================================================================
