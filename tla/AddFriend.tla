----------------------------- MODULE AddFriend ------------------------------
(***************************************************************************)
(* Adding a friend by a code (handleAddFriend of app/App.tsx): the limit   *)
(* of failed attempts (security/rateLimit.ts), friend codes and invites    *)
(* (friendCode.ts, inviteCode.ts), the keys pinned at first sight          *)
(* (trust.ts) and the guard of invites that may be used once               *)
(* (inviteUseStore.ts).                                                    *)
(*                                                                         *)
(* A call works with the list of friends that the screen showed when the   *)
(* button was pressed.  The dialog may be closed and opened again while a  *)
(* call is at one of its awaits, and a friend's own request may create his *)
(* profile meanwhile.                                                      *)
(*                                                                         *)
(* A code is what it decodes to.  Abstracted: the text of codes but for    *)
(* its being the key of the limiter, routes (a request is sent or not),    *)
(* secrets shared beforehand, what follows the request (Friendship).       *)
(***************************************************************************)
EXTENDS Naturals, Sequences, FiniteSets

CONSTANTS
    Codes,       \* the codes at hand: [text, kind, who, dh, sum, whole, exp, once]
    Me,          \* the user's own identity
    Calls,       \* calls of handleAddFriend that may overlap
    LongestWait, \* 30 seconds, in units of 500 ms
    MaxTries, MaxTime, MaxProfiles  \* bounds

ASSUME AddFriendAssumption ==
    /\ \A c \in Codes :
           /\ c.kind \in {"friend", "invite", "legacy"}
           /\ c.sum \in {"sha256", "older", "wrong"}  \* what its checksum matches
           /\ {c.whole, c.once} \subseteq BOOLEAN      \* its payload is well-formed; oneTime
           /\ c.exp \in Nat                           \* the last time an invite is good
           /\ \A d \in Codes : c.text = d.text => c = d  \* a text decodes to one code
    /\ {LongestWait, MaxTries, MaxTime, MaxProfiles} \subseteq Nat

VARIABLES
    people,      \* the profiles of friends on disk: [id, who, dh, st]
    friends,     \* the list of the screen
    calls,       \* per call, where it is, its code and the list it works with
    queue,       \* inviteLocks: per invite, the calls that hold or wait for it
    used,        \* invites marked as used
    fails, allowedAt,  \* the limiter: per key
    time,         \* the time
    attempts, profiles,  \* bounds
    joined,      \* history: per invite, the profiles saved by it
    pinned,      \* history: per profile, the key it was made with
    overlapped,  \* history: a call ran beside another, or its list was not that on disk
    interrupted  \* history: the application ended between a save and the mark

addVars == <<people, friends, calls, queue, used, fails, allowedAt, time, attempts, profiles,
             joined, pinned, overlapped, interrupted>>
limitVars == <<fails, allowedAt>>

TextKey(c) == <<"text", c.text>>
FriendKey(c) == <<"friend", c.who>>
LimitKeys == {TextKey(c) : c \in Codes} \cup {FriendKey(c) : c \in Codes}
Invites == {c.text : c \in {d \in Codes : d.once}}

Idle == [at |-> "idle"]

AddTypeOK ==
    /\ people \subseteq [id : 1..MaxProfiles, who : {c.who : c \in Codes},
                         dh : {c.dh : c \in Codes},
                         st : {"request_out", "request_in", "normal", "blocked"}]
    /\ \A k \in Calls : calls[k].at \in {"idle", "queued", "adding", "saved", "done"}
    /\ used \subseteq Invites /\ time \in 0..MaxTime

AddInit ==
    /\ people = {} /\ friends = {}
    /\ calls = [k \in Calls |-> Idle]
    /\ queue = [i \in Invites |-> <<>>] /\ used = {}
    /\ fails = [k \in LimitKeys |-> 0] /\ allowedAt = [k \in LimitKeys |-> 0]
    /\ time = 0 /\ attempts = 0 /\ profiles = 0
    /\ joined = [i \in Invites |-> 0] /\ pinned = [p \in 1..MaxProfiles |-> 0]
    /\ overlapped = FALSE /\ interrupted = FALSE

Underway == {k \in Calls : calls[k] # Idle}

-----------------------------------------------------------------------------
\* rateLimit.ts.
Allowed(key) == time >= allowedAt[key]

WaitAfter(n) == IF 2^n \in 0..LongestWait THEN 2^n ELSE LongestWait

RecordFail(key) ==
    /\ fails' = [fails EXCEPT ![key] = @ + 1]
    /\ allowedAt' = [allowedAt EXCEPT ![key] = time + WaitAfter(fails'[key])]

RecordSuccess(key) ==
    /\ fails' = [fails EXCEPT ![key] = 0]
    /\ allowedAt' = [allowedAt EXCEPT ![key] = 0]

Passes == UNCHANGED limitVars

\* decodeFriendCodeV1, decodeInviteCodeV1.
FriendDecodes(c) == c.sum \in {"sha256", "older"} /\ c.whole
InviteDecodes(c) == FriendDecodes(c) /\ time <= c.exp
Decodes(c) == IF c.kind = "invite" THEN InviteDecodes(c) ELSE FriendDecodes(c)

\* The key under which a readable code is counted.
FinalKey(c) == IF c.kind = "invite" THEN TextKey(c) ELSE FriendKey(c)

\* The call goes on with a readable code: to the guard, when it may be used once.
GoOn(k, c) ==
    /\ calls' = [calls EXCEPT ![k] =
           [at |-> IF c.once THEN "queued" ELSE "adding", code |-> c, seen |-> friends]]
    /\ queue' = IF c.once THEN [queue EXCEPT ![c.text] = Append(@, k)] ELSE queue
    /\ Passes

Refuse == UNCHANGED <<calls, queue>>

\* One's own code, which is refused when one's identity can be read.
IsOwn(c) == c.who = Me

\* handleAddFriend up to finalizeFriendAdd.
Enter(k, c) ==
    /\ calls[k] = Idle
    /\ attempts < MaxTries /\ attempts' = attempts + 1
    /\ \/ c.kind = "legacy" /\ RecordFail(TextKey(c)) /\ Refuse
       \/ /\ c.kind # "legacy"
          /\ \/ ~Allowed(TextKey(c)) /\ Passes /\ Refuse
             \/ Allowed(TextKey(c)) /\ ~Decodes(c) /\ RecordFail(TextKey(c)) /\ Refuse
             \/ /\ Allowed(TextKey(c)) /\ Decodes(c)
                /\ \/ ~Allowed(FinalKey(c)) /\ Passes /\ Refuse
                   \/ Allowed(FinalKey(c)) /\ IsOwn(c) /\ RecordFail(FinalKey(c)) /\ Refuse
                   \/ Allowed(FinalKey(c)) /\ GoOn(k, c)
    /\ overlapped' = (overlapped \/ Underway # {} \/ friends # people)
    /\ UNCHANGED <<people, friends, used, time, profiles, joined, pinned, interrupted>>

\* The end of a call, which lets the next one to its invite.
EndCall(k) ==
    LET c == calls[k].code
    IN /\ calls' = [calls EXCEPT ![k] = Idle]
       /\ queue' = IF c.once THEN [queue EXCEPT ![c.text] = Tail(@)] ELSE queue

-----------------------------------------------------------------------------
HasTurnAtOnce(k) == calls[k].at = "queued"

\* withInviteLock.
HasTurn(k) == calls[k].at = "queued" /\ Head(queue[calls[k].code.text]) = k

\* runOneTimeInviteGuard.
Guarded(k) ==
    /\ HasTurn(k)
    /\ IF calls[k].code.text \in used
         THEN RecordFail(FinalKey(calls[k].code)) /\ EndCall(k)
         ELSE /\ calls' = [calls EXCEPT ![k].at = "adding"]
              /\ UNCHANGED <<queue, limitVars>>
    /\ UNCHANGED <<people, friends, used, time, attempts, profiles, joined, pinned, overlapped,
                   interrupted>>

\* The first profile of the identity in the list the call works with.
Familiar(k) == {p \in calls[k].seen : p.who = calls[k].code.who}
Existing(k) == CHOOSE p \in Familiar(k) : \A q \in Familiar(k) : p.id <= q.id

\* saveProfile: the whole profile, by its number.
Put(p) == {q \in people : q.id # p.id} \cup {p}

\* A friend who is asked or has accepted is not asked again.
Duplicate(k) ==
    /\ calls[k].at = "adding"
    /\ Familiar(k) # {} /\ Existing(k).st \in {"request_out", "normal"}
    /\ EndCall(k)
    /\ UNCHANGED <<people, friends, used, limitVars, time, attempts, profiles, joined, pinned,
                   overlapped, interrupted>>

MayAdd(k) ==
    /\ calls[k].at = "adding"
    /\ Familiar(k) # {} => Existing(k).st \notin {"request_out", "normal"}

KeysMatch(k) == Familiar(k) # {} => Existing(k).dh = calls[k].code.dh

\* applyTOFU: other keys than the pinned ones block the friend.
KeysChanged(k) ==
    /\ MayAdd(k) /\ ~KeysMatch(k)
    /\ people' = Put([Existing(k) EXCEPT !.st = "blocked"]) /\ friends' = people'
    /\ RecordFail(FinalKey(calls[k].code))
    /\ EndCall(k)
    /\ UNCHANGED <<used, time, attempts, profiles, joined, pinned, overlapped, interrupted>>

\* What is saved for the friend: an answer to his request, or a request of one's own.
Saved(k) ==
    IF Familiar(k) = {}
      THEN [id |-> profiles + 1, who |-> calls[k].code.who, dh |-> calls[k].code.dh,
            st |-> "request_out"]
      ELSE [Existing(k) EXCEPT !.st = IF @ = "request_in" THEN "normal" ELSE @]

SaveFriend(k) ==
    LET c == calls[k].code
        p == Saved(k)
    IN /\ MayAdd(k) /\ KeysMatch(k)
       /\ \/ /\ Familiar(k) = {} => profiles < MaxProfiles
             /\ people' = Put(p)
             /\ profiles' = IF Familiar(k) = {} THEN p.id ELSE profiles
             /\ pinned' = IF Familiar(k) = {} THEN [pinned EXCEPT ![p.id] = c.dh] ELSE pinned
             /\ joined' = IF c.once THEN [joined EXCEPT ![c.text] = @ + 1] ELSE joined
             /\ calls' = [calls EXCEPT ![k].at = "saved"]
             /\ UNCHANGED <<queue, limitVars>>
          \/ /\ RecordFail(FinalKey(c)) /\ EndCall(k)  \* it throws
             /\ UNCHANGED <<people, profiles, pinned, joined>>
       /\ UNCHANGED <<friends, used, time, attempts, overlapped, interrupted>>

\* The request is sent, or left to the scheduler; the screen is read again.
Requested(k) ==
    /\ calls[k].at = "saved"
    /\ friends' = people
    /\ RecordSuccess(FinalKey(calls[k].code)) \/ Passes
    /\ IF calls[k].code.once THEN calls' = [calls EXCEPT ![k].at = "done"] /\ UNCHANGED queue
                             ELSE EndCall(k)
    /\ UNCHANGED <<people, used, time, attempts, profiles, joined, pinned, overlapped, interrupted>>

\* markInviteUsed, for a call that has succeeded.
Mark(k) ==
    /\ calls[k].at = "done"
    /\ used' = used \cup {calls[k].code.text}
    /\ EndCall(k)
    /\ UNCHANGED <<people, friends, limitVars, time, attempts, profiles, joined, pinned, overlapped,
                   interrupted>>

-----------------------------------------------------------------------------
\* Someone else's request makes his profile, unless there is one (SyncEngine).
RequestCame ==
    /\ profiles < MaxProfiles /\ profiles' = profiles + 1
    /\ \E c \in Codes :
           /\ c.kind # "legacy" /\ FriendDecodes(c) /\ c.who # Me
           /\ ~\E p \in people : p.who = c.who
           /\ people' = people \cup {[id |-> profiles', who |-> c.who, dh |-> c.dh,
                                      st |-> "request_in"]}
           /\ pinned' = [pinned EXCEPT ![profiles'] = c.dh]
    /\ overlapped' = (overlapped \/ Underway # {})
    /\ UNCHANGED <<friends, calls, queue, used, limitVars, time, attempts, joined, interrupted>>

\* handleFriendDelete.
Deleted ==
    /\ \E p \in friends : people' = {q \in people : q.id # p.id}
    /\ friends' = people'
    /\ overlapped' = (overlapped \/ Underway # {})
    /\ UNCHANGED <<calls, queue, used, limitVars, time, attempts, profiles, joined, pinned,
                   interrupted>>

\* hydrateVault.
Hydrated ==
    /\ friends # people /\ friends' = people
    /\ UNCHANGED <<people, calls, queue, used, limitVars, time, attempts, profiles, joined, pinned,
                   overlapped, interrupted>>

TimePasses ==
    /\ time < MaxTime /\ time' = time + 1
    /\ UNCHANGED <<people, friends, calls, queue, used, limitVars, attempts, profiles, joined,
                   pinned, overlapped, interrupted>>

\* The application is reloaded: only the vault and the marks remain.
AppReloaded ==
    /\ friends' = people
    /\ calls' = [k \in Calls |-> Idle]
    /\ queue' = [i \in Invites |-> <<>>]
    /\ fails' = [k \in LimitKeys |-> 0] /\ allowedAt' = [k \in LimitKeys |-> 0]
    /\ interrupted' = (interrupted \/ \E k \in Underway : calls[k].at \in {"saved", "done"})
    /\ UNCHANGED <<people, used, time, attempts, profiles, joined, pinned, overlapped>>

AddNext ==
    \/ \E k \in Calls, c \in Codes : Enter(k, c)
    \/ \E k \in Calls :
           \/ Guarded(k) \/ Duplicate(k) \/ KeysChanged(k) \/ SaveFriend(k) \/ Requested(k)
           \/ Mark(k)
    \/ RequestCame \/ Deleted \/ Hydrated \/ TimePasses \/ AppReloaded

AddSpec == AddInit /\ [][AddNext]_addVars

-----------------------------------------------------------------------------
(***************************************************************************)
(* An invite that may be used once makes one friend, however many calls    *)
(* hold it and wherever they wait, unless the application ended between    *)
(* the friend and the mark; and who waits for an invite waits for a call   *)
(* that runs.                                                              *)
(***************************************************************************)
InviteOnce ==
    /\ ~interrupted => \A i \in Invites : joined[i] <= 1
    /\ \A i \in Invites : queue[i] # <<>> => calls[Head(queue[i])] # Idle
    /\ \A k \in Calls : calls[k].at = "queued" =>
           \E n \in DOMAIN queue[calls[k].code.text] : queue[calls[k].code.text][n] = k

(***************************************************************************)
(* One identity has one profile, unless a call ran beside another one or   *)
(* with a list that was not that of the disk; and a profile keeps the keys *)
(* it was made with, whatever list is written back.                        *)
(***************************************************************************)
OneProfile ==
    /\ ~overlapped => \A p, q \in people : p.who = q.who => p = q
    /\ \A p \in people : p.dh = pinned[p.id]

(***************************************************************************)
(* Failed attempts on one code or friend are spaced by the growing delays, *)
(* which lets those of a text that is refused unread, and those that       *)
(* overlap, go: n failures have cost as much time as their n delays last,  *)
(* of which each unit is a member of Waited(n).                            *)
(***************************************************************************)
Waited(n) == {wait \in (1..n) \X (1..LongestWait) : wait[2] <= WaitAfter(wait[1])}

Spaced ==
    LET Read == {c \in Codes : c.kind # "legacy"}
    IN ~overlapped =>
           \A key \in {TextKey(c) : c \in Read} \cup {FriendKey(c) : c \in Read} :
               allowedAt[key] >= Cardinality(Waited(fails[key]))

AddFriendSound == AddTypeOK /\ InviteOnce /\ OneProfile /\ Spaced
=============================================================================
