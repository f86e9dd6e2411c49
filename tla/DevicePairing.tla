---------------------------- MODULE DevicePairing ----------------------------
(***************************************************************************)
(* Linking a new device with a sync code: the codes, requests and results  *)
(* of devices/devicePairing.ts, the approvals of devices/deviceApprovals.ts *)
(* and the two sides of the settings (useDeviceSyncSettings.ts).           *)
(*                                                                         *)
(* One device, the host, makes codes and approves; the guests ask.  What   *)
(* is published under a code reaches every device that polls for it, each  *)
(* at its own time, out of order or never.  A guest polls too, and answers *)
(* a request of another as any device does that does not know the code.    *)
(***************************************************************************)
EXTENDS Naturals, FiniteSets

CONSTANTS
    Guests,     \* the devices that ask
    Codes,      \* bound: the codes the host makes
    MaxAsks     \* bound: the requests of all guests

ASSUME PairingAssumption == MaxAsks \in Nat /\ "host" \notin Guests

VARIABLES
    codes,      \* activeCodes of the host: "none", "fresh", "used" or "expired"
    waiting,    \* pendingRequests of the host
    dialog,     \* the request the host's settings show
    approving,  \* the request handleApproveRequest works on, and its step
    approvals,  \* requests whose device the host has stored an approval for
    link,       \* of each guest: its request, the status it shows, its timer, the request
                \* its listener waits for, and the approval it works on
    polls,      \* the codes each guest polls for
    posted,     \* the messages each device may still poll
    asked,      \* number of requests so far
    takenCodes       \* history: the requests the host has taken, with their codes

pairingVars ==
    <<codes, waiting, dialog, approving, approvals, link, polls, posted, asked, takenCodes>>

NoRequest == [id |-> 0]
Unlinked == [request |-> NoRequest, status |-> "idle", timer |-> FALSE, listens |-> NoRequest,
             event |-> NoRequest]
PairingDevices == Guests \cup {"host"}

-----------------------------------------------------------------------------
\* RendezvousClient.publish: for all the other devices.
Publish(from, messages) ==
    posted \cup {[to |-> d, message |-> m] : d \in PairingDevices \ {from}, m \in messages}
PairRequest(guest, code) == [id |-> asked + 1, guest |-> guest, code |-> code]
AskMessage(request) == [type |-> "PAIR_REQ", request |-> request, status |-> "asked"]
Result(request, status) == [type |-> "PAIR_RES", request |-> request, status |-> status]

\* handleGenerateSyncCode; createSyncCode drops the codes that are over.
GenerateCode(code) ==
    /\ codes[code] = "none"
    /\ codes' = [codes EXCEPT ![code] = "fresh"]
    /\ dialog' = NoRequest
    /\ UNCHANGED <<waiting, approving, approvals, link, polls, posted, asked, takenCodes>>

\* Ten minutes have passed.
CodeExpires(code) ==
    /\ codes[code] \in {"fresh", "used"}
    /\ codes' = [codes EXCEPT ![code] = "expired"]
    /\ UNCHANGED <<waiting, dialog, approving, approvals, link, polls, posted, asked, takenCodes>>

\* ensureRemotePoller
Polled(guest, code) == [polls EXCEPT ![guest] = @ \cup {code}]

\* handleSubmitLink; the button is off while a request is pending.
SubmitLink(guest, code) ==
    /\ asked < MaxAsks /\ link[guest].status # "pending"
    /\ LET request == PairRequest(guest, code)
       IN  /\ link' = [link EXCEPT ![guest] = [@ EXCEPT !.request = request, !.status = "pending",
                                                            !.timer = TRUE]]
           /\ posted' = Publish(guest, {AskMessage(request)})
    /\ polls' = Polled(guest, code)
    /\ asked' = asked + 1
    /\ UNCHANGED <<codes, waiting, dialog, approving, approvals, takenCodes>>

\* A code is for one request, also if it is rejected.
Fresh(code) == codes[code] = "fresh"
StillFresh(code) == codes
UsedUp(code) == [codes EXCEPT ![code] = "used"]

\* handlePairReq at the host.
TakeRequest(post) ==
    LET request == post.message.request
    IN  /\ post.to = "host" /\ post.message.type = "PAIR_REQ"
        /\ codes[request.code] \in {"fresh", "used"}     \* its poller runs
        /\ IF Fresh(request.code)
           THEN /\ codes' = UsedUp(request.code)
                /\ waiting' = waiting \cup {request}
                /\ dialog' = request
                /\ takenCodes' = takenCodes \cup {request}
                /\ posted' = posted \ {post}
           ELSE /\ posted' = Publish("host", {Result(request, "error")}) \ {post}
                /\ UNCHANGED <<codes, waiting, dialog, takenCodes>>
        /\ UNCHANGED <<approving, approvals, link, polls, asked>>

\* handlePairReq at a guest, which has no codes.
RefuseRequest(post) ==
    LET request == post.message.request
    IN  /\ post.to \in Guests /\ post.message.type = "PAIR_REQ"
        /\ request.code \in polls[post.to]
        /\ posted' = Publish(post.to, {Result(request, "error")}) \ {post}
        /\ UNCHANGED <<codes, waiting, dialog, approving, approvals, link, polls, asked, takenCodes>>

-----------------------------------------------------------------------------
(***************************************************************************)
(* handleApproveRequest and handleRejectRequest.                           *)
(***************************************************************************)

Idle == [request |-> NoRequest, step |-> "idle"]

Approve ==
    /\ dialog # NoRequest /\ approving = Idle
    /\ approving' = [request |-> dialog, step |-> "store"]
    /\ UNCHANGED <<codes, waiting, dialog, approvals, link, polls, posted, asked, takenCodes>>

ApprovalForgotten(request) == UNCHANGED approvals
ApprovalStored(request) == approvals' = approvals \cup {request}

\* storeDeviceApproval, then approvePairingRequest; or the store fails.
StoreApproval ==
    /\ approving.step = "store"
    /\ \/ /\ ApprovalStored(approving.request)
          /\ waiting' = waiting \ {approving.request}
          /\ posted' = Publish("host", {Result(approving.request, "approved")})
          /\ approving' = [approving EXCEPT !.step = "sync"]
       \/ approving' = Idle /\ UNCHANGED <<approvals, waiting, posted>>
    /\ UNCHANGED <<codes, dialog, link, polls, asked, takenCodes>>

\* startDeviceSyncAsApprover has returned or failed.
ApproverDone ==
    /\ approving.step = "sync"
    /\ approving' = Idle
    /\ dialog' \in {NoRequest, dialog}
    /\ UNCHANGED <<codes, waiting, approvals, link, polls, posted, asked, takenCodes>>

Reject ==
    /\ dialog # NoRequest /\ approving = Idle
    /\ waiting' = waiting \ {dialog}
    /\ posted' = Publish("host", {Result(dialog, "rejected")})
    /\ dialog' = NoRequest
    /\ UNCHANGED <<codes, approving, approvals, link, polls, asked, takenCodes>>

-----------------------------------------------------------------------------
(***************************************************************************)
(* The guest.                                                              *)
(***************************************************************************)

\* handlePairRes: whatever the result says, the guest stops polling for the code; what is
\* not about its present request is ignored.
Mine(guest, request) == link[guest].listens = request

TakeResult(post) ==
    LET guest == post.to  request == post.message.request
    IN  /\ guest \in Guests /\ post.message.type = "PAIR_RES"
        /\ request.code \in polls[guest]
        /\ posted' = posted \ {post}
        /\ polls' = [polls EXCEPT ![guest] = @ \ {request.code}]
        /\ link' = IF ~Mine(guest, request) THEN link
                   ELSE IF post.message.status = "approved"
                   THEN [link EXCEPT ![guest].timer = FALSE, ![guest].event = request]
                   ELSE [link EXCEPT ![guest].timer = FALSE,
                                     ![guest].status = post.message.status]
        /\ UNCHANGED <<codes, waiting, dialog, approving, approvals, asked, takenCodes>>

\* handleApprovedResult: the event must name this device and its keys; then it is stored and
\* the synchronisation begins, or something fails.  The user may ask again meanwhile.
FinishLink(guest) ==
    /\ link[guest].event # NoRequest
    /\ \E status \in {"linked", "error"} :
        /\ status = "linked" => link[guest].event.guest = guest
        /\ link' = [link EXCEPT ![guest].status = status, ![guest].event = NoRequest]
    /\ UNCHANGED <<codes, waiting, dialog, approving, approvals, polls, posted, asked, takenCodes>>

\* Thirty seconds without an answer; a later answer is still taken.
LinkTimeout(guest) ==
    /\ link[guest].timer
    /\ link' = [link EXCEPT ![guest].status = "error", ![guest].timer = FALSE]
    /\ UNCHANGED <<codes, waiting, dialog, approving, approvals, polls, posted, asked, takenCodes>>

\* The effect that listens for results depends on the request: when the interface is drawn
\* with the new one it is set up again, and its cleanup stops the timer.
Redraw(guest) ==
    /\ link[guest].listens # link[guest].request
    /\ link' = [link EXCEPT ![guest].listens = link[guest].request, ![guest].timer = FALSE]
    /\ UNCHANGED <<codes, waiting, dialog, approving, approvals, polls, posted, asked, takenCodes>>

PairingInit ==
    /\ codes = [code \in Codes |-> "none"]
    /\ waiting = {} /\ dialog = NoRequest /\ approving = Idle /\ approvals = {}
    /\ link = [guest \in Guests |-> Unlinked]
    /\ polls = [guest \in Guests |-> {}]
    /\ posted = {} /\ asked = 0 /\ takenCodes = {}

PairingNext ==
    \/ \E code \in Codes : GenerateCode(code) \/ CodeExpires(code)
    \/ \E guest \in Guests :
        \/ \E code \in Codes : SubmitLink(guest, code)
        \/ FinishLink(guest) \/ LinkTimeout(guest) \/ Redraw(guest)
    \/ \E post \in posted :
        TakeRequest(post) \/ RefuseRequest(post) \/ TakeResult(post)
    \/ Approve \/ StoreApproval \/ ApproverDone \/ Reject

\* The timers of a guest fire, its interface is drawn, and its awaits end.
PairingFairness ==
    \A guest \in Guests :
        WF_pairingVars(LinkTimeout(guest) \/ FinishLink(guest) \/ Redraw(guest))
PairingSpec == PairingInit /\ [][PairingNext]_pairingVars /\ PairingFairness

-----------------------------------------------------------------------------
\* docs/manual-two-device-checklist.md: "Reused codes fail".  However many guests use a
\* code, together or one after the other, the host takes one request.
OneRequestPerCode == \A r, s \in takenCodes : r.code = s.code => r = s

\* A guest that calls itself linked is one that the user of the host has approved, and the
\* host has stored it before the guest could know, whatever was asked and answered before.
LinkedWasApproved ==
    \A guest \in Guests :
        link[guest].status = "linked" =>
            \E request \in approvals \cap takenCodes : request.guest = guest

\* docs/manual-two-device-checklist.md, of an existing device that is offline: "Device B
\* shows a message that the existing device must be online."  No request stays pending.
PairingEnds ==
    \A guest \in Guests : link[guest].status = "pending" ~> link[guest].status # "pending"

\* A code links one device at most, and one whose request was approved.
PairingSound == OneRequestPerCode /\ LinkedWasApproved
=============================================================================
