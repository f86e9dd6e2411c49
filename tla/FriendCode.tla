------------------------------ MODULE FriendCode ------------------------------
(***************************************************************************)
(* The friend code of a user, and the proof that a friend request carries  *)
(* of it: app/App.tsx, net/tor/localOnionEndpoint.ts,                      *)
(* friends/friendControlFrame.ts and net/friendProtocol/.                  *)
(*                                                                         *)
(* A code holds keys, a device and the onion address, which is there when  *)
(* Tor has been ready since the program started.  Two users have each      *)
(* given the other his code, shown by the program and copied by hand, and  *)
(* repeat their requests.  A request confirms both codes: that of its      *)
(* sender, and that of its receiver as the sender has it.  The receiver    *)
(* computes the same from what his code is when it arrives, and drops a    *)
(* request that confirms another.                                          *)
(*                                                                         *)
(* Abstracted: keys and devices (they do not change), hashes (equal iff    *)
(* what they are taken of is), signatures, transcript, profile.            *)
(***************************************************************************)
EXTENDS Integers, Sequences

CONSTANTS
    Refreshers,   \* what refreshes the shown code: the timer, the status events, the button
    MaxMoves,     \* bound: times that a user's Tor stops, his service moves, his program restarts
    MaxRequests   \* bound: requests on their way from one user

ASSUME CodeAssumption == MaxMoves \in Nat /\ MaxRequests \in Nat

VARIABLES
    torUp,     \* the user's Tor runs
    service,   \* the address of his hidden service
    localAddress, \* localAddress of the renderer, 0 until it has been asked for
    shownCode, \* myFriendCode: the address in it, 0 for no code
    refreshing,   \* what a refresher has read: 0 nothing yet, or the address
    copied,    \* the address that the other user has of him, 0 for none
    asking,    \* the user repeats his request
    requests,  \* the requests of the user, the oldest first
    heeded,     \* history: the user has taken a request
    moves

codeVars == <<torUp, service, localAddress, shownCode, refreshing, copied, asking, requests, heeded,
              moves>>

Parties == {1, 2}
Fellow(u) == 3 - u
Addresses == 0..(MaxMoves + 1)
Payload(u, address) == [user |-> u, address |-> address]
Payloads == [user : Parties, address : Addresses]
Requests == [payload : Payloads, role : {"alice", "bob"}, confirmation : Seq(Payloads)]

CodeTypeOK ==
    /\ torUp \in [Parties -> BOOLEAN] /\ asking \in [Parties -> BOOLEAN]
    /\ \A u \in Parties :
          /\ {service[u], localAddress[u], shownCode[u], copied[u]} \subseteq Addresses
          /\ localAddress[u] <= service[u]
          /\ Len(requests[u]) <= MaxRequests
          /\ \A i \in DOMAIN requests[u] : requests[u][i] \in Requests
    /\ refreshing \in [Parties -> [Refreshers -> Addresses \cup {-1}]]

Move == moves < MaxMoves /\ moves' = moves + 1

-----------------------------------------------------------------------------
\* ensureLocalOnionEndpoint: what was found once is not asked for again.
Endpoint(u) == IF localAddress[u] # 0 THEN localAddress[u] ELSE IF torUp[u] THEN service[u] ELSE 0
Asked(u) == localAddress' = [localAddress EXCEPT ![u] = Endpoint(u)]

\* refreshMyFriendCode: first Tor, then the address, then Tor again.
RefreshStarts(u, r) ==
    /\ refreshing[u][r] = -1
    /\ IF torUp[u] THEN refreshing' = [refreshing EXCEPT ![u][r] = 0] /\ UNCHANGED shownCode
                   ELSE shownCode' = [shownCode EXCEPT ![u] = 0] /\ UNCHANGED refreshing
    /\ refreshing' # refreshing \/ shownCode' # shownCode
    /\ UNCHANGED <<torUp, service, localAddress, copied, asking, requests, heeded, moves>>

RefreshReads(u, r) ==
    /\ refreshing[u][r] = 0 /\ Endpoint(u) # 0
    /\ Asked(u) /\ refreshing' = [refreshing EXCEPT ![u][r] = Endpoint(u)]
    /\ UNCHANGED <<torUp, service, shownCode, copied, asking, requests, heeded, moves>>

RefreshEnds(u, r) ==
    /\ \/ refreshing[u][r] > 0
       \/ refreshing[u][r] = 0 /\ Endpoint(u) = 0
    /\ shownCode' = [shownCode EXCEPT ![u] = IF torUp[u] THEN refreshing[u][r] ELSE 0]
    /\ refreshing' = [refreshing EXCEPT ![u][r] = -1]
    /\ UNCHANGED <<torUp, service, localAddress, copied, asking, requests, heeded, moves>>

\* The other user is given the code and adds its owner.
CodeCopied(u) ==
    /\ shownCode[u] # 0 /\ ~asking[Fellow(u)] /\ copied[u] = 0
    /\ copied' = [copied EXCEPT ![u] = shownCode[u]]
    /\ asking' = [asking EXCEPT ![Fellow(u)] = TRUE]
    /\ UNCHANGED <<torUp, service, localAddress, shownCode, refreshing, requests, heeded, moves>>

-----------------------------------------------------------------------------
\* resolveRole: the commitments, which are hashes of the keys, are compared.
RoleOf(own, other) == IF own.user < other.user THEN "alice" ELSE "bob"

\* deriveConfirmationV1: the codes of both, that of the sender's role first.
Confirmation(ownRole, senderRole, own, other) ==
    LET alice == IF ownRole = "alice" THEN own ELSE other
        bob == IF ownRole = "alice" THEN other ELSE own
    IN  IF senderRole = "alice" THEN <<alice, bob>> ELSE <<bob, alice>>

\* buildKeyAgreementRecord.
RequestOf(own, other) ==
    LET role == RoleOf(own, other)
    IN  [payload |-> own, role |-> role, confirmation |-> Confirmation(role, role, own, other)]

\* The mutant: the receiver orders the codes by his own role.
FitsOwnOrder(request, own) ==
    LET role == RoleOf(own, request.payload)
    IN  /\ request.role # role
        /\ request.confirmation = Confirmation(role, role, own, request.payload)

\* verifyKeyAgreementRecord.
Fits(request, own) ==
    LET role == RoleOf(own, request.payload)
    IN  /\ request.role # role
        /\ request.confirmation = Confirmation(role, request.role, own, request.payload)

Requested(u) ==
    /\ asking[u] /\ Len(requests[u]) < MaxRequests
    /\ Asked(u)
    /\ requests' = [requests EXCEPT ![u] = Append(@, RequestOf(Payload(u, Endpoint(u)),
                                                  Payload(Fellow(u), copied[Fellow(u)])))]
    /\ UNCHANGED <<torUp, service, shownCode, refreshing, copied, asking, heeded, moves>>

From(s, i) == SubSeq(s, i, Len(s))
Without(s, i) == SubSeq(s, 1, i - 1) \o From(s, i + 1)

\* A request that is taken ends the asking of its receiver, and brings the sender's address if it
\* has one; those sent before it are dropped then, by their times.
Arrived(u, i) ==
    LET request == requests[u][i]
        fits == Fits(request, Payload(Fellow(u), Endpoint(Fellow(u))))
    IN  /\ i \in DOMAIN requests[u]
        /\ Asked(Fellow(u))
        /\ requests' = [requests EXCEPT ![u] = IF fits THEN From(@, i + 1) ELSE Without(@, i)]
        /\ IF fits
           THEN /\ asking' = [asking EXCEPT ![Fellow(u)] = FALSE]
                /\ heeded' = [heeded EXCEPT ![Fellow(u)] = TRUE]
                /\ copied' = [copied EXCEPT ![u] = IF request.payload.address # 0
                                                   THEN request.payload.address ELSE @]
           ELSE UNCHANGED <<asking, copied, heeded>>
        /\ UNCHANGED <<torUp, service, shownCode, refreshing, moves>>

-----------------------------------------------------------------------------
TorComes(u) ==
    /\ ~torUp[u] /\ torUp' = [torUp EXCEPT ![u] = TRUE]
    /\ UNCHANGED <<service, localAddress, shownCode, refreshing, copied, asking, requests, heeded,
                   moves>>
TorGoes(u) ==
    /\ torUp[u] /\ Move /\ torUp' = [torUp EXCEPT ![u] = FALSE]
    /\ UNCHANGED <<service, localAddress, shownCode, refreshing, copied, asking, requests, heeded>>

\* The program is started again, over the keys of its service or over new ones.
Restarted(u) ==
    /\ Move
    /\ \E address \in {service[u], service[u] + 1} : service' = [service EXCEPT ![u] = address]
    /\ torUp' = [torUp EXCEPT ![u] = FALSE] /\ localAddress' = [localAddress EXCEPT ![u] = 0]
    /\ shownCode' = [shownCode EXCEPT ![u] = 0]
    /\ refreshing' = [refreshing EXCEPT ![u] = [r \in Refreshers |-> -1]]
    /\ UNCHANGED <<copied, asking, requests, heeded>>

CodeInit ==
    /\ torUp = [u \in Parties |-> FALSE] /\ service = [u \in Parties |-> 1]
    /\ localAddress = [u \in Parties |-> 0] /\ shownCode = [u \in Parties |-> 0]
    /\ refreshing = [u \in Parties |-> [r \in Refreshers |-> -1]]
    /\ copied = [u \in Parties |-> 0] /\ asking = [u \in Parties |-> FALSE]
    /\ requests = [u \in Parties |-> <<>>] /\ heeded = [u \in Parties |-> FALSE]
    /\ moves = 0

Refreshes(u) == \E r \in Refreshers : RefreshStarts(u, r) \/ RefreshReads(u, r) \/ RefreshEnds(u, r)
Arrives(u) == \E i \in DOMAIN requests[u] : Arrived(u, i)

CodeNext ==
    \E u \in Parties :
        \/ Refreshes(u) \/ CodeCopied(u) \/ Requested(u)
        \/ Arrives(u)
        \/ TorComes(u) \/ TorGoes(u) \/ Restarted(u)

\* Tor comes up again, the schedulers repeat, what is sent is not overtaken for ever.
CodeFairness ==
    \A u \in Parties :
        /\ WF_codeVars(TorComes(u)) /\ WF_codeVars(Requested(u))
        /\ WF_codeVars(requests[u] # <<>> /\ Arrived(u, 1))

CodeSpec == CodeInit /\ [][CodeNext]_codeVars /\ CodeFairness

-----------------------------------------------------------------------------
\* The address that a user's friend has of him.
Right(u) == copied[u] = service[u] /\ copied[u] = Endpoint(u)

\* What is shown is the address that the program uses, and was found while Tor ran; nobody has an
\* address of a user that was never his.
ShownWasReady ==
    \A u \in Parties :
        /\ shownCode[u] \in {0, localAddress[u]}
        /\ copied[u] <= service[u]

CodeSound == CodeTypeOK /\ ShownWasReady

\* Two users who ask each other are not unheard for ever while one of them has the right address of
\* the other; when neither has, each drops what the other sends.
RightAddressIsHeard ==
    (\E u \in Parties :
        moves = MaxMoves /\ asking[u] /\ copied[Fellow(u)] # 0 /\ Right(Fellow(u)))
            ~> (heeded[1] \/ heeded[2])
=============================================================================
