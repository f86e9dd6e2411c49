------------------------- MODULE OfflineQueueProofs -------------------------
(***************************************************************************)
(* What TLAPS proves of OfflineQueue, for every set of messages and        *)
(* friends, every policy and every value of the bounds.                    *)
(***************************************************************************)
EXTENDS OfflineQueue, TLAPS

USE RoutesAssumption, PolicyAssumption, BoundsAssumption, LegacyAssumption,
    NoFileAssumption

\* A message that may still be sent has attempts left.
AttemptsLeft(image) ==
    \A m \in Msgs : image.msgs[m].status \in {"PENDING", "IN_FLIGHT"}
                       => image.msgs[m].attempts < MaxAttempts

\* What flush relies on between two of its steps: the message on its way is
\* IN_FLIGHT, and the rest of its batch is still PENDING.
FlightInv ==
    /\ \A image \in Images : AttemptsLeft(image)
    /\ pc = "post" \/ (pc \in Writing /\ job = "mark")
          => mem.msgs[msg].status = "IN_FLIGHT"
    /\ pc = "mark" => \A m \in batch : mem.msgs[m].status = "PENDING"
    /\ pc = "post" \/ (pc \in Writing /\ job \in {"mark", "delivered"})
          => \A m \in batch \ {msg} : mem.msgs[m].status = "PENDING"

TypeInv == TypeOK /\ FlightInv

-----------------------------------------------------------------------------
(***************************************************************************)
(* Lemmas about the operators the actions are built from.                  *)
(***************************************************************************)

\* Replacing one message of an image by a message gives an image.
LEMMA ImageUpdate ==
    ASSUME NEW image \in Image, NEW m \in Msgs, NEW r \in Message
    PROVE  /\ [image EXCEPT !.msgs[m] = r] \in Image
           /\ [image EXCEPT !.msgs[m] = r].friends = image.friends
           /\ [image EXCEPT !.msgs[m] = r].msgs = [image.msgs EXCEPT ![m] = r]
  BY DEF Image

\* The image a fresh store starts with.
LEMMA EmptyImage ==
    Empty \in Image /\ Known(Empty) = {}
  BY DEF Empty, Image, Absent, Message, Status, Known

\* The backoff of queueFailurePolicy is a natural number, whatever the policy.
LEMMA DelayNat ==
    ASSUME NEW k \in Kinds, NEW a \in Nat \ {0}
    PROVE  Delay(k, a) \in Nat
  <1>1. Exponent(a) + 1 \in 1..7
    BY DEF Exponent, AtMost
  <1>2. \A i \in 1..7 : Doublings[i] \in Nat
    BY DEF Doublings
  <1>3. BaseDelay[k] * Doublings[Exponent(a) + 1] \in Nat
    <2>1. BaseDelay[k] \in Nat /\ Doublings[Exponent(a) + 1] \in Nat
      BY <1>1, <1>2
    <2>2. QED
      BY <2>1
  <1>4. QED
    BY <1>3 DEF Delay, AtMost

\* patchFailure keeps a message a message, and one that stays PENDING keeps an
\* attempt in reserve.
LEMMA FailedMessage ==
    ASSUME NEW r \in Message, r.attempts < MaxAttempts, now \in 0..Horizon,
           NEW permanent \in BOOLEAN, NEW k \in Kinds
    PROVE  /\ Failed(r, permanent, k) \in Message
           /\ Failed(r, permanent, k).status \in {"PENDING", "FAILED"}
           /\ Failed(r, permanent, k).status = "PENDING"
                 => Failed(r, permanent, k).attempts < MaxAttempts
  <1> DEFINE a == r.attempts + 1
  <1>1. a \in 1..MaxAttempts
    BY DEF Message
  <1>2. Delay(k, a) \in Nat
    BY <1>1, DelayNat
  <1>3. AtMost(now + Delay(k, a), Horizon) \in 0..Horizon
    BY <1>2 DEF AtMost
  <1>4. CASE permanent \/ a >= MaxAttempts
    BY <1>1, <1>4 DEF Failed, Message, Status
  <1>5. CASE ~(permanent \/ a >= MaxAttempts)
    <2>1. Failed(r, permanent, k) = Retried(a, k)
      BY <1>5 DEF Failed
    <2>2. QED
      BY <1>1, <1>3, <1>5, <2>1 DEF Retried, Message, Status
  <1>6. QED
    BY <1>4, <1>5

-----------------------------------------------------------------------------
(***************************************************************************)
(* Type correctness.  TypeOK alone is not inductive: nothing in it says    *)
(* that an IN_FLIGHT message has an attempt left to count.                 *)
(***************************************************************************)

LEMMA TypeInit == Init => TypeInv
  <1> SUFFICES ASSUME Init PROVE TypeInv
    OBVIOUS
  <1>1. TypeOK
    <2>1. /\ mem \in Image /\ cur \in Image \cup {NoFile} /\ bak \in Image \cup {NoFile}
          /\ todo \subseteq Friends /\ batch \subseteq Msgs /\ tried \subseteq Msgs
          /\ ingested \subseteq Msgs /\ acked \subseteq Msgs
      BY EmptyImage DEF Init
    <2>2. /\ now \in 0..Horizon /\ started \in 0..Horizon
          /\ enqueues \in 0..MaxEnqueues
          /\ faults \in 0..MaxFaults /\ crashes \in 0..MaxCrashes
      BY DEF Init
    <2>3. /\ pc \in {"down", "idle"} \cup Writing \cup Running
          /\ job \in Jobs /\ msg \in Msgs /\ posts \in [Msgs -> Nat]
          /\ proxy \in BOOLEAN /\ hadCurrent \in BOOLEAN
      BY DEF Init, Jobs
    <2>4. QED
      BY <2>1, <2>2, <2>3 DEF TypeOK
  <1>2. AttemptsLeft(Empty)
    BY DEF AttemptsLeft, Empty, Absent
  <1>3. FlightInv
    BY <1>2 DEF Init, FlightInv, Images, Writing
  <1>4. QED
    BY <1>1, <1>3 DEF TypeInv

\* persist returns: what its caller does next keeps the invariant.
LEMMA ReturnType ==
    ASSUME TypeInv, pc \in Writing, NEW ok \in BOOLEAN, Return(ok),
           mem' = mem, cur' \in {mem, cur, bak, NoFile}, bak' \in {bak, NoFile},
           UNCHANGED <<proxy, now, hadCurrent, enqueues, crashes>>,
           NoFault \/ Fault
    PROVE  TypeInv'
  <1>1. TypeOK'
    BY DEF TypeInv, TypeOK, Return, Break, NextFriend, NextInBatch, Running,
           Writing, Jobs, NoFault, Fault
  <1>2. (\A image \in Images : AttemptsLeft(image))'
    BY DEF TypeInv, FlightInv, Images, AttemptsLeft
  <1>3. FlightInv'
    BY <1>2 DEF TypeInv, TypeOK, FlightInv, Return, Break, NextFriend, NextInBatch,
           Writing, Jobs
  <1>4. QED
    BY <1>1, <1>3 DEF TypeInv

\* A step of persist that does not return.
LEMMA FileStepType ==
    ASSUME TypeInv, pc \in Writing, pc' \in Writing,
           mem' = mem, cur' \in {mem, cur, bak, NoFile}, bak' \in {cur, bak, NoFile},
           hadCurrent' \in BOOLEAN,
           UNCHANGED <<proxy, now, job, msg, flushVars, ghostVars, enqueues, crashes>>,
           NoFault \/ Fault
    PROVE  TypeInv'
  <1>1. TypeOK'
    BY DEF TypeInv, TypeOK, Writing, flushVars, ghostVars, NoFault, Fault
  <1>2. (\A image \in Images : AttemptsLeft(image))'
    BY DEF TypeInv, FlightInv, Images, AttemptsLeft
  <1>3. FlightInv'
    BY <1>2 DEF TypeInv, FlightInv, Writing, flushVars
  <1>4. QED
    BY <1>1, <1>3 DEF TypeInv

LEMMA PersistType == TypeInv /\ PersistStep => TypeInv'
  <1> SUFFICES ASSUME TypeInv, PersistStep PROVE TypeInv'
    OBVIOUS
  <1>1. CASE WriteTemp
    <2>1. CASE pc' = "moveOld" /\ UNCHANGED <<job, msg, flushVars, ghostVars>>
      BY <1>1, <2>1, FileStepType DEF WriteTemp, Writing, TypeInv, TypeOK
    <2>2. CASE Return(FALSE) /\ UNCHANGED bak
      BY <1>1, <2>2, ReturnType DEF WriteTemp, Writing
    <2>3. QED
      BY <1>1, <2>1, <2>2 DEF WriteTemp
  <1>2. CASE MoveOld
    <2>1. CASE pc' = "publish" /\ UNCHANGED <<job, msg, flushVars, ghostVars>>
      BY <1>2, <2>1, FileStepType
         DEF MoveOld, BackUp, fileVars, Writing, TypeInv, TypeOK
    <2>2. CASE Return(FALSE) /\ UNCHANGED <<fileVars, hadCurrent>>
      BY <1>2, <2>2, ReturnType DEF MoveOld, fileVars, Writing
    <2>3. QED
      BY <1>2, <2>1, <2>2 DEF MoveOld
  <1>3. CASE Publish
    <2>1. CASE pc' \in {"clean", "undo"} /\ UNCHANGED <<job, msg, flushVars, ghostVars>>
      BY <1>3, <2>1, FileStepType DEF Publish, Writing, TypeInv, TypeOK
    <2>2. CASE Return(FALSE) /\ UNCHANGED cur
      BY <1>3, <2>2, ReturnType DEF Publish, Writing
    <2>3. QED
      BY <1>3, <2>1, <2>2 DEF Publish
  <1>4. CASE Undo
    BY <1>4, ReturnType DEF Undo, fileVars, Writing
  <1>5. CASE Clean
    BY <1>5, ReturnType DEF Clean, Writing
  <1>6. QED
    BY <1>1, <1>2, <1>3, <1>4, <1>5 DEF PersistStep

\* The operations that admit: opening the store, enqueue, setFriends.
LEMMA AdmitType ==
    ASSUME TypeInv,
           Open \/ (\E m \in Msgs : Enqueue(m))
                \/ (\E routes \in SUBSET Friends : SetFriends(routes))
    PROVE  TypeInv'
  <1> USE DEF TypeInv, Writing, Running
  <1>1. CASE Open
    <2>1. mem' \in Image /\ AttemptsLeft(mem')
      BY <1>1 DEF Open, Recovered, TypeOK, FlightInv, Images, AttemptsLeft,
                  Image, Message
    <2>2. TypeOK'
      BY <1>1, <2>1 DEF Open, TypeOK, Persist, fileVars, flushVars, countVars, Jobs
    <2>3. FlightInv'
      BY <1>1, <2>1 DEF Open, FlightInv, Persist, Images, AttemptsLeft, fileVars
    <2>4. QED
      BY <2>2, <2>3
  <1>2. ASSUME NEW m \in Msgs, Enqueue(m)
        PROVE  TypeInv'
    <2>1. CASE Finished(m)
      <3>1. UNCHANGED <<mem, fileVars, proxy, now, pc, job, msg, hadCurrent, flushVars>>
        BY <1>2, <2>1 DEF Enqueue
      <3>2. TypeOK'
        BY <1>2, <2>1, <3>1 DEF Enqueue, TypeOK, fileVars, flushVars
      <3>3. FlightInv'
        BY <3>1 DEF FlightInv, Images, AttemptsLeft, fileVars, flushVars
      <3>4. QED
        BY <3>2, <3>3
    <2>2. CASE ~Finished(m)
      <3>1. mem' = Admit(m) /\ Persist("enqueue", m)
        BY <1>2, <2>2 DEF Enqueue
      <3>2. Pend(m) \in [Msgs -> Message]
        BY DEF Pend, TypeOK, Image, Message, Status
      <3>3. mem' \in Image
        BY <3>1, <3>2 DEF Admit, TypeOK, Image
      <3>4. AttemptsLeft(mem')
        BY <3>1 DEF Admit, Pend, FlightInv, Images, AttemptsLeft, TypeOK, Image
      <3>5. TypeOK'
        BY <1>2, <2>2, <3>1, <3>3 DEF Enqueue, TypeOK, Persist, fileVars, flushVars, Jobs
      <3>6. FlightInv'
        BY <1>2, <3>1, <3>4
           DEF Enqueue, FlightInv, Persist, Images, AttemptsLeft, fileVars
      <3>7. QED
        BY <3>5, <3>6
    <2>3. QED
      BY <2>1, <2>2
  <1>3. ASSUME NEW routes \in SUBSET Friends, SetFriends(routes)
        PROVE  TypeInv'
    <2>1. /\ mem' = [mem EXCEPT !.friends = @ \cup routes] /\ Persist("friends", msg)
          /\ UNCHANGED <<fileVars, proxy, now, flushVars, ghostVars, countVars>>
      BY <1>3 DEF SetFriends
    <2>2. mem' \in Image /\ mem'.msgs = mem.msgs
      BY <2>1 DEF TypeOK, Image
    <2>3. TypeOK'
      BY <2>1, <2>2 DEF TypeOK, Persist, fileVars, flushVars, ghostVars, countVars, Jobs
    <2>4. AttemptsLeft(mem')
      BY <2>2 DEF FlightInv, Images, AttemptsLeft, TypeOK
    <2>5. FlightInv'
      BY <2>1, <2>2, <2>4 DEF FlightInv, Persist, Images, AttemptsLeft, fileVars
    <2>6. QED
      BY <2>3, <2>5
  <1>4. QED
    BY <1>1, <1>2, <1>3

\* The flush up to the POST.
LEMMA FlushType ==
    ASSUME TypeInv,
           \/ FlushStart \/ FlushEnd
           \/ \E f \in Friends : FlushFriend(f)
           \/ \E m \in Msgs : FlushMark(m)
    PROVE  TypeInv'
  <1> USE DEF TypeInv, Writing, Running
  <1>1. CASE FlushStart
    <2>1. TypeOK'
      BY <1>1 DEF FlushStart, TypeOK, Image, fileVars, ghostVars, countVars
    <2>2. FlightInv'
      BY <1>1 DEF FlushStart, FlightInv, Images, AttemptsLeft, fileVars
    <2>3. QED
      BY <2>1, <2>2
  <1>2. CASE FlushEnd
    <2>1. TypeOK'
      BY <1>2 DEF FlushEnd, TypeOK, fileVars, flushVars, ghostVars, countVars
    <2>2. FlightInv'
      BY <1>2 DEF FlushEnd, FlightInv, Images, AttemptsLeft, fileVars
    <2>3. QED
      BY <2>1, <2>2
  <1>3. ASSUME NEW f \in Friends, FlushFriend(f)
        PROVE  TypeInv'
    <2>1. batch' \subseteq Msgs /\ \A m \in batch' : mem.msgs[m].status = "PENDING"
      BY <1>3 DEF FlushFriend, pendingForFriend
    <2>2. TypeOK'
      BY <1>3, <2>1 DEF FlushFriend, TypeOK, fileVars, ghostVars, countVars
    <2>3. FlightInv'
      BY <1>3, <2>1 DEF FlushFriend, FlightInv, Images, AttemptsLeft, fileVars
    <2>4. QED
      BY <2>2, <2>3
  <1>4. ASSUME NEW m \in Msgs, FlushMark(m)
        PROVE  TypeInv'
    <2>1. /\ pc = "mark" /\ m \in batch /\ mem' = MarkInFlight(m) /\ Persist("mark", m)
          /\ tried' = tried \cup {m}
          /\ UNCHANGED <<fileVars, proxy, now, todo, batch, started, ghostVars, countVars>>
      BY <1>4 DEF FlushMark, Earliest
    <2>2. mem.msgs[m].status = "PENDING" /\ mem.msgs[m].attempts < MaxAttempts
      BY <2>1 DEF FlightInv, Images, AttemptsLeft, TypeOK
    <2>3. /\ mem' \in Image
          /\ mem'.msgs[m].status = "IN_FLIGHT"
          /\ mem'.msgs[m].attempts = mem.msgs[m].attempts
          /\ \A o \in Msgs \ {m} : mem'.msgs[o] = mem.msgs[o]
      <3> DEFINE r == [mem.msgs[m] EXCEPT !.status = "IN_FLIGHT"]
      <3>1. mem.msgs[m] \in Message
        BY DEF TypeOK, Image
      <3>2. r \in Message /\ r.status = "IN_FLIGHT" /\ r.attempts = mem.msgs[m].attempts
        BY <3>1 DEF Message, Status
      <3>3. mem' = [mem EXCEPT !.msgs[m] = r]
        BY <2>1 DEF MarkInFlight
      <3>4. mem \in Image /\ mem.msgs \in [Msgs -> Message]
        BY DEF TypeOK, Image
      <3> HIDE DEF r
      <3>5. QED
        BY <3>2, <3>3, <3>4, ImageUpdate
    <2>4. TypeOK'
      BY <2>1, <2>3 DEF TypeOK, Persist, fileVars, ghostVars, countVars, Jobs
    <2>5. AttemptsLeft(mem')
      BY <2>2, <2>3 DEF FlightInv, Images, AttemptsLeft, TypeOK
    <2>6. FlightInv'
      BY <2>1, <2>3, <2>5 DEF FlightInv, Persist, Images, AttemptsLeft, TypeOK, fileVars
    <2>7. QED
      BY <2>4, <2>6
  <1>5. QED
    BY <1>1, <1>2, <1>3, <1>4

\* The POST and the patch that records its outcome.
LEMMA PostType == TypeInv /\ PostStep => TypeInv'
  <1> USE DEF TypeInv, Writing, Running
  <1> SUFFICES ASSUME TypeInv, PostStep PROVE TypeInv'
    OBVIOUS
  <1> DEFINE Outcome(r, j) ==
           /\ mem' = [mem EXCEPT !.msgs[msg] = r]
           /\ r.status \in {"DELIVERED", "PENDING", "FAILED"}
           /\ r.status = "PENDING" => r.attempts < MaxAttempts
           /\ Persist(j, msg)
  <1>1. \E r \in Message, j \in {"delivered", "failed"} : Outcome(r, j)
    <2>1. mem.msgs[msg] \in Message /\ pc = "post" /\ mem.msgs[msg].status = "IN_FLIGHT"
      BY DEF PostStep, PostAcked, PostFailed, TypeOK, Image, FlightInv
    <2>2. mem.msgs[msg].attempts < MaxAttempts
      BY <2>1 DEF FlightInv, Images, AttemptsLeft, TypeOK
    <2>3. CASE PostAcked
      <3>1. Delivered(mem.msgs[msg]) \in Message
        BY <2>1 DEF Delivered, Message, Status
      <3>2. Outcome(Delivered(mem.msgs[msg]), "delivered")
        BY <2>3 DEF PostAcked, Delivered
      <3>3. QED
        BY <3>1, <3>2
    <2>4. ASSUME NEW arrived \in BOOLEAN, NEW permanent \in BOOLEAN, NEW k \in Kinds,
                 PostFailed(arrived, permanent, k)
          PROVE  \E r \in Message, j \in {"delivered", "failed"} : Outcome(r, j)
      <3>1. /\ Failed(mem.msgs[msg], permanent, k) \in Message
            /\ Failed(mem.msgs[msg], permanent, k).status \in {"PENDING", "FAILED"}
            /\ Failed(mem.msgs[msg], permanent, k).status = "PENDING"
                  => Failed(mem.msgs[msg], permanent, k).attempts < MaxAttempts
        BY <2>1, <2>2, FailedMessage DEF TypeOK
      <3>2. Outcome(Failed(mem.msgs[msg], permanent, k), "failed")
        BY <2>4, <3>1 DEF PostFailed
      <3>3. QED
        BY <3>1, <3>2
    <2>5. QED
      BY <2>3, <2>4 DEF PostStep
  <1>2. PICK r \in Message, j \in {"delivered", "failed"} : Outcome(r, j)
    BY <1>1
  <1>3. /\ UNCHANGED <<fileVars, proxy, now, flushVars, acked, countVars>>
        /\ ingested' \subseteq Msgs /\ posts' \in [Msgs -> Nat] /\ pc = "post"
    BY DEF PostStep, PostAcked, PostFailed, TypeOK
  <1>4. /\ mem' \in Image /\ mem'.msgs[msg] = r
        /\ \A o \in Msgs \ {msg} : mem'.msgs[o] = mem.msgs[o]
    BY <1>2 DEF TypeOK, Image
  <1>5. TypeOK'
    BY <1>2, <1>3, <1>4 DEF TypeOK, Persist, fileVars, flushVars, countVars, Jobs
  <1>6. AttemptsLeft(mem')
    BY <1>2, <1>4 DEF FlightInv, Images, AttemptsLeft, TypeOK
  <1>7. FlightInv'
    BY <1>2, <1>3, <1>4, <1>6
       DEF FlightInv, Persist, Images, AttemptsLeft, TypeOK, fileVars, flushVars
  <1>8. QED
    BY <1>5, <1>7

LEMMA TypeNext == TypeInv /\ [Next]_vars => TypeInv'
  <1> SUFFICES ASSUME TypeInv, [Next]_vars PROVE TypeInv'
    OBVIOUS
  <1>1. CASE Open \/ (\E m \in Msgs : Enqueue(m))
                  \/ (\E routes \in SUBSET Friends : SetFriends(routes))
    BY <1>1, AdmitType
  <1>2. CASE FlushStart \/ FlushEnd \/ (\E f \in Friends : FlushFriend(f))
                        \/ (\E m \in Msgs : FlushMark(m))
    BY <1>2, FlushType
  <1>3. CASE PostStep
    BY <1>3, PostType
  <1>4. CASE PersistStep
    BY <1>4, PersistType
  <1>5. ASSUME NEW on \in BOOLEAN, SetProxy(on)
        PROVE  TypeInv'
    <2>1. TypeOK'
      BY <1>5 DEF SetProxy, TypeInv, TypeOK, fileVars, flushVars, ghostVars, countVars
    <2>2. FlightInv'
      BY <1>5 DEF SetProxy, TypeInv, FlightInv, Images, AttemptsLeft, fileVars, flushVars
    <2>3. QED
      BY <2>1, <2>2 DEF TypeInv
  <1>6. CASE Crash
    <2>1. TypeOK'
      <3>1. mem' \in Image /\ crashes' \in 0..MaxCrashes
        BY <1>6, EmptyImage DEF Crash, TypeInv, TypeOK
      <3>2. pc' = "down" /\ proxy' = FALSE /\ todo' = {} /\ batch' = {} /\ tried' = {}
        BY <1>6 DEF Crash
      <3>3. UNCHANGED <<cur, bak, now, job, msg, hadCurrent, started, ingested, acked,
                        posts, enqueues, faults>>
        BY <1>6 DEF Crash, fileVars, ghostVars
      <3>4. QED
        BY <3>1, <3>2, <3>3 DEF TypeInv, TypeOK
    <2>2. AttemptsLeft(mem')
      BY <1>6 DEF Crash, AttemptsLeft, Empty, Absent
    <2>3. FlightInv'
      BY <1>6, <2>2
         DEF Crash, TypeInv, FlightInv, Images, AttemptsLeft, fileVars, Writing
    <2>4. QED
      BY <2>1, <2>3 DEF TypeInv
  <1>7. CASE Tick
    <2>1. TypeOK'
      BY <1>7 DEF Tick, TypeInv, TypeOK, fileVars, flushVars, ghostVars, countVars
    <2>2. FlightInv'
      BY <1>7 DEF Tick, TypeInv, FlightInv, Images, AttemptsLeft, fileVars, flushVars
    <2>3. QED
      BY <2>1, <2>2 DEF TypeInv
  <1>8. CASE UNCHANGED vars
    <2>1. TypeOK'
      BY <1>8 DEF vars, TypeInv, TypeOK, fileVars, flushVars, ghostVars, countVars
    <2>2. FlightInv'
      BY <1>8 DEF vars, TypeInv, FlightInv, Images, AttemptsLeft, fileVars, flushVars
    <2>3. QED
      BY <2>1, <2>2 DEF TypeInv
  <1>9. QED
    BY <1>1, <1>2, <1>3, <1>4, <1>5, <1>6, <1>7, <1>8 DEF Next, FlushStep

\* The state of the queue keeps its type through every operation, crash and
\* file-system failure; in particular no attempt is counted beyond the cap.
THEOREM TypeCorrect == Spec => []TypeOK
  <1>1. Init => TypeInv
    BY TypeInit
  <1>2. TypeInv /\ [Next]_vars => TypeInv'
    BY TypeNext
  <1>3. TypeInv => TypeOK
    BY DEF TypeInv
  <1>4. QED
    BY <1>1, <1>2, <1>3, PTL DEF Spec

LEMMA TypeInvariant == Spec => []TypeInv
  BY TypeInit, TypeNext, PTL DEF Spec

-----------------------------------------------------------------------------
(***************************************************************************)
(* What a step does to the three images.                                   *)
(***************************************************************************)

\* The files only ever take over an image that memory or a file already has.
LEMMA FilesCopy ==
    ASSUME [Next]_vars
    PROVE  /\ cur' \in {mem, cur, bak, NoFile}
           /\ bak' \in {cur, bak, NoFile}
  <1>1. CASE PersistStep
    <2>1. CASE WriteTemp
      BY <2>1 DEF WriteTemp
    <2>2. CASE MoveOld
      BY <2>2 DEF MoveOld, BackUp, fileVars
    <2>3. CASE Publish
      BY <2>3 DEF Publish
    <2>4. CASE Undo
      BY <2>4 DEF Undo, fileVars
    <2>5. CASE Clean
      BY <2>5 DEF Clean
    <2>6. QED
      BY <1>1, <2>1, <2>2, <2>3, <2>4, <2>5 DEF PersistStep
  <1>2. CASE ~PersistStep
    BY <1>2 DEF Next, vars, fileVars, Open, Enqueue, SetFriends, SetProxy, FlushStart,
                FlushStep, FlushFriend, FlushEnd, FlushMark, PostStep, PostAcked,
                PostFailed, Crash, Tick
  <1>3. QED
    BY <1>1, <1>2

\* persist never touches memory.
LEMMA PersistKeepsMemory ==
    ASSUME PersistStep
    PROVE  mem' = mem
  BY DEF PersistStep, WriteTemp, MoveOld, Publish, Undo, Clean

-----------------------------------------------------------------------------
(***************************************************************************)
(* Receipts are honest.                                                    *)
(***************************************************************************)

\* DELIVERED is written by PostAcked alone, in the step in which the peer stores
\* the message; every other step copies images, or writes another status.
LEMMA IngestedInductive ==
    TypeInv /\ DeliveredIngested /\ [Next]_vars => DeliveredIngested'
  <1> SUFFICES ASSUME TypeInv, DeliveredIngested, [Next]_vars
               PROVE  DeliveredIngested'
    OBVIOUS
  <1> DEFINE Honest(image, got) ==
           \A m \in Msgs : image.msgs[m].status = "DELIVERED" => m \in got
  <1>1. ingested \subseteq ingested'
    BY DEF Next, vars, fileVars, flushVars, ghostVars, countVars, Open, Enqueue,
           SetFriends, SetProxy, FlushStart, FlushStep, FlushFriend, FlushEnd,
           FlushMark, PostStep, PostAcked, PostFailed, Crash, Tick, PersistStep,
           WriteTemp, MoveOld, Publish, Undo, Clean, Return
  <1>2. \A image \in {mem, cur, bak} : image # NoFile => Honest(image, ingested')
    BY <1>1 DEF DeliveredIngested, Images
  <1>3. Honest(mem', ingested')
    <2>0. mem # NoFile
      BY DEF TypeInv, TypeOK
    <2>1. CASE Open
      BY <2>1, <1>2 DEF Open, Recovered
    <2>2. ASSUME NEW m \in Msgs, Enqueue(m)
          PROVE  Honest(mem', ingested')
      BY <2>0, <2>2, <1>2 DEF Enqueue, Admit, Pend, TypeInv, TypeOK, Image
    <2>3. ASSUME NEW routes \in SUBSET Friends, SetFriends(routes)
          PROVE  Honest(mem', ingested')
      BY <2>0, <2>3, <1>2 DEF SetFriends, TypeInv, TypeOK, Image
    <2>4. ASSUME NEW m \in Msgs, FlushMark(m)
          PROVE  Honest(mem', ingested')
      BY <2>0, <2>4, <1>2 DEF FlushMark, MarkInFlight, TypeInv, TypeOK, Image, Message
    <2>5. CASE PostAcked
      BY <2>0, <2>5, <1>2 DEF PostAcked, Delivered, TypeInv, TypeOK, Image
    <2>6. ASSUME NEW arrived \in BOOLEAN, NEW permanent \in BOOLEAN, NEW k \in Kinds,
                 PostFailed(arrived, permanent, k)
          PROVE  Honest(mem', ingested')
      <3>1. /\ mem' = [mem EXCEPT !.msgs[msg] = Failed(mem.msgs[msg], permanent, k)]
            /\ pc = "post"
        BY <2>6 DEF PostFailed
      <3>2. Failed(mem.msgs[msg], permanent, k).status # "DELIVERED"
        BY DEF Failed, Retried
      <3>3. QED
        BY <2>0, <3>1, <3>2, <1>2 DEF TypeInv, TypeOK, Image
    <2>7. CASE Crash
      BY <2>7 DEF Crash, Empty, Absent
    <2>8. CASE PersistStep
      BY <2>0, <2>8, <1>2, PersistKeepsMemory
    <2>9. CASE UNCHANGED mem
      BY <2>0, <2>9, <1>2
    <2>10. QED
      BY <2>1, <2>2, <2>3, <2>4, <2>5, <2>6, <2>7, <2>8, <2>9
         DEF Next, vars, SetProxy, FlushStart, FlushStep, FlushFriend, FlushEnd,
             PostStep, Tick
  <1>4. /\ cur' # NoFile => Honest(cur', ingested')
        /\ bak' # NoFile => Honest(bak', ingested')
    BY <1>2, FilesCopy
  <1>5. QED
    BY <1>3, <1>4 DEF DeliveredIngested, Images

\* A message called DELIVERED anywhere, in memory or in a file a restart may
\* read, has been stored by its peer.
THEOREM ReceiptsHonest == Spec => []DeliveredIngested
  <1>1. Init => DeliveredIngested
    BY DEF Init, DeliveredIngested, Images, Empty, Absent
  <1>2. QED
    BY <1>1, IngestedInductive, TypeInvariant, PTL DEF Spec

-----------------------------------------------------------------------------
(***************************************************************************)
(* No partial loss.                                                        *)
(***************************************************************************)

\* Why the file a restart reads holds every acknowledged message: memory holds
\* them while the worker runs; the current file does whenever it exists, and the
\* backup does whenever it is the only file; and persist publishes memory.
KeepInv ==
    /\ pc # "down" => acked \subseteq Known(mem)
    /\ cur # NoFile => acked \subseteq Known(cur)
    /\ cur = NoFile /\ bak # NoFile => acked \subseteq Known(bak)
    /\ pc = "undo" \/ (pc = "publish" /\ hadCurrent) => cur = NoFile
    /\ pc = "clean" => cur = mem
    /\ pc \in Writing /\ job = "enqueue" => msg \in Known(mem)
    /\ pc = "post" /\ Recovered # NoFile => msg \in Known(Recovered)
    /\ pc # "down" /\ Recovered # NoFile => \A m \in Msgs :
          mem.msgs[m].status = "DELIVERED" => m \in Known(Recovered)

LEMMA KeepInit == Init => KeepInv
  BY EmptyImage DEF Init, KeepInv, Writing, Recovered

LEMMA PersistKeeps == TypeInv /\ KeepInv /\ PersistStep => KeepInv'
  <1> SUFFICES ASSUME TypeInv, KeepInv, PersistStep PROVE KeepInv'
    OBVIOUS
  <1> USE DEF KeepInv, Recovered, Writing
  <1>0. mem' = mem /\ Known(mem)' = Known(mem)
    BY PersistKeepsMemory DEF Known
  <1>1. CASE WriteTemp
    BY <1>1, <1>0 DEF WriteTemp, Return, Break, NextFriend, NextInBatch, ghostVars, Known
  <1>2. CASE MoveOld
    BY <1>2, <1>0 DEF MoveOld, BackUp, Return, Break, NextFriend, NextInBatch, ghostVars,
                      fileVars, Known
  <1>3. CASE Publish
    <2>1. CASE cur' = mem /\ pc' = "clean" /\ UNCHANGED <<job, msg, ghostVars>>
      <3>1. mem # NoFile
        BY NoFileAssumption DEF TypeInv, TypeOK
      <3>2. QED
        BY <1>0, <1>3, <2>1, <3>1 DEF Publish, ghostVars, Known
    <2>2. CASE hadCurrent /\ pc' = "undo" /\ UNCHANGED <<cur, job, msg, ghostVars>>
      BY <1>0, <1>3, <2>2 DEF Publish, ghostVars, Known
    <2>3. CASE Return(FALSE) /\ cur' = cur
      <3>1. /\ pc' \in {"idle", "down", "friend"}
            /\ acked' = acked /\ UNCHANGED <<cur, bak, msg>>
        BY <1>3, <2>3 DEF Publish, Return, Break, NextFriend
      <3>2. QED
        BY <1>0, <1>3, <3>1 DEF Publish, Known
    <2>4. QED
      BY <1>3, <2>1, <2>2, <2>3 DEF Publish
  <1>4. CASE Undo
    BY <1>4, <1>0 DEF Undo, Return, Break, NextFriend, NextInBatch, fileVars, Known
  <1>5. CASE Clean
    <2>1. cur' = cur /\ cur = mem /\ mem # NoFile
      BY <1>5 DEF Clean, TypeInv, TypeOK
    <2>2. acked' \subseteq Known(mem)
      BY <1>5 DEF Clean, Return
    <2>3. pc' = "post" => msg' \in Known(mem)
      BY <1>5 DEF Clean, Return, Break, NextFriend, NextInBatch, TypeInv, TypeOK,
                  FlightInv, Known
    <2>4. pc' \in {"idle", "post", "friend", "mark"}
      BY <1>5 DEF Clean, Return, Break, NextFriend, NextInBatch
    <2>5. QED
      BY <1>0, <2>1, <2>2, <2>3, <2>4 DEF Known
  <1>6. QED
    BY <1>1, <1>2, <1>3, <1>4, <1>5 DEF PersistStep

\* The other steps leave the files alone, and none but Open and Crash takes a
\* message out of memory.
LEMMA OthersKeep == TypeInv /\ KeepInv /\ [Next]_vars /\ ~PersistStep => KeepInv'
  <1> SUFFICES ASSUME TypeInv, KeepInv, [Next]_vars, ~PersistStep PROVE KeepInv'
    OBVIOUS
  <1> USE DEF KeepInv, Recovered, Writing
  <1>1. CASE Open
    BY <1>1 DEF Open, Persist, fileVars, Known
  <1>2. ASSUME NEW m \in Msgs, Enqueue(m)
        PROVE  KeepInv'
    <2>1. CASE Finished(m)
      BY <1>2, <2>1 DEF Enqueue, Finished, fileVars, Known
    <2>2. CASE ~Finished(m)
      <3>1. /\ mem' = Admit(m) /\ Persist("enqueue", m) /\ pc = "idle" /\ acked' = acked
            /\ UNCHANGED fileVars
        BY <1>2, <2>2 DEF Enqueue
      <3>2. /\ mem'.msgs[m].status = "PENDING"
            /\ \A o \in Msgs \ {m} : mem'.msgs[o] = mem.msgs[o]
        BY <3>1 DEF Admit, Pend, TypeInv, TypeOK, Image
      <3>3. Known(mem) \subseteq Known(mem') /\ m \in Known(mem')
        BY <3>2 DEF Known
      <3>4. QED
        BY <3>1, <3>2, <3>3 DEF Persist, fileVars, Known
    <2>3. QED
      BY <2>1, <2>2
  <1>3. ASSUME NEW routes \in SUBSET Friends, SetFriends(routes)
        PROVE  KeepInv'
    <2>1. mem'.msgs = mem.msgs
      BY <1>3 DEF SetFriends, TypeInv, TypeOK, Image
    <2>2. QED
      BY <1>3, <2>1 DEF SetFriends, Persist, fileVars, ghostVars, Known
  <1>4. ASSUME NEW m \in Msgs, FlushMark(m)
        PROVE  KeepInv'
    <2>1. /\ mem'.msgs[m].status = "IN_FLIGHT"
          /\ \A o \in Msgs \ {m} : mem'.msgs[o] = mem.msgs[o]
      BY <1>4 DEF FlushMark, MarkInFlight, TypeInv, TypeOK, Image, Message
    <2>2. Known(mem) \subseteq Known(mem')
      BY <2>1 DEF Known
    <2>3. QED
      BY <1>4, <2>1, <2>2 DEF FlushMark, Persist, fileVars, ghostVars, Known
  <1>5. CASE PostStep
    <2>1. /\ pc = "post" /\ msg \in Msgs
          /\ mem'.msgs[msg].status # "ABSENT"
          /\ \A o \in Msgs \ {msg} : mem'.msgs[o] = mem.msgs[o]
      BY <1>5 DEF PostStep, PostAcked, PostFailed, Delivered, Failed, Retried, TypeInv,
                  TypeOK, Image
    <2>2. Known(mem) \subseteq Known(mem')
      BY <2>1 DEF Known
    <2>3. /\ pc' = "write" /\ job' \in {"delivered", "failed"} /\ msg' = msg
          /\ acked' = acked /\ UNCHANGED fileVars
      BY <1>5 DEF PostStep, PostAcked, PostFailed, Persist
    <2>4. QED
      BY <2>1, <2>2, <2>3 DEF fileVars, Known
  <1>6. CASE UNCHANGED <<mem, fileVars, acked, msg>> /\ pc \in {"idle", "friend"}
                /\ pc' \in {"idle", "friend", "mark"}
    BY <1>6 DEF fileVars, Known
  <1>7. CASE Crash
    BY <1>7 DEF Crash, fileVars, ghostVars, Known
  <1>8. CASE UNCHANGED <<mem, fileVars, acked, msg, pc, job, hadCurrent>>
    BY <1>8 DEF fileVars, Known
  <1>9. QED
    BY <1>1, <1>2, <1>3, <1>4, <1>5, <1>6, <1>7, <1>8
       DEF Next, vars, SetProxy, FlushStart, FlushStep, FlushFriend, FlushEnd, Tick,
           ghostVars

\* Whatever crashes and whichever file-system call fails, as long as one of the
\* two files exists a restart finds every acknowledged message.
THEOREM AcknowledgedSurvives == Spec => []NoPartialLoss
  <1>1. TypeInv /\ KeepInv /\ [Next]_vars => KeepInv'
    BY PersistKeeps, OthersKeep
  <1>2. KeepInv => NoPartialLoss
    BY DEF KeepInv, NoPartialLoss, Recovered
  <1>3. QED
    BY <1>1, <1>2, KeepInit, TypeInvariant, PTL DEF Spec

-----------------------------------------------------------------------------
(***************************************************************************)
(* persist is one step: the queue implements AtomicStore.                  *)
(***************************************************************************)

StoreStep == [Atomic!StoreNext]_(Atomic!storeVars)

\* What an image says of its messages is what the store's contents are.
LEMMA ContentType ==
    /\ Content(Empty) = Atomic!Nothing
    /\ \A image \in Image : Content(image) \in Atomic!Contents
  <1>1. Content(Empty) = Atomic!Nothing
    BY EmptyImage DEF Content, Empty, Absent, Atomic!Nothing
  <1>2. ASSUME NEW image \in Image
        PROVE  Content(image) \in Atomic!Contents
    BY DEF Content, Known, Atomic!Contents
  <1>3. QED
    BY <1>1, <1>2

\* A step after which a restart would read what it would have read before.
LEMMA SameFile ==
    ASSUME pc # "down", mem' \in {mem, Empty}, pc' # "down" => mem' = mem,
           acked' = acked, Recovered' = Recovered
    PROVE  StoreStep
  <1>1. /\ (Recovered # NoFile)' = (Recovered # NoFile)
        /\ Content(InFile)' = Content(InFile)
        /\ mem' = mem => Content(mem)' = Content(mem)
        /\ OnlyBackup \in BOOLEAN /\ OnlyBackup' \in BOOLEAN
    BY DEF InFile, OnlyBackup, Content, Known
  <1>2. /\ OnlyBackup => Recovered # NoFile
        /\ OnlyBackup' => (Recovered # NoFile)'
    BY DEF OnlyBackup, Recovered
  <1>3. CASE pc' = "down"
    <2>1. Content(mem)' \in {Content(mem), Atomic!Nothing}
      BY ContentType DEF Content, Known
    <2>2. Atomic!Stop
      BY <1>1, <1>2, <1>3, <2>1 DEF Atomic!Stop
    <2>3. QED
      BY <2>2 DEF StoreStep, Atomic!StoreNext
  <1>4. CASE pc' # "down" /\ OnlyBackup' = OnlyBackup
    BY <1>1, <1>4 DEF StoreStep, Atomic!storeVars
  <1>5. CASE pc' # "down" /\ OnlyBackup' # OnlyBackup
    <2>1. Atomic!Weaken
      BY <1>1, <1>2, <1>5 DEF Atomic!Weaken
    <2>2. QED
      BY <2>1 DEF StoreStep, Atomic!StoreNext
  <1>6. QED
    BY <1>3, <1>4, <1>5

\* A step of an operation on the image in memory.
LEMMA MemoryStep ==
    ASSUME mem' \in Image, Known(mem) \subseteq Known(mem'),
           \A m \in Msgs : mem.msgs[m].status = "DELIVERED"
                              => mem'.msgs[m].status = "DELIVERED",
           pc \notin {"down", "publish", "undo"}, pc' \notin {"down", "publish", "undo"},
           acked' = acked, UNCHANGED fileVars
    PROVE  StoreStep
  <1>1. /\ Content(mem)' \in Atomic!Contents
        /\ Content(mem).has \subseteq Content(mem').has
        /\ Content(mem).done \subseteq Content(mem').done
    BY ContentType DEF Content, Known
  <1>2. /\ Recovered' = Recovered /\ InFile' = InFile
        /\ OnlyBackup' = OnlyBackup
    BY DEF Recovered, InFile, OnlyBackup, fileVars
  <1>3. Content(InFile)' = Content(InFile) /\ (Recovered # NoFile)' = (Recovered # NoFile)
    BY <1>2 DEF Content, Known
  <1>4. Atomic!Change
    BY <1>1, <1>2, <1>3 DEF Atomic!Change, Content, Known
  <1>5. QED
    BY <1>4 DEF StoreStep, Atomic!StoreNext

\* A caller hears that message m is kept, which memory and the file both have.
LEMMA ToldStep ==
    ASSUME NEW m \in Msgs, pc # "down", pc' # "down", mem' = mem,
           m \in Known(mem), Recovered # NoFile => m \in Known(Recovered),
           Recovered' = Recovered, OnlyBackup' = OnlyBackup, acked' = acked \cup {m}
    PROVE  StoreStep
  <1>1. /\ Content(mem)' = Content(mem) /\ Content(InFile)' = Content(InFile)
        /\ (Recovered # NoFile)' = (Recovered # NoFile)
        /\ m \in Content(mem).has
        /\ Recovered # NoFile => m \in Content(InFile).has
    BY DEF Content, Known, InFile
  <1>2. Atomic!Tell(m)
    BY <1>1 DEF Atomic!Tell
  <1>3. QED
    BY <1>2 DEF StoreStep, Atomic!StoreNext

LEMMA PersistIsStoreStep == TypeInv /\ KeepInv /\ PersistStep => StoreStep
  <1> SUFFICES ASSUME TypeInv, KeepInv, PersistStep PROVE StoreStep
    OBVIOUS
  <1>0. /\ mem' = mem /\ mem # NoFile /\ pc # "down"
    BY PersistKeepsMemory
       DEF TypeInv, TypeOK, PersistStep, WriteTemp, MoveOld, Publish, Undo, Clean
  <1>1. CASE WriteTemp
    <2>1. acked' = acked /\ cur' = cur
      BY <1>1 DEF WriteTemp, Return, ghostVars
    <2>2. CASE Recovered' = Recovered
      BY <1>0, <2>1, <2>2, SameFile
    <2>3. CASE Recovered' # Recovered
      <3>1. /\ cur = NoFile /\ bak # NoFile /\ bak' = NoFile
            /\ pc = "write" /\ pc' = "moveOld"
        BY <1>1, <2>1, <2>3 DEF WriteTemp, Recovered
      <3>2. /\ OnlyBackup = TRUE /\ OnlyBackup' = FALSE
            /\ (Recovered # NoFile)' = FALSE /\ InFile' = Empty
        BY <2>1, <3>1 DEF OnlyBackup, Recovered, InFile
      <3>3. Content(InFile)' = Atomic!Nothing /\ Content(mem)' = Content(mem)
        BY <1>0, <3>2, ContentType DEF Content, Known
      <3>4. Atomic!Lose
        BY <2>1, <3>1, <3>2, <3>3 DEF Atomic!Lose
      <3>5. QED
        BY <3>4 DEF StoreStep, Atomic!StoreNext
    <2>4. QED
      BY <2>2, <2>3
  <1>2. CASE MoveOld
    <2>1. acked' = acked /\ Recovered' = Recovered
      BY <1>2 DEF MoveOld, BackUp, Return, ghostVars, fileVars, Recovered
    <2>2. QED
      BY <1>0, <2>1, SameFile
  <1>3. CASE Publish
    <2>1. acked' = acked
      BY <1>3 DEF Publish, Return, ghostVars
    <2>2. CASE cur' = cur
      <3>1. Recovered' = Recovered
        BY <1>3, <2>2 DEF Publish, Recovered
      <3>2. QED
        BY <1>0, <2>1, <3>1, SameFile
    <2>3. CASE cur' # cur
      <3>1. cur' = mem /\ pc = "publish" /\ pc' = "clean"
        BY <1>3, <2>3 DEF Publish
      <3>2. /\ OnlyBackup' = FALSE /\ (Recovered # NoFile)' = TRUE /\ InFile' = mem
        BY <1>0, <3>1 DEF OnlyBackup, Recovered, InFile
      <3>3. Content(InFile)' = Content(mem) /\ Content(mem)' = Content(mem)
        BY <1>0, <3>2 DEF Content, Known
      <3>4. Atomic!Save
        BY <2>1, <3>1, <3>2, <3>3 DEF Atomic!Save
      <3>5. QED
        BY <3>4 DEF StoreStep, Atomic!StoreNext
    <2>4. QED
      BY <2>2, <2>3
  <1>4. CASE Undo
    <2>1. cur = NoFile
      BY <1>4 DEF KeepInv, Undo
    <2>2. acked' = acked /\ Recovered' = Recovered
      BY <1>4, <2>1 DEF Undo, Return, fileVars, Recovered
    <2>3. QED
      BY <1>0, <2>2, SameFile
  <1>5. CASE Clean
    <2>1. /\ pc = "clean" /\ cur = mem /\ cur' = cur
          /\ pc' \in {"idle", "friend", "mark", "post"}
      BY <1>5 DEF Clean, KeepInv, Return, Break, NextFriend, NextInBatch
    <2>2. Recovered' = Recovered /\ Recovered = mem
      BY <1>0, <2>1 DEF Recovered
    <2>3. CASE acked' = acked
      BY <1>0, <2>2, <2>3, SameFile
    <2>4. CASE acked' # acked
      <3>1. job = "enqueue" /\ acked' = acked \cup {msg}
        BY <1>5, <2>4 DEF Clean, Return
      <3>2. msg \in Known(mem) /\ msg \in Msgs
        BY <2>1, <3>1 DEF KeepInv, TypeInv, TypeOK, Writing
      <3>3. OnlyBackup' = OnlyBackup
        BY <1>0, <2>1 DEF OnlyBackup
      <3>4. QED
        BY <1>0, <2>1, <2>2, <3>1, <3>2, <3>3, ToldStep
    <2>5. QED
      BY <2>3, <2>4
  <1>6. QED
    BY <1>1, <1>2, <1>3, <1>4, <1>5 DEF PersistStep

LEMMA OthersAreStoreSteps ==
    TypeInv /\ KeepInv /\ [Next]_vars /\ ~PersistStep => StoreStep
  <1> SUFFICES ASSUME TypeInv, KeepInv, [Next]_vars, ~PersistStep PROVE StoreStep
    OBVIOUS
  <1>0. mem \in Image /\ mem' \in Image
    BY TypeNext DEF TypeInv, TypeOK
  <1>1. CASE Open
    <2>1. /\ pc = "down" /\ pc' \in {"idle", "write"} /\ UNCHANGED fileVars
      BY <1>1 DEF Open, Persist
    <2>2. Recovered' = Recovered /\ InFile' = InFile /\ OnlyBackup' = OnlyBackup
      BY <2>1 DEF Recovered, InFile, OnlyBackup, fileVars
    <2>3. Content(InFile)' = Content(InFile) /\ (Recovered # NoFile)' = (Recovered # NoFile)
      BY <2>2 DEF Content, Known
    <2>4. /\ Content(mem)' = IF Recovered # NoFile THEN Content(InFile) ELSE Content(Legacy)
          /\ acked' = IF Recovered # NoFile THEN acked ELSE {}
      BY <1>1 DEF Open, InFile, Content, Known
    <2>5. Atomic!Restart
      BY <2>1, <2>2, <2>3, <2>4 DEF Atomic!Restart
    <2>6. QED
      BY <2>5 DEF StoreStep, Atomic!StoreNext
  <1>2. ASSUME NEW m \in Msgs, Enqueue(m)
        PROVE  StoreStep
    <2>1. CASE Finished(m)
      <3>1. /\ pc = "idle" /\ pc' = pc /\ mem' = mem /\ UNCHANGED fileVars
            /\ acked' = acked \cup {m} /\ mem.msgs[m].status = "DELIVERED"
        BY <1>2, <2>1 DEF Enqueue, Finished
      <3>2. m \in Known(mem) /\ (Recovered # NoFile => m \in Known(Recovered))
        BY <3>1 DEF KeepInv, Known
      <3>3. Recovered' = Recovered /\ OnlyBackup' = OnlyBackup
        BY <3>1 DEF Recovered, OnlyBackup, fileVars
      <3>4. QED
        BY <3>1, <3>2, <3>3, ToldStep
    <2>2. CASE ~Finished(m)
      <3>1. /\ mem' = Admit(m) /\ pc = "idle" /\ pc' = "write" /\ acked' = acked
            /\ UNCHANGED fileVars
        BY <1>2, <2>2 DEF Enqueue, Persist
      <3>2. /\ mem'.msgs[m].status = "PENDING"
            /\ \A o \in Msgs \ {m} : mem'.msgs[o] = mem.msgs[o]
        BY <1>0, <3>1 DEF Admit, Pend, Image
      <3>3. Known(mem) \subseteq Known(mem')
        BY <3>2 DEF Known
      <3>4. QED
        BY <1>0, <2>2, <3>1, <3>2, <3>3, MemoryStep DEF Finished
    <2>3. QED
      BY <2>1, <2>2
  <1>3. ASSUME NEW routes \in SUBSET Friends, SetFriends(routes)
        PROVE  StoreStep
    <2>1. /\ mem'.msgs = mem.msgs /\ pc = "idle" /\ pc' = "write" /\ acked' = acked
          /\ UNCHANGED fileVars
      BY <1>0, <1>3 DEF SetFriends, Persist, ghostVars, Image
    <2>2. Known(mem) \subseteq Known(mem')
      BY <2>1 DEF Known
    <2>3. QED
      BY <1>0, <2>1, <2>2, MemoryStep
  <1>4. ASSUME NEW m \in Msgs, FlushMark(m)
        PROVE  StoreStep
    <2>1. /\ pc = "mark" /\ pc' = "write" /\ acked' = acked /\ UNCHANGED fileVars
          /\ m \in batch
      BY <1>4 DEF FlushMark, Earliest, Persist, ghostVars
    <2>2. /\ mem'.msgs[m].status = "IN_FLIGHT" /\ mem.msgs[m].status = "PENDING"
          /\ \A o \in Msgs \ {m} : mem'.msgs[o] = mem.msgs[o]
      BY <1>0, <1>4, <2>1 DEF FlushMark, MarkInFlight, TypeInv, FlightInv, Image, Message
    <2>3. Known(mem) \subseteq Known(mem')
      BY <2>2 DEF Known
    <2>4. QED
      BY <1>0, <2>1, <2>2, <2>3, MemoryStep
  <1>5. CASE PostStep
    <2>1. /\ pc = "post" /\ pc' = "write" /\ msg \in Msgs /\ acked' = acked
          /\ UNCHANGED fileVars
      BY <1>5 DEF PostStep, PostAcked, PostFailed, Persist, TypeInv, TypeOK
    <2>2. /\ mem'.msgs[msg].status # "ABSENT" /\ mem.msgs[msg].status = "IN_FLIGHT"
          /\ \A o \in Msgs \ {msg} : mem'.msgs[o] = mem.msgs[o]
      BY <1>0, <1>5, <2>1 DEF PostStep, PostAcked, PostFailed, Delivered, Failed, Retried,
                              TypeInv, FlightInv, Image
    <2>3. Known(mem) \subseteq Known(mem')
      BY <2>2 DEF Known
    <2>4. QED
      BY <1>0, <2>1, <2>2, <2>3, MemoryStep
  <1>6. CASE UNCHANGED <<mem, fileVars, acked>> /\ pc \in {"idle", "friend"}
                /\ pc' \in {"idle", "friend", "mark"}
    BY <1>6, SameFile DEF fileVars, Recovered
  <1>7. CASE Crash
    <2>1. pc # "down" /\ pc' = "down" /\ mem' = Empty /\ acked' = acked
      BY <1>7 DEF Crash, ghostVars
    <2>2. Recovered' = Recovered
      BY <1>7 DEF Crash, Recovered, fileVars
    <2>3. QED
      BY <2>1, <2>2, SameFile
  <1>8. CASE UNCHANGED <<mem, fileVars, acked, pc>>
    <2>1. UNCHANGED <<Recovered, OnlyBackup, InFile>>
      BY <1>8 DEF Recovered, OnlyBackup, InFile, fileVars
    <2>2. Content(mem)' = Content(mem) /\ Content(InFile)' = Content(InFile)
      BY <1>8, <2>1 DEF Content, Known
    <2>3. QED
      BY <1>8, <2>1, <2>2 DEF StoreStep, Atomic!storeVars
  <1>9. QED
    BY <1>1, <1>2, <1>3, <1>4, <1>5, <1>6, <1>7, <1>8
       DEF Next, vars, SetProxy, FlushStart, FlushStep, FlushFriend, FlushEnd, Tick,
           ghostVars

\* Though persist goes through six calls of the file system, each of which may fail or be
\* the last one of the process, the file changes from one image to the whole of the next
\* one or, where the only copy was a backup, is gone.
THEOREM PersistIsAtomic == Spec => SavesAtomically
  <1>1. Init => Atomic!StoreInit
    <2> SUFFICES ASSUME Init PROVE Atomic!StoreInit
      OBVIOUS
    <2>1. mem = Empty /\ Recovered = NoFile /\ InFile = Empty /\ ~OnlyBackup
      BY DEF Init, Recovered, InFile, OnlyBackup
    <2>2. QED
      BY <2>1, ContentType DEF Init, Atomic!StoreInit
  <1>2. TypeInv /\ KeepInv /\ [Next]_vars => StoreStep
    BY PersistIsStoreStep, OthersAreStoreSteps
  <1>3. TypeInv /\ KeepInv /\ [Next]_vars => KeepInv'
    BY PersistKeeps, OthersKeep
  <1>4. QED
    BY <1>1, <1>2, <1>3, KeepInit, TypeInvariant, PTL
       DEF Spec, SavesAtomically, Atomic!StoreSpec, StoreStep
-----------------------------------------------------------------------------
(***************************************************************************)
(* What a step does to the file that a restart would read, and to the      *)
(* messages that memory calls DELIVERED.                                   *)
(***************************************************************************)

\* A backup is read only where it was the current file a moment ago: the file that counts
\* stays, or gives way to memory, or is gone.
LEMMA FileRead ==
    ASSUME TypeInv, KeepInv, [Next]_vars
    PROVE  Recovered' \in {Recovered, mem, NoFile}
  <1>1. CASE WriteTemp
    BY <1>1 DEF WriteTemp, Recovered
  <1>2. CASE MoveOld
    BY <1>2 DEF MoveOld, BackUp, fileVars, Recovered
  <1>3. CASE Publish
    BY <1>3 DEF Publish, TypeInv, TypeOK, Recovered
  <1>4. CASE Undo
    BY <1>4 DEF Undo, KeepInv, fileVars, Recovered
  <1>5. CASE Clean
    BY <1>5 DEF Clean, KeepInv, TypeInv, TypeOK, Recovered
  <1>6. CASE UNCHANGED fileVars
    BY <1>6 DEF fileVars, Recovered
  <1>7. QED
    BY <1>1, <1>2, <1>3, <1>4, <1>5, <1>6
       DEF PersistStep, Next, vars, Open, Enqueue, SetFriends, SetProxy, FlushStart,
           FlushStep, FlushFriend, FlushEnd, FlushMark, PostStep, PostAcked, PostFailed,
           Crash, Tick

\* While the worker runs, what is delivered stays delivered.
LEMMA DeliveredForward ==
    ASSUME TypeInv, [Next]_vars, pc # "down", pc' # "down",
           NEW d \in Msgs, mem.msgs[d].status = "DELIVERED"
    PROVE  mem'.msgs[d].status = "DELIVERED"
  <1>0. mem \in Image
    BY DEF TypeInv, TypeOK
  <1>1. ASSUME NEW m \in Msgs, Enqueue(m)
        PROVE  mem'.msgs[d].status = "DELIVERED"
    BY <1>0, <1>1 DEF Enqueue, Finished, Admit, Pend, Image
  <1>2. ASSUME NEW routes \in SUBSET Friends, SetFriends(routes)
        PROVE  mem'.msgs[d].status = "DELIVERED"
    BY <1>0, <1>2 DEF SetFriends, Image
  <1>3. ASSUME NEW m \in Msgs, FlushMark(m)
        PROVE  mem'.msgs[d].status = "DELIVERED"
    <2>1. mem.msgs[m].status = "PENDING"
      BY <1>3 DEF FlushMark, Earliest, TypeInv, FlightInv
    <2>2. QED
      BY <1>0, <1>3, <2>1 DEF FlushMark, MarkInFlight, Image
  <1>4. CASE PostStep
    <2>1. pc = "post" /\ \E r : mem' = [mem EXCEPT !.msgs[msg] = r]
      BY <1>4 DEF PostStep, PostAcked, PostFailed
    <2>2. mem.msgs[msg].status = "IN_FLIGHT"
      BY <2>1 DEF TypeInv, FlightInv
    <2>3. QED
      BY <1>0, <2>1, <2>2 DEF Image
  <1>5. CASE mem' = mem
    BY <1>5
  <1>6. QED
    BY <1>1, <1>2, <1>3, <1>4, <1>5, PersistKeepsMemory
       DEF Next, vars, Open, SetProxy, FlushStart, FlushStep, FlushFriend, FlushEnd,
           Crash, Tick

\* A receipt that a restart would find, memory has as well.
StickInv ==
    pc # "down" /\ Recovered # NoFile => \A m \in Msgs :
        Recovered.msgs[m].status = "DELIVERED" => mem.msgs[m].status = "DELIVERED"

LEMMA StickNext == TypeInv /\ KeepInv /\ StickInv /\ [Next]_vars => StickInv'
  <1> SUFFICES ASSUME TypeInv, KeepInv, StickInv, [Next]_vars, pc' # "down",
                      Recovered' # NoFile, NEW m \in Msgs,
                      Recovered'.msgs[m].status = "DELIVERED"
               PROVE  mem'.msgs[m].status = "DELIVERED"
    BY DEF StickInv
  <1>1. CASE pc = "down"
    <2>1. Open \/ pc' = pc
      BY <1>1 DEF Next, vars, Open, Enqueue, SetFriends, SetProxy, FlushStart, FlushStep,
                  FlushFriend, FlushEnd, FlushMark, PostStep, PostAcked, PostFailed,
                  PersistStep, WriteTemp, MoveOld, Publish, Undo, Clean, Crash, Tick
    <2>2. Open
      BY <1>1, <2>1
    <2>3. Recovered' = Recovered
      BY <2>2 DEF Open, fileVars, Recovered
    <2>4. mem' = Recovered
      BY <2>2, <2>3 DEF Open
    <2>5. QED
      BY <2>3, <2>4
  <1>2. CASE pc # "down"
    <2>1. Recovered' \in {Recovered, mem}
      BY FileRead
    <2>2. mem.msgs[m].status = "DELIVERED"
      BY <1>2, <2>1 DEF StickInv
    <2>3. QED
      BY <1>2, <2>2, DeliveredForward
  <1>3. QED
    BY <1>1, <1>2

\* No crash, no fault and no stale backup brings a delivered message back to life: what a
\* restart would find as DELIVERED it finds as DELIVERED after any step.
THEOREM ReceiptsAreFinal == Spec => ReceiptsStick
  <1> DEFINE Sticks == \A m \in Msgs :
          (Recovered # NoFile /\ Recovered' # NoFile
             /\ Recovered.msgs[m].status = "DELIVERED")
          => Recovered'.msgs[m].status = "DELIVERED"
  <1>1. Init => StickInv
    BY DEF Init, StickInv
  <1>2. TypeInv /\ KeepInv /\ [Next]_vars => KeepInv'
    BY PersistKeeps, OthersKeep
  <1>3. TypeInv /\ KeepInv /\ StickInv /\ [Next]_vars => [Sticks]_vars
    <2> SUFFICES ASSUME TypeInv, KeepInv, StickInv, [Next]_vars PROVE Sticks
      OBVIOUS
    <2>1. CASE pc = "down"
      <3>1. UNCHANGED fileVars
        BY <2>1 DEF Next, vars, Open, Enqueue, SetFriends, SetProxy, FlushStart,
                    FlushStep, FlushFriend, FlushEnd, FlushMark, PostStep, PostAcked,
                    PostFailed, PersistStep, WriteTemp, MoveOld, Publish, Undo, Clean,
                    Crash, Tick
      <3>2. QED
        BY <3>1 DEF fileVars, Recovered
    <2>2. CASE pc # "down"
      BY <2>2, FileRead DEF StickInv
    <2>3. QED
      BY <2>1, <2>2
  <1>4. QED
    BY <1>1, <1>2, <1>3, StickNext, KeepInit, TypeInvariant, PTL DEF Spec, ReceiptsStick

-----------------------------------------------------------------------------
(***************************************************************************)
(* Without a fault and without a crash.                                    *)
(***************************************************************************)

\* There is a file to read, in persist's one instant without a current one too.
Readable == cur # NoFile \/ (pc = "publish" /\ bak # NoFile)

\* What holds until the first fault or crash: a started worker's file is there as soon as
\* anything was acknowledged or posted, and a message is IN_FLIGHT only around its POST.
CalmInv ==
    faults + crashes = 0 =>
        /\ pc = "down" => cur = NoFile /\ bak = NoFile /\ acked = {}
        /\ pc # "undo"
        /\ acked # {} \/ pc = "post" => Readable
        /\ \A m \in Msgs : mem.msgs[m].status = "DELIVERED" => Readable
        /\ \A m \in Msgs : mem.msgs[m].status = "IN_FLIGHT" =>
              m = msg /\ (pc = "post" \/ (pc \in Writing /\ job = "mark"))

LEMMA CalmInit == Init => CalmInv
  BY DEF Init, CalmInv, Empty, Absent

\* Faults and crashes are only counted up.
LEMMA StillCalm ==
    ASSUME TypeInv, [Next]_vars, (faults + crashes = 0)'
    PROVE  /\ faults + crashes = 0 /\ faults' = faults /\ crashes' = crashes
           /\ ~Fault /\ ~Crash
  <1>1. /\ faults \in Nat /\ crashes \in Nat
        /\ faults' = faults \/ faults' = faults + 1
        /\ crashes' = crashes \/ crashes' = crashes + 1
    <2>1. CASE PersistStep
      <3>1. (NoFault \/ Fault) /\ crashes' = crashes
        BY <2>1 DEF PersistStep, WriteTemp, MoveOld, Publish, Undo, Clean
      <3>2. QED
        BY <3>1 DEF TypeInv, TypeOK, Fault, NoFault
    <2>2. CASE ~PersistStep
      BY <2>2 DEF TypeInv, TypeOK, Next, vars, countVars, Open, Enqueue, SetFriends,
                  SetProxy, FlushStart, FlushStep, FlushFriend, FlushEnd, FlushMark,
                  PostStep, PostAcked, PostFailed, Crash, Tick
    <2>3. QED
      BY <2>1, <2>2
  <1>2. QED
    BY <1>1 DEF Fault, Crash

LEMMA PersistCalm ==
    ASSUME TypeInv, KeepInv, CalmInv, PersistStep, faults + crashes = 0, ~Fault,
           faults' = faults, crashes' = crashes
    PROVE  CalmInv'
  <1> USE DEF CalmInv, Readable, Writing
  <1>0. /\ mem' = mem /\ mem # NoFile /\ pc \in Writing
    BY PersistKeepsMemory
       DEF TypeInv, TypeOK, PersistStep, WriteTemp, MoveOld, Publish, Undo, Clean
  <1>1. CASE WriteTemp
    <2>1. UNCHANGED <<cur, job, msg, acked>> /\ pc = "write" /\ pc' = "moveOld"
      BY <1>1 DEF WriteTemp, ghostVars
    <2>2. QED
      BY <1>0, <2>1
  <1>2. CASE MoveOld
    <2>1. /\ UNCHANGED <<job, msg, acked>> /\ pc = "moveOld" /\ pc' = "publish"
          /\ \/ UNCHANGED <<cur, bak>>
             \/ cur # NoFile /\ bak' = cur
      BY <1>2 DEF MoveOld, BackUp, fileVars, ghostVars
    <2>2. QED
      BY <1>0, <2>1
  <1>3. CASE Publish
    <2>1. UNCHANGED <<job, msg, acked>> /\ cur' = mem /\ pc' = "clean"
      BY <1>3 DEF Publish, ghostVars
    <2>2. QED
      BY <1>0, <2>1
  <1>4. CASE Undo
    BY <1>4 DEF Undo
  <1>5. CASE Clean
    <2>1. /\ pc = "clean" /\ cur' = cur /\ cur # NoFile /\ msg' = msg /\ job' = job
          /\ pc' \in {"idle", "post", "friend", "mark"}
      BY <1>0, <1>5 DEF Clean, KeepInv, Return, Break, NextFriend, NextInBatch
    <2>2. job = "mark" => pc' = "post"
      BY <1>5 DEF Clean, Return
    <2>3. QED
      BY <1>0, <2>1, <2>2
  <1>6. QED
    BY <1>1, <1>2, <1>3, <1>4, <1>5 DEF PersistStep

LEMMA OthersCalm ==
    ASSUME TypeInv, KeepInv, CalmInv, [Next]_vars, ~PersistStep, faults + crashes = 0,
           ~Crash, faults' = faults, crashes' = crashes
    PROVE  CalmInv'
  <1> USE DEF CalmInv, Readable, Writing
  <1>0. mem \in Image /\ msg \in Msgs
    BY DEF TypeInv, TypeOK
  <1>1. CASE Open
    <2>1. cur = NoFile /\ bak = NoFile /\ Recovered = NoFile
      BY <1>1 DEF Open, Recovered
    <2>2. /\ mem' = Legacy /\ acked' = {} /\ UNCHANGED fileVars
          /\ pc' \in {"idle", "write"}
      BY <1>1, <2>1 DEF Open, Persist
    <2>3. QED
      BY <2>1, <2>2
  <1>2. ASSUME NEW m \in Msgs, Enqueue(m)
        PROVE  CalmInv'
    <2>1. CASE Finished(m)
      <3>1. /\ pc = "idle" /\ UNCHANGED <<pc, mem, msg, job, fileVars>>
            /\ mem.msgs[m].status = "DELIVERED"
        BY <1>2, <2>1 DEF Enqueue, Finished
      <3>2. QED
        BY <3>1 DEF fileVars
    <2>2. CASE ~Finished(m)
      <3>1. /\ mem' = Admit(m) /\ pc = "idle" /\ pc' = "write" /\ acked' = acked
            /\ UNCHANGED fileVars
        BY <1>2, <2>2 DEF Enqueue, Persist
      <3>2. /\ mem'.msgs[m].status = "PENDING"
            /\ \A o \in Msgs \ {m} : mem'.msgs[o] = mem.msgs[o]
        BY <1>0, <3>1 DEF Admit, Pend, Image
      <3>3. QED
        BY <3>1, <3>2 DEF fileVars
    <2>3. QED
      BY <2>1, <2>2
  <1>3. ASSUME NEW routes \in SUBSET Friends, SetFriends(routes)
        PROVE  CalmInv'
    <2>1. /\ mem'.msgs = mem.msgs /\ pc = "idle" /\ pc' = "write" /\ acked' = acked
          /\ UNCHANGED fileVars
      BY <1>0, <1>3 DEF SetFriends, Persist, ghostVars, Image
    <2>2. QED
      BY <2>1 DEF fileVars
  <1>4. ASSUME NEW m \in Msgs, FlushMark(m)
        PROVE  CalmInv'
    <2>1. /\ pc = "mark" /\ pc' = "write" /\ acked' = acked /\ UNCHANGED fileVars
          /\ job' = "mark" /\ msg' = m
      BY <1>4 DEF FlushMark, Persist, ghostVars
    <2>2. /\ mem'.msgs[m].status = "IN_FLIGHT"
          /\ \A o \in Msgs \ {m} : mem'.msgs[o] = mem.msgs[o]
      BY <1>0, <1>4 DEF FlushMark, MarkInFlight, Image, Message
    <2>3. QED
      BY <2>1, <2>2 DEF fileVars
  <1>5. CASE PostStep
    <2>1. /\ pc = "post" /\ pc' = "write" /\ msg \in Msgs /\ acked' = acked
          /\ UNCHANGED fileVars
      BY <1>0, <1>5 DEF PostStep, PostAcked, PostFailed, Persist
    <2>2. /\ mem'.msgs[msg].status \in {"DELIVERED", "PENDING", "FAILED"}
          /\ \A o \in Msgs \ {msg} : mem'.msgs[o] = mem.msgs[o]
      BY <1>0, <1>5 DEF PostStep, PostAcked, PostFailed, Delivered, Failed, Retried, Image
    <2>3. QED
      BY <2>1, <2>2 DEF fileVars
  <1>6. CASE UNCHANGED <<mem, fileVars, acked, msg>> /\ pc \in {"idle", "friend"}
                /\ pc' \in {"idle", "friend", "mark"}
    BY <1>6 DEF fileVars
  <1>7. CASE UNCHANGED <<mem, fileVars, acked, msg, pc, job>>
    BY <1>7 DEF fileVars
  <1>8. QED
    BY <1>1, <1>2, <1>3, <1>4, <1>5, <1>6, <1>7
       DEF Next, vars, SetProxy, FlushStart, FlushStep, FlushFriend, FlushEnd, Tick,
           ghostVars

LEMMA CalmNext == TypeInv /\ KeepInv /\ CalmInv /\ [Next]_vars => CalmInv'
  <1> SUFFICES ASSUME TypeInv, KeepInv, CalmInv, [Next]_vars, (faults + crashes = 0)'
               PROVE  CalmInv'
    BY DEF CalmInv
  <1>1. QED
    BY StillCalm, PersistCalm, OthersCalm

\* What is acknowledged survives: the file that a restart would read has all of it, and it
\* takes a fault or a crash for there to be none.
THEOREM AcknowledgedIsKept == Spec => []AcknowledgedKept
  <1>1. TypeInv /\ KeepInv /\ [Next]_vars => KeepInv'
    BY PersistKeeps, OthersKeep
  <1>2. TypeInv /\ KeepInv /\ CalmInv => AcknowledgedKept
    BY DEF TypeInv, TypeOK, KeepInv, CalmInv, Readable, AcknowledgedKept, NoPartialLoss,
           LossNeedsFault, Recovered
  <1>3. QED
    BY <1>1, <1>2, KeepInit, CalmInit, CalmNext, TypeInvariant, PTL DEF Spec
-----------------------------------------------------------------------------
(***************************************************************************)
(* The flush: the attempts it counts and the order it keeps.               *)
(***************************************************************************)

\* Every POST of a message that may be sent again has been counted in the image.
Counted(image) ==
    \A m \in Msgs : image.msgs[m].status = "PENDING" => posts[m] <= image.msgs[m].attempts

\* A POST is made after its mark is in the file: a crash before its outcome is written
\* leaves the message IN_FLIGHT there, not PENDING with a POST that nobody counted.
CapInv ==
    /\ \A m \in Msgs : posts[m] <= MaxAttempts
    /\ Counted(mem)
    /\ Recovered # NoFile => Counted(Recovered)
    /\ pc = "post" \/ (pc \in Writing /\ job = "mark")
          => posts[msg] <= mem.msgs[msg].attempts
    /\ pc = "post" => cur = mem

LEMMA CapInit == Init => CapInv
  BY DEF Init, CapInv, Counted, Recovered, Empty, Absent, Writing

LEMMA CapNext == TypeInv /\ KeepInv /\ CapInv /\ [Next]_vars => CapInv'
  <1> SUFFICES ASSUME TypeInv, KeepInv, CapInv, [Next]_vars PROVE CapInv'
    OBVIOUS
  <1> USE DEF CapInv, Writing
  <1>0. /\ mem \in Image /\ msg \in Msgs /\ mem # NoFile
        /\ posts \in [Msgs -> Nat] /\ posts' \in [Msgs -> Nat]
        /\ Recovered' \in {Recovered, mem, NoFile}
    BY TypeNext, FileRead DEF TypeInv, TypeOK
  <1>1. ASSUME UNCHANGED <<mem, posts>>,
               pc' = "post" \/ (pc' \in Writing /\ job' = "mark") =>
                  msg' = msg /\ (pc = "post" \/ (pc \in Writing /\ job = "mark")),
               pc' = "post" => cur' = mem
        PROVE  CapInv'
    BY <1>0, <1>1 DEF Counted
  <1>2. CASE PersistStep
    <2>1. UNCHANGED <<mem, posts, msg, job>> /\ pc \in Writing
      BY <1>2 DEF PersistStep, WriteTemp, MoveOld, Publish, Undo, Clean, Return, ghostVars
    <2>2. pc' = "post" => cur' = mem /\ job = "mark"
      BY <1>2 DEF PersistStep, WriteTemp, MoveOld, Publish, Undo, Clean, Return, Break,
                  NextFriend, NextInBatch, KeepInv
    <2>3. QED
      BY <1>1, <2>1, <2>2
  <1>3. CASE Open
    <2>1. /\ pc' = "idle" \/ (pc' = "write" /\ job' = "migrate")
          /\ Recovered' = Recovered
          /\ \/ Recovered # NoFile /\ mem' = Recovered /\ posts' = posts
             \/ /\ Recovered = NoFile /\ mem' = Legacy
                /\ posts' = [m \in Msgs |-> 0]
      BY <1>3 DEF Open, Persist, fileVars, Recovered
    <2>2. Counted(mem)'
      BY <1>0, <2>1 DEF Counted, Image, Message
    <2>3. QED
      BY <2>1, <2>2 DEF Counted
  <1>4. ASSUME NEW m \in Msgs, Enqueue(m)
        PROVE  CapInv'
    <2>1. CASE Finished(m)
      BY <1>1, <1>4, <2>1 DEF Enqueue
    <2>2. CASE ~Finished(m)
      <3>1. /\ mem' = Admit(m) /\ pc' = "write" /\ job' = "enqueue"
            /\ posts' = [posts EXCEPT ![m] = 0] /\ UNCHANGED fileVars
        BY <1>4, <2>2 DEF Enqueue, Persist
      <3>2. mem'.msgs = Pend(m) /\ mem' \in Image
        BY <3>1, TypeNext DEF Admit, TypeInv, TypeOK
      <3>3. \A o \in Msgs : posts'[o] <= posts[o] /\ (o # m => posts'[o] = posts[o])
        BY <1>0, <3>1
      <3>4. Counted(mem)'
        <4> SUFFICES ASSUME NEW o \in Msgs, mem'.msgs[o].status = "PENDING"
                     PROVE  posts'[o] <= mem'.msgs[o].attempts
          BY DEF Counted
        <4>1. CASE o = m
          BY <1>0, <3>1, <3>2, <4>1 DEF Pend, Image
        <4>2. CASE o # m
          BY <1>0, <3>2, <3>3, <4>2 DEF Pend, Image, Counted
        <4>3. QED
          BY <4>1, <4>2
      <3>5. Recovered' = Recovered
        BY <3>1 DEF fileVars, Recovered
      <3>6. Recovered' # NoFile => Counted(Recovered)'
        <4> SUFFICES ASSUME Recovered # NoFile, NEW o \in Msgs,
                            Recovered.msgs[o].status = "PENDING"
                     PROVE  posts'[o] <= Recovered.msgs[o].attempts
          BY <3>5 DEF Counted
        <4>1. posts[o] <= Recovered.msgs[o].attempts /\ Recovered.msgs[o].attempts \in Nat
          BY DEF Counted, TypeInv, TypeOK, Recovered, Image, Message
        <4>2. QED
          BY <1>0, <3>3, <4>1
      <3>7. \A o \in Msgs : posts'[o] <= MaxAttempts
        BY <1>0, <3>3
      <3>8. QED
        BY <3>1, <3>4, <3>6, <3>7
    <2>3. QED
      BY <2>1, <2>2
  <1>5. ASSUME NEW routes \in SUBSET Friends, SetFriends(routes)
        PROVE  CapInv'
    <2>1. /\ mem'.msgs = mem.msgs /\ pc' = "write" /\ job' = "friends" /\ posts' = posts
          /\ UNCHANGED fileVars
      BY <1>0, <1>5 DEF SetFriends, Persist, ghostVars, Image
    <2>2. QED
      BY <2>1 DEF Counted, fileVars, Recovered
  <1>6. ASSUME NEW m \in Msgs, FlushMark(m)
        PROVE  CapInv'
    <2>1. /\ pc' = "write" /\ job' = "mark" /\ msg' = m /\ posts' = posts
          /\ UNCHANGED fileVars /\ mem.msgs[m].status = "PENDING"
      BY <1>6 DEF FlushMark, Earliest, Persist, ghostVars, TypeInv, FlightInv
    <2>2. /\ mem'.msgs[m].status = "IN_FLIGHT"
          /\ mem'.msgs[m].attempts = mem.msgs[m].attempts
          /\ \A o \in Msgs \ {m} : mem'.msgs[o] = mem.msgs[o]
      BY <1>0, <1>6 DEF FlushMark, MarkInFlight, Image, Message
    <2>3. QED
      BY <2>1, <2>2 DEF Counted, fileVars, Recovered
  <1>7. CASE PostStep
    <2>1. /\ pc = "post" /\ pc' = "write" /\ job' \in {"delivered", "failed"}
          /\ posts' = [posts EXCEPT ![msg] = @ + 1] /\ UNCHANGED fileVars
          /\ mem.msgs[msg].status = "IN_FLIGHT" /\ mem.msgs[msg] \in Message
      BY <1>0, <1>7 DEF PostStep, PostAcked, PostFailed, Persist, TypeInv, FlightInv, Image
    <2>2. mem.msgs[msg].attempts < MaxAttempts
      BY <1>0, <2>1 DEF TypeInv, FlightInv, Images, AttemptsLeft
    <2>3. /\ posts'[msg] = posts[msg] + 1
          /\ posts'[msg] <= mem.msgs[msg].attempts + 1
          /\ mem.msgs[msg].attempts \in Nat
          /\ \A o \in Msgs \ {msg} : posts'[o] = posts[o]
      BY <1>0, <2>1 DEF Message
    <2>4. \A o \in Msgs : posts'[o] <= MaxAttempts
      BY <1>0, <2>2, <2>3
    <2>5. /\ \A o \in Msgs \ {msg} : mem'.msgs[o] = mem.msgs[o]
          /\ mem'.msgs[msg].status = "PENDING"
                => mem'.msgs[msg].attempts = mem.msgs[msg].attempts + 1
      BY <1>0, <1>7 DEF PostStep, PostAcked, PostFailed, Delivered, Failed, Retried, Image
    <2>6. Counted(mem)'
      BY <2>3, <2>5 DEF Counted
    <2>7. Recovered' = Recovered /\ Recovered = mem
      BY <1>0, <2>1 DEF fileVars, Recovered
    <2>8. Counted(Recovered)'
      BY <2>1, <2>3, <2>7 DEF Counted
    <2>9. QED
      BY <2>1, <2>4, <2>6, <2>8
  <1>8. CASE Crash
    <2>1. pc' = "down" /\ mem' = Empty /\ posts' = posts /\ Recovered' = Recovered
      BY <1>8 DEF Crash, ghostVars, fileVars, Recovered
    <2>2. QED
      BY <2>1 DEF Counted, Empty, Absent
  <1>9. CASE UNCHANGED <<mem, posts, cur, pc, job, msg>>
    BY <1>1, <1>9
  <1>10. CASE UNCHANGED <<mem, posts>> /\ pc' \in {"idle", "friend", "mark"}
    BY <1>1, <1>10
  <1>11. QED
    BY <1>2, <1>3, <1>4, <1>5, <1>6, <1>7, <1>8, <1>9, <1>10
       DEF Next, vars, SetProxy, FlushStart, FlushStep, FlushFriend, FlushEnd, Tick,
           ghostVars, fileVars

-----------------------------------------------------------------------------
\* Between FlushStart and FlushEnd.
Flushing == pc \in Running \/ (pc \in Writing /\ job \in {"mark", "failed", "delivered"})

\* m, which this flush has tried, is done before the message o of its friend.
Before(m, o) ==
    FriendOf[m] = FriendOf[o] =>
        mem.msgs[m].status = "DELIVERED" /\ CreatedAt[m] <= CreatedAt[o]

\* The friends of what was tried have been visited; a batch is of one friend, and what is
\* left of it is not before what was tried.
OrderInv ==
    /\ Flushing => \A m \in tried \cup batch : FriendOf[m] \notin todo
    /\ \A a, b \in batch : FriendOf[a] = FriendOf[b]
    /\ pc = "mark" => \A m \in tried, b \in batch : Before(m, b)
    /\ pc = "post" \/ (pc \in Writing /\ job \in {"mark", "delivered"}) =>
          /\ \A m \in tried \ {msg} : Before(m, msg)
          /\ \A b \in batch : FriendOf[b] = FriendOf[msg] /\ CreatedAt[msg] <= CreatedAt[b]
    /\ pc \in Writing /\ job = "delivered" => mem.msgs[msg].status = "DELIVERED"

LEMMA OrderInit == Init => OrderInv
  BY DEF Init, OrderInv, Flushing, Running, Writing

LEMMA OrderNext == TypeInv /\ OrderInv /\ [Next]_vars => OrderInv'
  <1> SUFFICES ASSUME TypeInv, OrderInv, [Next]_vars PROVE OrderInv'
    OBVIOUS
  <1> USE DEF OrderInv, Flushing, Running, Writing
  <1>0. /\ mem \in Image /\ msg \in Msgs /\ batch \subseteq Msgs /\ tried \subseteq Msgs
        /\ \A m \in Msgs : CreatedAt[m] \in Nat
    BY DEF TypeInv, TypeOK
  <1>1. CASE PersistStep
    <2>1. UNCHANGED <<mem, msg, job, todo, tried>> /\ pc \in Writing
      BY <1>1 DEF PersistStep, WriteTemp, MoveOld, Publish, Undo, Clean, Return,
                  ghostVars, flushVars
    <2>2. \/ pc' \in Writing /\ batch' = batch
          \/ pc' \in {"idle", "down"} /\ batch' = batch
          \/ pc' = "post" /\ batch' = batch /\ job = "mark"
          \/ pc' = "friend" /\ batch' = {} /\ Flushing
          \/ pc' = "mark" /\ batch' = batch \ {msg} /\ job = "delivered"
      BY <1>1 DEF PersistStep, WriteTemp, MoveOld, Publish, Undo, Clean, Return, Break,
                  NextFriend, NextInBatch, flushVars
    <2>3. CASE pc' \in Writing /\ batch' = batch
      BY <2>1, <2>3 DEF Before
    <2>4. CASE pc' \in {"idle", "down"} /\ batch' = batch
      BY <2>1, <2>4
    <2>5. CASE pc' = "post" /\ batch' = batch /\ job = "mark"
      BY <2>1, <2>5 DEF Before
    <2>6. CASE pc' = "friend" /\ batch' = {} /\ Flushing
      BY <2>1, <2>6
    <2>7. CASE pc' = "mark" /\ batch' = batch \ {msg} /\ job = "delivered"
      <3>1. mem.msgs[msg].status = "DELIVERED"
        BY <2>1, <2>7
      <3>2. ASSUME NEW m \in tried, NEW b \in batch
            PROVE  Before(m, b)
        BY <1>0, <2>1, <2>7, <3>1 DEF Before
      <3>3. QED
        BY <2>1, <2>7, <3>2 DEF Before
    <2>8. QED
      BY <2>2, <2>3, <2>4, <2>5, <2>6, <2>7
  <1>2. ASSUME NEW f \in Friends, FlushFriend(f)
        PROVE  OrderInv'
    <2>1. /\ pc = "friend" /\ pc' \in {"friend", "mark"} /\ f \in todo
          /\ todo' = todo \ {f} /\ UNCHANGED <<mem, tried>>
          /\ \A m \in batch' : FriendOf[m] = f
      BY <1>2 DEF FlushFriend, pendingForFriend
    <2>2. \A m \in tried : FriendOf[m] # f
      BY <2>1
    <2>3. QED
      BY <2>1, <2>2 DEF Before
  <1>3. ASSUME NEW m \in Msgs, FlushMark(m)
        PROVE  OrderInv'
    <2>1. /\ pc = "mark" /\ pc' = "write" /\ job' = "mark" /\ msg' = m /\ m \in batch
          /\ \A o \in batch : CreatedAt[m] <= CreatedAt[o]
          /\ tried' = tried \cup {m} /\ UNCHANGED <<todo, batch>>
          /\ mem.msgs[m].status = "PENDING"
      BY <1>3 DEF FlushMark, Earliest, Persist, TypeInv, FlightInv
    <2>2. \A o \in Msgs \ {m} : mem'.msgs[o] = mem.msgs[o]
      BY <1>0, <1>3 DEF FlushMark, MarkInFlight, Image
    <2>3. ASSUME NEW o \in tried, o # m
          PROVE  Before(o, m)'
      BY <1>0, <2>1, <2>2, <2>3 DEF Before
    <2>4. QED
      BY <2>1, <2>3
  <1>4. CASE PostStep
    <2>1. /\ pc = "post" /\ pc' = "write" /\ UNCHANGED <<msg, todo, batch, tried>>
          /\ \/ job' = "failed"
             \/ job' = "delivered" /\ PostAcked
      BY <1>4 DEF PostStep, PostAcked, PostFailed, Persist, flushVars
    <2>2. \A o \in Msgs \ {msg} : mem'.msgs[o] = mem.msgs[o]
      BY <1>0, <1>4 DEF PostStep, PostAcked, PostFailed, Image
    <2>3. PostAcked => mem'.msgs[msg].status = "DELIVERED"
      BY <1>0 DEF PostAcked, Delivered, Image
    <2>4. ASSUME NEW o \in tried \ {msg}
          PROVE  Before(o, msg)'
      BY <1>0, <2>1, <2>2 DEF Before
    <2>5. QED
      BY <2>1, <2>3, <2>4
  <1>5. CASE UNCHANGED <<mem, pc, job, msg, todo, batch, tried>>
    BY <1>5 DEF Before
  <1>6. CASE FlushStart
    BY <1>6 DEF FlushStart
  <1>7. CASE /\ ~Flushing' /\ pc' \notin {"mark", "post"} /\ batch' \in {batch, {}}
             /\ ~(pc' \in Writing /\ job' \in {"mark", "delivered"})
    BY <1>7
  <1>8. QED
    BY <1>1, <1>2, <1>3, <1>4, <1>5, <1>6, <1>7
       DEF Next, vars, SetProxy, Open, Enqueue, SetFriends, Persist, FlushStep, FlushEnd,
           Crash, Tick, flushVars

\* What a flush promises, for every number of messages and friends and every failure: no
\* message is POSTed more often than the cap allows, a friend's messages go out in order
\* until one of them fails, and only a fault or a crash leaves one IN_FLIGHT.
THEOREM FlushIsSound == Spec => []FlushSound
  <1>1. TypeInv /\ KeepInv /\ [Next]_vars => KeepInv'
    BY PersistKeeps, OthersKeep
  <1>2. TypeInv /\ CapInv => RetryCap
    BY DEF CapInv, RetryCap
  <1>3. TypeInv /\ OrderInv => InOrderUntilFailure
    BY DEF TypeInv, TypeOK, OrderInv, Before, InOrderUntilFailure
  <1>4. CalmInv => NoFlightAtRest
    BY DEF CalmInv, NoFlightAtRest, Writing
  <1>5. TypeInv => TypeOK
    BY DEF TypeInv
  <1>6. QED
    BY <1>1, <1>2, <1>3, <1>4, <1>5, KeepInit, CalmInit, CalmNext, CapInit, CapNext,
       OrderInit, OrderNext, TypeInvariant, PTL DEF Spec, FlushSound
-----------------------------------------------------------------------------
(***************************************************************************)
(* No orphans.                                                             *)
(***************************************************************************)

Routed(image) == \A m \in Known(image) : FriendOf[m] \in image.friends

\* A new image is routed if what it knows was known or comes with its route.
LEMMA StillRouted ==
    ASSUME NEW old \in Image, Routed(old), NEW image, NEW new,
           Known(image) \subseteq Known(old) \cup new, old.friends \subseteq image.friends,
           \A m \in new : FriendOf[m] \in image.friends
    PROVE  Routed(image)
  BY DEF Routed

\* A message becomes known by Enqueue, which lists its friend in the same step, and
\* comes back with the image it was in, of a file or of the older store; no step
\* takes a friend off the list but the loss of the whole image.
LEMMA MemoryRouted ==
    ASSUME TypeInv, NoOrphan, [Next]_vars
    PROVE  Routed(mem')
  <1>0. mem \in Image /\ Routed(mem) /\ msg \in Msgs
    BY DEF TypeInv, TypeOK, NoOrphan, Images, Routed
  <1>1. CASE Open
    <2>1. Recovered # NoFile => Routed(Recovered)
      BY DEF NoOrphan, Images, Routed, Recovered
    <2>2. Routed(Legacy)
      BY DEF Routed
    <2>3. QED
      BY <1>1, <2>1, <2>2 DEF Open
  <1>2. ASSUME NEW m \in Msgs, mem' = Admit(m)
        PROVE  Routed(mem')
    <2>1. /\ \A o \in Msgs \ {m} : mem'.msgs[o] = mem.msgs[o]
          /\ mem.friends \subseteq mem'.friends
      BY <1>0, <1>2 DEF Admit, Pend, Image
    <2>2. FriendOf[m] \in mem'.friends
      BY <1>0, <1>2 DEF Admit, Routed, Known
    <2>3. Known(mem') \subseteq Known(mem) \cup {m}
      BY <2>1 DEF Known
    <2>4. QED
      BY <1>0, <2>1, <2>2, <2>3, StillRouted
  <1>3. ASSUME NEW routes \in SUBSET Friends, SetFriends(routes)
        PROVE  Routed(mem')
    <2>1. mem'.msgs = mem.msgs /\ mem.friends \subseteq mem'.friends
      BY <1>0, <1>3 DEF SetFriends, Image
    <2>2. QED
      BY <1>0, <2>1 DEF Routed, Known
  <1>4. ASSUME NEW m \in Msgs, NEW r, mem' = [mem EXCEPT !.msgs[m] = r],
               mem.msgs[m].status # "ABSENT"
        PROVE  Routed(mem')
    <2>1. /\ \A o \in Msgs \ {m} : mem'.msgs[o] = mem.msgs[o]
          /\ mem'.friends = mem.friends
      BY <1>0, <1>4 DEF Image
    <2>2. Known(mem') \subseteq Known(mem)
      BY <1>4, <2>1 DEF Known
    <2>3. QED
      BY <1>0, <2>1, <2>2 DEF Routed
  <1>5. ASSUME NEW m \in Msgs, FlushMark(m)
        PROVE  Routed(mem')
    <2>1. mem' = [mem EXCEPT !.msgs[m].status = "IN_FLIGHT"]
      BY <1>5 DEF FlushMark, MarkInFlight
    <2>2. mem.msgs[m].status = "PENDING"
      BY <1>5 DEF FlushMark, Earliest, TypeInv, FlightInv
    <2>3. QED
      BY <1>4, <2>1, <2>2
  <1>6. CASE PostStep
    <2>1. pc = "post" /\ \E r : mem' = [mem EXCEPT !.msgs[msg] = r]
      BY <1>6 DEF PostStep, PostAcked, PostFailed
    <2>2. mem.msgs[msg].status = "IN_FLIGHT"
      BY <2>1 DEF TypeInv, FlightInv
    <2>3. QED
      BY <1>0, <1>4, <2>1, <2>2
  <1>7. CASE Crash
    BY <1>7, EmptyImage DEF Crash, Routed
  <1>8. CASE mem' = mem
    BY <1>0, <1>8
  <1>9. QED
    BY <1>1, <1>2, <1>3, <1>5, <1>6, <1>7, <1>8, PersistKeepsMemory
       DEF Next, vars, Enqueue, SetProxy, FlushStart, FlushStep, FlushFriend, FlushEnd,
           Tick

\* Every message that memory or a file knows has its friend listed there, whatever
\* crashes and fails, so that flush, which walks the friends, visits it.
THEOREM NeverOrphaned == Spec => []NoOrphan
  <1>1. Init => NoOrphan
    BY EmptyImage DEF Init, NoOrphan, Images
  <1>2. TypeInv /\ NoOrphan /\ [Next]_vars => NoOrphan'
    <2> SUFFICES ASSUME TypeInv, NoOrphan, [Next]_vars PROVE NoOrphan'
      OBVIOUS
    <2>1. \A image \in {mem', cur, bak} : image # NoFile => Routed(image)
      BY MemoryRouted DEF NoOrphan, Images, Routed
    <2>2. mem # NoFile /\ Routed(mem)
      BY DEF TypeInv, TypeOK, NoOrphan, Images, Routed
    <2>3. \A image \in {mem', cur', bak'} : image # NoFile => Routed(image)
      BY <2>1, <2>2, FilesCopy
    <2>4. QED
      BY <2>3 DEF NoOrphan, Images, Routed, Known
  <1>3. QED
    BY <1>1, <1>2, TypeInvariant, PTL DEF Spec
=============================================================================
