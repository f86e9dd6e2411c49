-------------------------- MODULE OnionInboxProofs --------------------------
(***************************************************************************)
(* Theorems about OnionInbox, proved by TLAPS.                             *)
(*                                                                         *)
(* As long as cleanup has not deleted the inbox of Own, an item's rank is  *)
(* its index: the item at position p of the inbox has rank                 *)
(* baseIndex + p - 1.  So a cursor c says that the ranks up to c have been *)
(* read, and this is what the invariant carries for the poller's cursor,   *)
(* for every abandoned request on its way, and for the page in an answer.  *)
(***************************************************************************)
EXTENDS OnionInbox, WellFoundedInduction, TLAPS

State == inbox[Own]
Readable == shown \cup expired

\* What a cursor promises: everything up to it has been shown or has expired.
ReadUpTo(c, page) == c \in Nat => c < arrivals[Own] /\ 0..c \subseteq Readable \cup page

IndexInv ==
    /\ State.baseIndex + Len(State.items) = arrivals[Own]
    /\ \A p \in 1..Len(State.items) : State.items[p].n = State.baseIndex + p - 1
    /\ 0..State.baseIndex - 1 \subseteq Readable

CursorInv ==
    /\ ReadUpTo(cursor, {})
    /\ \A after \in DOMAIN late : late[after] > 0 => ReadUpTo(after, {})

AnswerInv == poller = "answered" => ReadUpTo(answer.nextAfter, Ranks(answer.items))

UnreadInv == resets = 0 => IndexInv /\ CursorInv /\ AnswerInv

\* The part of TypeOK this argument needs.
TypeInv ==
    /\ inbox \in [Devices -> InboxState]
    /\ poller \in {"off", "timer", "sent", "answered"}
    /\ cursor \in Cursor
    /\ answer \in Page
    /\ late \in [0..MaxArrivals \cup {NoCursor} -> Nat]
    /\ arrivals \in [Devices -> Nat]
    /\ resets \in Nat

-----------------------------------------------------------------------------
\* The rest of a sequence of items after its first k.
LEMMA Rest ==
    ASSUME NEW s \in Seq(Item), NEW k \in 0..Len(s)
    PROVE  /\ SubSeq(s, k + 1, Len(s)) \in Seq(Item)
           /\ Len(SubSeq(s, k + 1, Len(s))) = Len(s) - k
           /\ \A p \in 1..Len(s) - k : SubSeq(s, k + 1, Len(s))[p] = s[k + p]
  OBVIOUS

\* Its first k items.
LEMMA First ==
    ASSUME NEW s \in Seq(Item), NEW k \in 0..Len(s)
    PROVE  /\ SubSeq(s, 1, k) \in Seq(Item)
           /\ Len(SubSeq(s, 1, k)) = k
           /\ \A p \in 1..k : SubSeq(s, 1, k)[p] = s[p]
           /\ Ranks(SubSeq(s, 1, k)) = {s[p].n : p \in 1..k}
  <1>1. /\ SubSeq(s, 1, k) \in Seq(Item)
        /\ Len(SubSeq(s, 1, k)) = k
        /\ \A p \in 1..k : SubSeq(s, 1, k)[p] = s[p]
    OBVIOUS
  <1>2. DOMAIN SubSeq(s, 1, k) = 1..k
    BY <1>1
  <1>3. QED
    BY <1>1, <1>2 DEF Ranks

\* A set of naturals has a least element: what Min chooses is a member.
LEMMA MinMember ==
    ASSUME NEW T \in SUBSET Nat, T # {}
    PROVE  Min(T) \in T /\ \A n \in T : Min(T) <= n
  <1> DEFINE Less == {ss \in Nat \X Nat : ss[1] < ss[2]}
  <1>1. \E x \in T : \A y \in T : ~(<<y, x>> \in Less)
    <2>1. IsWellFoundedOn(Less, Nat)
      BY NatLessThanWellFounded DEF OpToRel
    <2>2. QED
      BY <2>1, WFMin
  <1>2. PICK x \in T : \A y \in T : ~(<<y, x>> \in Less)
    BY <1>1
  <1>3. ASSUME NEW y \in T PROVE x <= y
    <2>1. ~(y < x)
      BY <1>2
    <2>2. QED
      BY <2>1
  <1>4. QED
    BY <1>3 DEF Min

\* findIndex never counts more items than there are.
LEMMA ExpiredCountBound ==
    ASSUME NEW s \in Seq(Item)
    PROVE  ExpiredCount(s) \in 0..Len(s)
  <1> DEFINE T == {p \in DOMAIN s : s[p].fresh} \cup {Len(s) + 1}
  <1>1. T \in SUBSET (1..Len(s) + 1) /\ T \in SUBSET Nat /\ T # {}
    <2>1. Len(s) \in Nat /\ DOMAIN s = 1..Len(s)
      OBVIOUS
    <2>2. QED
      BY <2>1
  <1>2. Min(T) \in T
    BY <1>1, MinMember
  <1>3. QED
    BY <1>1, <1>2 DEF ExpiredCount

LEMMA StateType ==
    ASSUME TypeInv
    PROVE  /\ State \in InboxState
           /\ State.baseIndex \in Nat /\ State.items \in Seq(Item)
           /\ Len(State.items) \in Nat
           /\ arrivals[Own] \in Nat
  BY DevicesAssumption DEF State, InboxState, TypeInv

\* removeItems keeps the type of a state.
LEMMA RemovedType ==
    ASSUME NEW s \in InboxState, NEW k \in 0..Len(s.items)
    PROVE  /\ Removed(s, k) \in InboxState
           /\ Removed(s, k).baseIndex = s.baseIndex + k
           /\ Len(Removed(s, k).items) = Len(s.items) - k
           /\ \A p \in 1..Len(s.items) - k : Removed(s, k).items[p] = s.items[k + p]
  BY Rest DEF Removed, InboxState

LEMMA NewInboxType == NewInbox \in InboxState
  BY DEF NewInbox, InboxState

LEMMA CleanedType ==
    ASSUME NEW s \in InboxState
    PROVE  Cleaned(s) \in InboxState
  BY ExpiredCountBound, RemovedType, NewInboxType DEF Cleaned, InboxState

-----------------------------------------------------------------------------
\* A poll never confirms more than is stored, nor beyond its cursor.
LEMMA CountBound ==
    ASSUME TypeInv, NEW after \in Cursor
    PROVE  /\ Confirmed(State, after) \in 0..Len(State.items)
           /\ Confirmed(State, after) > 0
                => after \in Nat /\ State.baseIndex + Confirmed(State, after) <= after + 1
  BY StateType DEF Confirmed, AtMost

\* Removing items that are readable keeps the numbering.
LEMMA RemoveKeepsIndex ==
    ASSUME TypeInv, IndexInv, NEW k \in 0..Len(State.items),
           State' = Removed(State, k), arrivals' = arrivals,
           Readable \subseteq Readable',
           0..State.baseIndex + k - 1 \subseteq Readable'
    PROVE  IndexInv'
  <1>1. /\ State'.baseIndex = State.baseIndex + k
        /\ Len(State'.items) = Len(State.items) - k
        /\ \A p \in 1..Len(State.items) - k : State'.items[p] = State.items[k + p]
    BY StateType, RemovedType
  <1>2. State'.baseIndex + Len(State'.items) = arrivals'[Own]
    BY <1>1, StateType DEF IndexInv
  <1>3. ASSUME NEW p \in 1..Len(State'.items)
        PROVE  State'.items[p].n = State'.baseIndex + p - 1
    <2>1. k + p \in 1..Len(State.items)
      BY <1>1, StateType
    <2>2. State.items[k + p].n = State.baseIndex + (k + p) - 1
      BY <2>1 DEF IndexInv
    <2>3. State'.items[p] = State.items[k + p]
      BY <1>1, StateType
    <2>4. State'.baseIndex + p - 1 = State.baseIndex + (k + p) - 1
      BY <1>1, StateType
    <2>5. QED
      BY <2>2, <2>3, <2>4
  <1>4. 0..State'.baseIndex - 1 \subseteq Readable'
    BY <1>1, StateType
  <1>5. QED
    BY <1>2, <1>3, <1>4 DEF IndexInv

-----------------------------------------------------------------------------
LEMMA TypeStore ==
    ASSUME TypeInv, NEW d \in Devices, NEW id \in Ids, Store(d, id)
    PROVE  TypeInv'
  <1>1. [id |-> id, n |-> arrivals[d], fresh |-> TRUE] \in Item
    BY DEF TypeInv, Item
  <1>2. inbox' \in [Devices -> InboxState]
    BY <1>1 DEF TypeInv, Store, Push, InboxState
  <1>3. arrivals' \in [Devices -> Nat]
    BY DEF TypeInv, Store
  <1>4. QED
    BY <1>2, <1>3 DEF TypeInv, Store, pollerVars

LEMMA TypeConfirm ==
    ASSUME TypeInv, NEW after \in Cursor, Confirm(after)
    PROVE  inbox' \in [Devices -> InboxState]
  <1>1. Removed(State, Confirmed(State, after)) \in InboxState
    BY CountBound, RemovedType, StateType
  <1>2. QED
    BY <1>1 DEF Confirm, TypeInv, State

LEMMA TypePage ==
    ASSUME TypeInv, NEW after \in Cursor
    PROVE  PageAfter(after) \in Page
  <1> DEFINE state == Removed(State, Confirmed(State, after))
             length == AtMost(PageLimit, Len(state.items))
             page == SubSeq(state.items, 1, length)
  <1>1. state \in InboxState
    BY CountBound, RemovedType, StateType
  <1>2. state.baseIndex \in Nat /\ state.items \in Seq(Item) /\ Len(state.items) \in Nat
    BY <1>1 DEF InboxState
  <1>3. length \in 0..Len(state.items)
    BY <1>2, LimitsAssumption DEF AtMost
  <1>4. page \in Seq(Item) /\ Len(page) = length
    BY <1>2, <1>3, First
  <1>5. NextAfter(state, page, after) \in Cursor
    <2>1. CASE page = <<>>
      BY <2>1 DEF NextAfter
    <2>2. CASE page # <<>>
      <3>1. Len(page) \in Nat \ {0}
        BY <2>2, <1>4
      <3>2. state.baseIndex + Len(page) - 1 \in Nat
        <4> HIDE DEF state, length, page
        <4>1. QED
          BY <3>1, <1>2
      <3>3. QED
        BY <2>2, <3>2 DEF NextAfter, Cursor
    <2>3. QED
      BY <2>1, <2>2
  <1>6. PageAfter(after) = [items |-> page, nextAfter |-> NextAfter(state, page, after)]
    BY DEF PageAfter, State
  <1>7. QED
    BY <1>4, <1>5, <1>6 DEF Page

\* Expiring keeps everything else.
LEMMA AgedType ==
    ASSUME NEW s \in InboxState, NEW p \in DOMAIN s.items
    PROVE  /\ Aged(s, p) \in InboxState
           /\ Aged(s, p).baseIndex = s.baseIndex
           /\ Len(Aged(s, p).items) = Len(s.items)
           /\ \A q \in 1..Len(s.items) : Aged(s, p).items[q].n = s.items[q].n
  <1>1. s.items \in Seq(Item) /\ s.baseIndex \in Nat
    BY DEF InboxState
  <1>2. s.items[p] \in Item
    BY <1>1
  <1>3. Stale(s.items[p]) \in Item /\ Stale(s.items[p]).n = s.items[p].n
    BY <1>2 DEF Stale, Item
  <1> DEFINE stale == [s.items EXCEPT ![p] = Stale(@)]
  <1>4. /\ stale \in Seq(Item) /\ Len(stale) = Len(s.items)
        /\ \A q \in 1..Len(s.items) : stale[q].n = s.items[q].n
    BY <1>1, <1>3
  <1>5. Aged(s, p) = [baseIndex |-> s.baseIndex, items |-> stale]
    BY DEF Aged
  <1>6. QED
    BY <1>1, <1>4, <1>5 DEF InboxState

LEMMA TypeInit ==
    ASSUME Init
    PROVE  TypeInv
  <1>1. NoPage \in Page
    BY DEF NoPage, Page, Cursor
  <1>2. QED
    BY <1>1, NewInboxType DEF Init, TypeInv, Cursor

LEMMA TypeStep ==
    ASSUME TypeInv, [Next]_vars
    PROVE  TypeInv'
  <1>1. CASE \E d \in Devices, id \in Ids : Ingest(d, id)
    BY <1>1, TypeStore DEF Ingest
  <1>2. CASE \E id \in Ids : SendToSelf(id)
    BY <1>2, TypeStore, DevicesAssumption DEF SendToSelf
  <1>3. CASE \E after \in DOMAIN late : ServeLate(after)
    <2>1. PICK after \in DOMAIN late : ServeLate(after)
      BY <1>3
    <2>2. after \in Cursor
      BY <2>1, BoundsAssumption DEF TypeInv, Cursor
    <2>3. inbox' \in [Devices -> InboxState]
      BY <2>1, <2>2, TypeConfirm DEF ServeLate
    <2>4. late' \in [0..MaxArrivals \cup {NoCursor} -> Nat]
      BY <2>1 DEF ServeLate, TypeInv
    <2>5. QED
      BY <2>1, <2>3, <2>4 DEF ServeLate, TypeInv, ghostVars
  <1>4. CASE \E d \in Devices, p \in 1..MaxDeviceItems : Expire(d, p)
    <2>1. PICK d \in Devices, p \in 1..MaxDeviceItems : Expire(d, p)
      BY <1>4
    <2>2. inbox[d] \in InboxState
      BY DEF TypeInv
    <2>3. Aged(inbox[d], p) \in InboxState
      BY <2>1, <2>2, AgedType DEF Expire
    <2>7. inbox' \in [Devices -> InboxState]
      BY <2>1, <2>3 DEF TypeInv, Expire
    <2>8. QED
      BY <2>1, <2>7 DEF Expire, TypeInv, pollerVars, ghostVars
  <1>5. CASE Serve
    <2>1. inbox' \in [Devices -> InboxState] /\ answer' \in Page
      BY <1>5, TypeConfirm, TypePage DEF Serve, TypeInv
    <2>2. QED
      BY <1>5, <2>1 DEF Serve, TypeInv, ghostVars
  <1>6. CASE Cleanup
    <2>1. inbox' \in [Devices -> InboxState]
      BY <1>6, CleanedType DEF Cleanup, TypeInv
    <2>2. resets' \in Nat
      <3>1. resets' = IF inbox[Own] # NewInbox /\ inbox'[Own] = NewInbox
                        THEN resets + 1 ELSE resets
        BY <1>6, Zenon DEF Cleanup
      <3>2. QED
        BY <3>1 DEF TypeInv
    <2>3. UNCHANGED <<poller, cursor, answer, late, arrivals>>
      BY <1>6 DEF Cleanup, pollerVars
    <2>4. QED
      BY <2>1, <2>2, <2>3 DEF TypeInv
  <1>7. CASE Start \/ Poll
    BY <1>7 DEF Start, Poll, TypeInv, controllerVars, ghostVars, Cursor
  <1>8. CASE PollFails \/ Stop
    <2>1. late' \in [0..MaxArrivals \cup {NoCursor} -> Nat] /\ answer' \in Page
      <3>1. LeaveRequest
        BY <1>8 DEF PollFails, Stop
      <3>2. NoPage \in Page
        BY DEF NoPage, Page, Cursor
      <3>3. answer' \in Page
        BY <3>1, <3>2 DEF LeaveRequest, TypeInv
      <3>4. late' \in [0..MaxArrivals \cup {NoCursor} -> Nat]
        <4>1. CASE UNCHANGED late
          BY <4>1 DEF TypeInv
        <4>2. CASE late' = [late EXCEPT ![cursor] = @ + 1]
          <5>1. CASE cursor \in DOMAIN late
            BY <4>2, <5>1 DEF TypeInv
          <5>2. CASE cursor \notin DOMAIN late
            BY <4>2, <5>2 DEF TypeInv
          <5>3. QED
            BY <5>1, <5>2
        <4>3. QED
          BY <3>1, <4>1, <4>2 DEF LeaveRequest
      <3>5. QED
        BY <3>3, <3>4
    <2>2. QED
      BY <1>8, <2>1 DEF PollFails, Stop, TypeInv, controllerVars, ghostVars
  <1>9. CASE Receive
    <2>1. NoPage \in Page /\ cursor' \in Cursor
      BY <1>9 DEF NoPage, Page, Cursor, Receive, TypeInv
    <2>2. QED
      BY <1>9, <2>1 DEF Receive, TypeInv, controllerVars
  <1>10. CASE UNCHANGED vars
    BY <1>10 DEF vars, controllerVars, pollerVars, ghostVars, TypeInv
  <1>11. QED
    BY <1>1, <1>2, <1>3, <1>4, <1>5, <1>6, <1>7, <1>8, <1>9, <1>10 DEF Next

-----------------------------------------------------------------------------
\* More items and more readers leave every promise standing.
Kept == arrivals[Own] <= arrivals'[Own] /\ Readable \subseteq Readable'

LEMMA CursorsKept ==
    ASSUME TypeInv, TypeInv', CursorInv, UNCHANGED <<cursor, late>>, Kept
    PROVE  CursorInv'
  <1>1. arrivals[Own] \in Nat /\ arrivals'[Own] \in Nat
    BY DevicesAssumption DEF TypeInv
  <1>2. ReadUpTo(cursor, {})'
    BY <1>1 DEF CursorInv, ReadUpTo, Kept
  <1>3. ASSUME NEW after \in DOMAIN late', late'[after] > 0
        PROVE  ReadUpTo(after, {})'
    BY <1>1, <1>3 DEF CursorInv, ReadUpTo, Kept
  <1>4. QED
    BY <1>2, <1>3 DEF CursorInv

LEMMA AnswerKept ==
    ASSUME TypeInv, TypeInv', AnswerInv, UNCHANGED <<poller, answer>>, Kept
    PROVE  AnswerInv'
  <1>1. arrivals[Own] \in Nat /\ arrivals'[Own] \in Nat
    BY DevicesAssumption DEF TypeInv
  <1>2. QED
    BY <1>1 DEF AnswerInv, ReadUpTo, Kept

LEMMA IndexKept ==
    ASSUME TypeInv, IndexInv, UNCHANGED <<State, arrivals>>, Readable \subseteq Readable'
    PROVE  IndexInv'
  BY DEF IndexInv

LEMMA UnreadStore ==
    ASSUME TypeInv, TypeInv', UnreadInv, NEW d \in Devices, NEW id \in Ids, Store(d, id)
    PROVE  UnreadInv'
  <1> SUFFICES ASSUME resets' = 0 PROVE (IndexInv /\ CursorInv /\ AnswerInv)'
    BY DEF UnreadInv
  <1>1. IndexInv /\ CursorInv /\ AnswerInv
    BY DEF UnreadInv, Store
  <1>2. Readable' = Readable
    BY DEF Store, Readable
  <1>3. Kept
    BY <1>2, DevicesAssumption DEF Kept, Store, TypeInv
  <1>4. CursorInv' /\ AnswerInv'
    BY <1>1, <1>3, CursorsKept, AnswerKept DEF Store, pollerVars
  <1>5. IndexInv'
    <2>1. CASE d # Own
      <3>1. UNCHANGED <<State, arrivals[Own]>>
        BY <2>1, DevicesAssumption DEF Store, State, TypeInv
      <3>2. QED
        BY <1>1, <1>2, <3>1 DEF IndexInv
    <2>2. CASE d = Own
      <3> DEFINE item == [id |-> id, n |-> arrivals[Own], fresh |-> TRUE]
      <3>1. /\ State'.baseIndex = State.baseIndex
            /\ State'.items = Append(State.items, item)
            /\ arrivals'[Own] = arrivals[Own] + 1
        BY <2>2, DevicesAssumption DEF Store, State, TypeInv, Push
      <3>2. item \in Item
        BY StateType DEF Item
      <3>3. /\ Len(State'.items) = Len(State.items) + 1
            /\ \A p \in 1..Len(State.items) : State'.items[p] = State.items[p]
            /\ State'.items[Len(State.items) + 1].n = arrivals[Own]
        BY <3>1, <3>2, StateType
      <3>4. State'.baseIndex + Len(State'.items) = arrivals'[Own]
        BY <1>1, <3>1, <3>3, StateType DEF IndexInv
      <3>5. ASSUME NEW p \in 1..Len(State'.items)
            PROVE  State'.items[p].n = State'.baseIndex + p - 1
        <4>1. CASE p \in 1..Len(State.items)
          BY <1>1, <3>1, <3>3, <4>1 DEF IndexInv
        <4>2. CASE p = Len(State.items) + 1
          BY <1>1, <3>1, <3>3, <4>2, StateType DEF IndexInv
        <4>3. QED
          BY <3>3, <4>1, <4>2, StateType
      <3>6. 0..State'.baseIndex - 1 \subseteq Readable'
        BY <1>1, <1>2, <3>1 DEF IndexInv
      <3>7. QED
        BY <3>4, <3>5, <3>6 DEF IndexInv
    <2>3. QED
      BY <2>1, <2>2
  <1>6. QED
    BY <1>4, <1>5

\* What a poll confirms has been read.
LEMMA IndexConfirm ==
    ASSUME TypeInv, TypeInv', IndexInv, NEW after \in Cursor, ReadUpTo(after, {}),
           Confirm(after), UNCHANGED ghostVars
    PROVE  IndexInv'
  <1> DEFINE count == Confirmed(State, after)
  <1>1. count \in 0..Len(State.items)
    BY CountBound
  <1>2. State' = Removed(State, count)
    BY DevicesAssumption DEF Confirm, State, TypeInv
  <1>3. Readable' = Readable /\ arrivals' = arrivals
    BY DEF ghostVars, Readable
  <1>4. 0..State.baseIndex + count - 1 \subseteq Readable
    <2>1. CASE count = 0
      BY <2>1, StateType DEF IndexInv
    <2>2. CASE count > 0
      <3>1. after \in Nat /\ State.baseIndex + count <= after + 1
        BY <2>2, CountBound
      <3>2. 0..after \subseteq Readable
        BY <3>1 DEF ReadUpTo
      <3>3. QED
        BY <1>1, <3>1, <3>2, StateType
    <2>3. QED
      BY <1>1, <2>1, <2>2
  <1>5. QED
    <2> HIDE DEF count
    <2>1. QED
      BY <1>1, <1>2, <1>3, <1>4, RemoveKeepsIndex

\* The page a poll is answered with is what its next cursor promises.
LEMMA UnreadServe ==
    ASSUME TypeInv, TypeInv', UnreadInv, Serve
    PROVE  UnreadInv'
  <1> SUFFICES ASSUME resets' = 0 PROVE (IndexInv /\ CursorInv /\ AnswerInv)'
    BY DEF UnreadInv
  <1>1. IndexInv /\ CursorInv /\ AnswerInv /\ cursor \in Cursor
    BY DEF UnreadInv, Serve, ghostVars, TypeInv
  <1>2. Readable' = Readable /\ arrivals' = arrivals /\ Kept
    BY DevicesAssumption DEF Serve, ghostVars, Readable, Kept, TypeInv
  <1>3. IndexInv'
    BY <1>1, IndexConfirm DEF Serve, CursorInv
  <1>4. CursorInv'
    BY <1>1, <1>2, CursorsKept DEF Serve
  <1>5. AnswerInv'
    <2> DEFINE after == cursor
               length == AtMost(PageLimit, Len(State'.items))
               page == SubSeq(State'.items, 1, length)
    <2>1. State' = Removed(State, Confirmed(State, cursor))
      BY DevicesAssumption DEF Serve, Confirm, State, TypeInv
    <2>2. answer' = [items |-> page, nextAfter |-> NextAfter(State', page, cursor)]
      BY <2>1 DEF Serve, PageAfter, State
    <2>3. /\ State'.baseIndex \in Nat /\ State'.items \in Seq(Item)
          /\ Len(State'.items) \in Nat /\ arrivals'[Own] \in Nat
      BY DevicesAssumption DEF TypeInv, State, InboxState
    <2>4. length \in 0..Len(State'.items)
      BY <2>3, LimitsAssumption DEF AtMost
    <2>5. /\ Len(page) = length
          /\ page = <<>> <=> length = 0
          /\ Ranks(page) = {State'.items[p].n : p \in 1..length}
      BY <2>3, <2>4, First
    <2>6. CASE page = <<>>
      <3>1. answer'.nextAfter = cursor
        BY <2>2, <2>6 DEF NextAfter
      <3>2. QED
        BY <1>1, <1>2, <3>1 DEF AnswerInv, CursorInv, ReadUpTo
    <2>7. CASE page # <<>>
      <3>1. answer'.nextAfter = State'.baseIndex + length - 1 /\ length > 0
        BY <2>2, <2>4, <2>5, <2>7 DEF NextAfter
      <3>2. answer'.items = page
        BY <2>2
      <3> HIDE DEF page, length
      <3>3. answer'.nextAfter < arrivals'[Own]
        BY <1>3, <2>3, <2>4, <3>1 DEF IndexInv
      <3>4. ASSUME NEW n \in 0..answer'.nextAfter, n \notin Readable'
            PROVE  n \in Ranks(page)
        <4>1. n >= State'.baseIndex
          BY <1>3, <3>1, <3>4, <2>3, <2>4 DEF IndexInv
        <4>2. n - State'.baseIndex + 1 \in 1..length
          BY <3>1, <4>1, <2>3, <2>4
        <4>3. State'.items[n - State'.baseIndex + 1].n = n
          <5> DEFINE p == n - State'.baseIndex + 1
          <5>1. p \in 1..Len(State'.items) /\ State'.baseIndex + p - 1 = n
            BY <4>2, <2>3, <2>4
          <5>2. State'.items[p].n = State'.baseIndex + p - 1
            <6> HIDE DEF p
            <6>1. QED
              BY <1>3, <5>1 DEF IndexInv
          <5>3. QED
            BY <5>1, <5>2
        <4>4. QED
          BY <2>5, <4>2, <4>3
      <3>5. QED
        BY <3>2, <3>3, <3>4 DEF AnswerInv, ReadUpTo
    <2>8. QED
      BY <2>6, <2>7
  <1>6. QED
    BY <1>3, <1>4, <1>5

LEMMA UnreadServeLate ==
    ASSUME TypeInv, TypeInv', UnreadInv, NEW after \in DOMAIN late, ServeLate(after)
    PROVE  UnreadInv'
  <1> SUFFICES ASSUME resets' = 0 PROVE (IndexInv /\ CursorInv /\ AnswerInv)'
    BY DEF UnreadInv
  <1>1. IndexInv /\ CursorInv /\ AnswerInv
    BY DEF UnreadInv, ServeLate, ghostVars
  <1>2. after \in Cursor /\ ReadUpTo(after, {})
    BY <1>1, BoundsAssumption DEF ServeLate, CursorInv, TypeInv, Cursor
  <1>3. Readable' = Readable /\ arrivals' = arrivals /\ Kept
    BY DevicesAssumption DEF ServeLate, ghostVars, Readable, Kept, TypeInv
  <1>4. IndexInv'
    BY <1>1, <1>2, IndexConfirm DEF ServeLate
  <1>5. AnswerInv'
    BY <1>1, <1>3, AnswerKept DEF ServeLate
  <1>6. CursorInv'
    <2>1. ReadUpTo(cursor, {})'
      BY <1>1, <1>3 DEF CursorInv, ReadUpTo, ServeLate
    <2>2. ASSUME NEW a \in DOMAIN late', late'[a] > 0
          PROVE  ReadUpTo(a, {})'
      <3>1. a \in DOMAIN late /\ late[a] > 0
        BY <2>2 DEF ServeLate, TypeInv
      <3>2. QED
        BY <1>1, <1>3, <3>1 DEF CursorInv, ReadUpTo
    <2>3. QED
      BY <2>1, <2>2 DEF CursorInv
  <1>7. QED
    BY <1>4, <1>5, <1>6

LEMMA UnreadExpire ==
    ASSUME TypeInv, TypeInv', UnreadInv,
           NEW d \in Devices, NEW p \in 1..MaxDeviceItems, Expire(d, p)
    PROVE  UnreadInv'
  <1> SUFFICES ASSUME resets' = 0 PROVE (IndexInv /\ CursorInv /\ AnswerInv)'
    BY DEF UnreadInv
  <1>1. IndexInv /\ CursorInv /\ AnswerInv
    BY DEF UnreadInv, Expire, ghostVars
  <1>2. Readable' = Readable /\ arrivals' = arrivals /\ Kept
    BY DevicesAssumption DEF Expire, ghostVars, Readable, Kept, TypeInv
  <1>3. CursorInv' /\ AnswerInv'
    BY <1>1, <1>2, CursorsKept, AnswerKept DEF Expire, pollerVars
  <1>4. IndexInv'
    <2>1. CASE d # Own
      <3>1. State' = State
        BY <2>1 DEF Expire, State, TypeInv
      <3>2. QED
        BY <1>1, <1>2, <3>1, IndexKept
    <2>2. CASE d = Own
      <3>1. State' = Aged(State, p) /\ p \in DOMAIN State.items
        BY <2>2 DEF Expire, State, TypeInv
      <3>2. /\ State'.baseIndex = State.baseIndex
            /\ Len(State'.items) = Len(State.items)
            /\ \A q \in 1..Len(State.items) : State'.items[q].n = State.items[q].n
        BY <3>1, StateType, AgedType
      <3>3. QED
        BY <1>1, <1>2, <3>2 DEF IndexInv
    <2>3. QED
      BY <2>1, <2>2
  <1>5. QED
    BY <1>3, <1>4

LEMMA UnreadCleanup ==
    ASSUME TypeInv, TypeInv', UnreadInv, Cleanup
    PROVE  UnreadInv'
  <1> SUFFICES ASSUME resets' = 0 PROVE (IndexInv /\ CursorInv /\ AnswerInv)'
    BY DEF UnreadInv
  <1> DEFINE count == ExpiredCount(State.items)
  <1>1. /\ resets' = IF State # NewInbox /\ State' = NewInbox THEN resets + 1 ELSE resets
        /\ State' = Cleaned(State)
        /\ expired' = expired \cup Ranks(SubSeq(State.items, 1, count))
        /\ UNCHANGED <<poller, cursor, answer, late, arrivals, shown>>
    BY DevicesAssumption, Zenon DEF Cleanup, State, Gone, pollerVars
  <1>2. resets = 0 /\ (State = NewInbox \/ State' # NewInbox)
    BY <1>1 DEF TypeInv
  <1>3. IndexInv /\ CursorInv /\ AnswerInv
    BY <1>2 DEF UnreadInv
  <1>4. Readable \subseteq Readable' /\ Kept
    BY <1>1, StateType DEF Readable, Kept
  <1>5. CursorInv' /\ AnswerInv'
    BY <1>1, <1>3, <1>4, CursorsKept, AnswerKept
  <1>6. count \in 0..Len(State.items)
    BY StateType, ExpiredCountBound
  <1>7. CASE State' = NewInbox
    <2>1. State' = State
      BY <1>2, <1>7
    <2>2. QED
      BY <1>1, <1>3, <1>4, <1>5, <2>1, IndexKept
  <1>8. CASE State' # NewInbox
    <2>1. State' = Removed(State, count)
      BY <1>1, <1>8 DEF Cleaned
    <2>2. 0..State.baseIndex + count - 1 \subseteq Readable'
      <3>1. ASSUME NEW n \in State.baseIndex..State.baseIndex + count - 1
            PROVE  n \in Ranks(SubSeq(State.items, 1, count))
        <4> DEFINE p == n - State.baseIndex + 1
        <4>1. p \in 1..count /\ p \in 1..Len(State.items) /\ State.baseIndex + p - 1 = n
          <5> HIDE DEF count
          <5>1. State.baseIndex \in Nat
            BY StateType
          <5>2. QED
            BY <1>6, <5>1
        <4>2. State.items[p].n = State.baseIndex + p - 1
          <5> HIDE DEF p
          <5>1. QED
            BY <1>3, <4>1 DEF IndexInv
        <4>3. Ranks(SubSeq(State.items, 1, count)) = {State.items[q].n : q \in 1..count}
          <5> HIDE DEF p, count
          <5>1. QED
            BY <1>6, StateType, First
        <4>4. QED
          BY <4>1, <4>2, <4>3
      <3>2. 0..State.baseIndex - 1 \subseteq Readable'
        BY <1>3, <1>4 DEF IndexInv
      <3>3. Ranks(SubSeq(State.items, 1, count)) \subseteq Readable'
        BY <1>1 DEF Readable
      <3>4. QED
        <4> HIDE DEF count
        <4>1. QED
          BY <1>6, <3>1, <3>2, <3>3, StateType
    <2>3. IndexInv'
      <3> HIDE DEF count
      <3>1. QED
        BY <1>1, <1>3, <1>4, <1>6, <2>1, <2>2, RemoveKeepsIndex
    <2>4. QED
      BY <1>5, <2>3
  <1>9. QED
    BY <1>7, <1>8

LEMMA UnreadReceive ==
    ASSUME TypeInv, TypeInv', UnreadInv, Receive
    PROVE  UnreadInv'
  <1> SUFFICES ASSUME resets' = 0 PROVE (IndexInv /\ CursorInv /\ AnswerInv)'
    BY DEF UnreadInv
  <1>1. IndexInv /\ CursorInv /\ AnswerInv
    BY DEF UnreadInv, Receive
  <1>2. /\ Readable' = Readable \cup Ranks(answer.items)
        /\ UNCHANGED <<State, arrivals, late>>
    BY DEF Receive, Readable, State, controllerVars
  <1>3. ReadUpTo(cursor, {})'
    BY <1>1, <1>2 DEF Receive, AnswerInv, ReadUpTo
  <1>4. CursorInv'
    BY <1>1, <1>2, <1>3 DEF CursorInv, ReadUpTo
  <1>5. AnswerInv'
    BY DEF Receive, AnswerInv
  <1>6. QED
    BY <1>1, <1>2, <1>4, <1>5, IndexKept

\* start() forgets the cursor; a request left behind carries the old one.
LEMMA UnreadPolling ==
    ASSUME TypeInv, TypeInv', UnreadInv, Start \/ Poll \/ PollFails \/ Stop
    PROVE  UnreadInv'
  <1> SUFFICES ASSUME resets' = 0 PROVE (IndexInv /\ CursorInv /\ AnswerInv)'
    BY DEF UnreadInv
  <1>1. /\ UNCHANGED <<State, arrivals, shown, expired, resets>>
        /\ cursor' = cursor \/ cursor' = NoCursor
        /\ poller' # "answered"
    BY DEF Start, Poll, PollFails, Stop, State, controllerVars, ghostVars
  <1>2. IndexInv /\ CursorInv /\ Readable' = Readable
    BY <1>1 DEF UnreadInv, Readable
  <1>3. ReadUpTo(cursor, {})'
    BY <1>1, <1>2, NullsAssumption DEF CursorInv, ReadUpTo
  <1>4. ASSUME NEW after \in DOMAIN late', late'[after] > 0
        PROVE  ReadUpTo(after, {})'
    <2>1. after \in DOMAIN late /\ (late[after] > 0 \/ after = cursor)
      <3>1. late' = late \/ late' = [late EXCEPT ![cursor] = @ + 1]
        BY DEF Start, Poll, PollFails, Stop, LeaveRequest
      <3>2. QED
        BY <1>4, <3>1 DEF TypeInv
    <2>2. QED
      BY <1>1, <1>2, <2>1 DEF CursorInv, ReadUpTo
  <1>5. QED
    BY <1>1, <1>2, <1>3, <1>4, IndexKept DEF CursorInv, AnswerInv

LEMMA UnreadStep ==
    ASSUME TypeInv, TypeInv', UnreadInv, [Next]_vars
    PROVE  UnreadInv'
  <1>1. CASE Next
    BY <1>1, DevicesAssumption, UnreadStore, UnreadServe, UnreadServeLate, UnreadExpire,
       UnreadCleanup, UnreadReceive, UnreadPolling DEF Next, Ingest, SendToSelf
  <1>2. CASE UNCHANGED vars
    BY <1>2 DEF vars, controllerVars, pollerVars, ghostVars, UnreadInv, IndexInv, CursorInv,
                AnswerInv, ReadUpTo, Readable, State
  <1>3. QED
    BY <1>1, <1>2

\* Every message accepted with 200 is in the inbox, has expired or has been handed
\* to the subscribers of the poller, in every order of polls, lost and late answers,
\* restarts, expiries and ingests, until cleanup deletes the inbox of a device.
THEOREM UnreadSurvives == Spec => []UnreadLostOnlyByReset
  <1>1. Init => TypeInv /\ UnreadInv
    <2>1. Init => IndexInv /\ CursorInv /\ AnswerInv
      BY DevicesAssumption, NullsAssumption DEF Init, NewInbox, IndexInv, CursorInv, AnswerInv,
         ReadUpTo, State
    <2>2. QED
      BY <2>1, TypeInit DEF UnreadInv
  <1>2. TypeInv /\ UnreadInv /\ [Next]_vars => (TypeInv /\ UnreadInv)'
    BY TypeStep, UnreadStep
  <1>3. TypeInv /\ UnreadInv => UnreadLostOnlyByReset
    <2> SUFFICES ASSUME TypeInv, UnreadInv, resets = 0, NEW n \in 0..arrivals[Own] - 1,
                        n \notin Readable
                 PROVE  n \in Stored
      BY DEF UnreadLostOnlyByReset, NothingDroppedUnread, Readable
    <2>1. IndexInv
      BY DEF UnreadInv
    <2> DEFINE p == n - State.baseIndex + 1
    <2>2. p \in 1..Len(State.items) /\ State.baseIndex + p - 1 = n
      BY <2>1, StateType DEF IndexInv
    <2>3. State.items[p].n = State.baseIndex + p - 1
      <3> HIDE DEF p
      <3>1. QED
        BY <2>1, <2>2 DEF IndexInv
    <2>4. DOMAIN State.items = 1..Len(State.items)
      BY StateType
    <2>5. QED
      BY <2>2, <2>3, <2>4 DEF Stored, Ranks, State
  <1>4. QED
    BY <1>1, <1>2, <1>3, PTL DEF Spec
=============================================================================
