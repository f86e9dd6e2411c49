---------------------------- MODULE ArrivingProofs ----------------------------
(***************************************************************************)
(* Proofs about what arrives and is shown (MCArriving): the read receipts  *)
(* of two devices (ReadCursors), the messages of a conversation            *)
(* (ChatHistory), a group (Groups), two sides that greet each other        *)
(* (Handshake) and messages that are forwarded or queued (Forward).        *)
(***************************************************************************)
EXTENDS MCArriving, FiniteSetTheorems, SequenceTheorems, TLAPS

-----------------------------------------------------------------------------
(***************************************************************************)
(* Read receipts (ReadCursors).                                            *)
(***************************************************************************)

Calls == [at : Stages, ts : 0..MaxTs, had : 0..MaxTs]

\* What a device is to keep or tell comes from the reader's view.
FromView ==
    /\ OwnRead \cup leaving \cup mailed \subseteq viewed /\ applied \subseteq mailed
    /\ pending \in viewed \cup {0}
    /\ \A s \in Puts : LET c == puts["reader"][s]
                       IN  c.at # "idle" => /\ c.ts \in viewed
                                            /\ c.at = "put" => c.had \in viewed \cup {0}
    /\ read["peer"] \subseteq mailed /\ stored["peer"] \in mailed \cup {0}
    /\ \A s \in Puts : LET c == puts["peer"][s]
                       IN  c.at # "idle" => /\ c.ts \in mailed
                                            /\ c.at = "put" => c.had \in mailed \cup {0}

\* What is on its way to the peer, or will be, unless it is overtaken by something newer.
Telling(m) == \E s \in Puts : puts["reader"][s].at \in {"mark", "tell"}
                              /\ puts["reader"][s].ts = m
Waiting == mailed \cup leaving \cup {m \in Stamps : m = pending \/ Telling(m)}
Covered(m) == m = 0 \/ \E c \in Waiting : m <= c

\* Without a cause, everything that the reader's device takes for read, or a call has read of
\* it, is told or newer is; what was noted as sent is.
Told ==
    /\ pending # 0 => timer # "off"
    /\ causes = {} =>
           /\ sentTs = 0 \/ sentTs \in mailed \cup leaving
           /\ \A m \in read["reader"] : Covered(m)
           /\ Covered(stored["reader"])
           /\ \A s \in Puts : puts["reader"][s].at = "put" => Covered(puts["reader"][s].had)

\* Unless puts of the peer have overlapped, one that is to write has read what it replaces.
UpToDate ==
    ~raced => \A s \in Puts : puts["peer"][s].at = "put" => puts["peer"][s].had = stored["peer"]

CursorInv == CursorTypeOK /\ FromView /\ Told /\ UpToDate /\ LogIsCounted

LEMMA Numbers == MaxTs \in Nat /\ MaxRestarts \in Nat
  BY ReadAssumption

LEMMA CallTypes ==
    ASSUME CursorTypeOK
    PROVE  /\ puts \in [Owners -> [Puts -> Calls]]
           /\ \A d \in Owners, s \in Puts : puts[d][s] \in Calls
           /\ "reader" \in Owners /\ "peer" \in Owners /\ Stamps \subseteq 0..MaxTs
           /\ Free \in Calls /\ Free.at = "idle"
           /\ \A where \in Stages, m \in 0..MaxTs, c \in 0..MaxTs :
                  /\ At(where, m, c) \in Calls
                  /\ At(where, m, c).at = where /\ At(where, m, c).ts = m
                  /\ At(where, m, c).had = c
  BY Numbers DEF CursorTypeOK, Calls, Owners, Free, At, Stages, Stamps

\* What becomes of the calls when one of them goes on.
CallIs(d, s, call) ==
    /\ puts' \in [Owners -> [Puts -> Calls]]
    /\ puts'[d][s] = call
    /\ \A e \in Owners, t \in Puts : e # d \/ t # s => puts'[e][t] = puts[e][t]

LEMMA CallChanges ==
    ASSUME CursorTypeOK, NEW d \in Owners, NEW s \in Puts, NEW call \in Calls,
           Becomes(d, s, call)
    PROVE  CallIs(d, s, call)
  BY CallTypes DEF Becomes, CallIs

LEMMA WaitingIs ==
    ASSUME CursorTypeOK
    PROVE  Waiting \subseteq Stamps
  BY DEF Waiting, CursorTypeOK

\* What is covered stays so, when whatever is on its way is, or is overtaken.
LEMMA StillCovered ==
    ASSUME CursorTypeOK, CursorTypeOK',
           \A c \in Waiting : \E e \in Waiting' : c <= e,
           NEW m \in 0..MaxTs, Covered(m)
    PROVE  m = 0 \/ \E e \in Waiting' : m <= e
<1>1. CASE m = 0  BY <1>1
<1>2. CASE m # 0
  <2>1. PICK c \in Waiting : m <= c  BY <1>2 DEF Covered
  <2>2. PICK e \in Waiting' : c <= e  BY <2>1
  <2>3. Waiting \subseteq Nat /\ Waiting' \subseteq Nat
    <3>1. Waiting \subseteq Stamps  BY WaitingIs
    <3>2. Waiting' \subseteq Stamps  BY DEF Waiting, CursorTypeOK
    <3>3. Stamps \subseteq Nat  BY Numbers DEF Stamps
    <3> QED  BY <3>1, <3>2, <3>3
  <2> QED  BY <2>1, <2>2, <2>3, Numbers
<1> QED  BY <1>1, <1>2

\* The view, the preference and the cursors that the view has read.
LEMMA ViewSteps ==
    ASSUME CursorInv, MessageArrives \/ SetPreference \/ RefreshReadCursors
    PROVE  CursorInv'
<1> USE DEF CursorInv, storedVars, throttleVars, travelVars, historyVars
<1>1. CursorTypeOK'
  <2>1. CASE MessageArrives
    BY <2>1, Numbers
    DEF CursorTypeOK, MessageArrives, storedVars, throttleVars, travelVars, historyVars
  <2>2. CASE SetPreference
    BY <2>2 DEF CursorTypeOK, SetPreference
  <2>3. CASE RefreshReadCursors
    BY <2>3 DEF CursorTypeOK, RefreshReadCursors, Owners
  <2> QED  BY <2>1, <2>2, <2>3
<1>2. UNCHANGED <<storedVars, puts, throttleVars, leaving, travelVars, historyVars>>
  BY DEF MessageArrives, SetPreference, RefreshReadCursors
<1>3. FromView'  BY <1>2 DEF FromView, OwnRead
<1>4. Told'  BY <1>2 DEF Told, Covered, Waiting, Telling
<1>5. UpToDate' /\ LogIsCounted'  BY <1>2 DEF UpToDate, LogIsCounted, CallsAt
<1> QED  BY <1>1, <1>3, <1>4, <1>5

\* A message comes into view, and is found not to be told yet.
LEMMA LookSteps ==
    ASSUME CursorInv, NEW s \in Puts, ComesIntoView(s) \/ SendReceipt(s)
    PROVE  CursorInv'
<1>1. PICK call \in Calls :
          /\ Becomes("reader", s, call)
          /\ call.at \in {"idle", "check", "get"}
          /\ call.at # "idle" => call.ts \in viewed'
  <2>1. CASE ComesIntoView(s)
    <3> DEFINE call == At("check", newest, viewCursor)
    <3>1. newest \in 0..MaxTs /\ viewCursor \in 0..MaxTs  BY DEF CursorInv, CursorTypeOK
    <3>2. call \in Calls /\ call.at = "check" /\ call.ts = newest
      BY <3>1, CallTypes DEF CursorInv, Stages
    <3>3. Becomes("reader", s, call) /\ newest \in viewed'  BY <2>1 DEF ComesIntoView
    <3> QED  BY <3>2, <3>3
  <2>2. CASE SendReceipt(s)
    <3> DEFINE c == puts["reader"][s]
    <3> DEFINE call == IF c.ts \in read["reader"] \/ c.had >= c.ts
                       THEN Free ELSE At("get", c.ts, 0)
    <3>1. c \in Calls /\ c.ts \in 0..MaxTs /\ 0 \in 0..MaxTs
      BY CallTypes, Numbers DEF CursorInv, Calls
    <3>2. /\ call \in Calls /\ call.at \in {"idle", "get"}
          /\ call.at # "idle" => call.ts = c.ts
      BY <3>1, CallTypes DEF CursorInv, Stages
    <3>3. Becomes("reader", s, call) /\ viewed' = viewed /\ c.at = "check"
      BY <2>2 DEF SendReceipt, historyVars, Is
    <3>4. c.ts \in viewed  BY <3>3 DEF CursorInv, FromView
    <3> QED  BY <3>2, <3>3, <3>4
  <2> QED  BY <2>1, <2>2
<1>2. CallIs("reader", s, call)  BY <1>1, CallChanges, CallTypes DEF CursorInv
<1>3. /\ puts["reader"][s].at \in {"idle", "check"}
      /\ UNCHANGED <<viewVars, storedVars, throttleVars, leaving, travelVars, restarts, raced,
                     causes, cut>>
      /\ viewed \subseteq viewed' /\ viewed' \subseteq viewed \cup {newest}
      /\ newest \in viewed' \ viewed => newest > 0
  BY DEF ComesIntoView, SendReceipt, Is, historyVars
<1>4. CursorTypeOK'
  BY <1>2, <1>3, Numbers
  DEF CursorInv, CursorTypeOK, CallIs, Calls, viewVars, storedVars, throttleVars, travelVars, Stamps
<1>5. FromView'
  BY <1>1, <1>2, <1>3, CallTypes
  DEF CursorInv, FromView, OwnRead, CallIs, storedVars, throttleVars, travelVars
<1>6. ASSUME NEW t \in Puts,
             \/ puts["reader"][t].at \in {"put", "mark", "tell"}
             \/ puts'["reader"][t].at \in {"put", "mark", "tell"}
      PROVE  puts'["reader"][t] = puts["reader"][t]
  <2>1. puts'["reader"][s].at \in {"idle", "check", "get"}  BY <1>1, <1>2 DEF CallIs
  <2>2. t # s  BY <1>3, <1>6, <2>1
  <2> QED  BY <1>2, <2>2, CallTypes DEF CallIs, CursorInv
<1>7. Waiting' = Waiting
  BY <1>3, <1>6 DEF Waiting, Telling, throttleVars, travelVars
<1>8. Told'
  BY <1>3, <1>6, <1>7 DEF CursorInv, Told, Covered, storedVars, throttleVars, travelVars
<1>9. \A t \in Puts : puts'["peer"][t] = puts["peer"][t]
  BY <1>2, CallTypes DEF CallIs, CursorInv
<1>10. UpToDate' /\ LogIsCounted'
  BY <1>3, <1>9 DEF CursorInv, UpToDate, LogIsCounted, CallsAt, storedVars, travelVars
<1> QED  BY <1>4, <1>5, <1>8, <1>10 DEF CursorInv

\* putReadCursor of the reader's device.
LEMMA OwnPutSteps ==
    ASSUME CursorInv, NEW s \in Puts,
           \/ GetCursor("reader", s) \/ PutCursor("reader", s) \/ PutMark("reader", s)
    PROVE  CursorInv'
<1>0. PICK c \in Calls : c = puts["reader"][s]  BY CallTypes DEF CursorInv
<1>1. /\ CursorTypeOK /\ c.ts \in 0..MaxTs /\ c.had \in 0..MaxTs
      /\ 0 \in 0..MaxTs /\ stored["reader"] \in 0..MaxTs
  <2>1. CursorTypeOK /\ 0 \in 0..MaxTs  BY Numbers DEF CursorInv
  <2>2. c.ts \in 0..MaxTs /\ c.had \in 0..MaxTs  BY DEF Calls
  <2> QED  BY <2>1, <2>2, CallTypes DEF CursorTypeOK, Owners
<1>2. /\ UNCHANGED <<viewVars, throttleVars, leaving, travelVars, restarts, viewed, raced, causes,
                     cut>>
      /\ stored'["peer"] = stored["peer"] /\ read'["peer"] = read["peer"]
  BY CallTypes, <1>1
  DEF GetCursor, PutCursor, PutMark, storedVars, historyVars, CursorTypeOK, Owners
<1>3. \A m \in 0..MaxTs : \A n \in 0..MaxTs :
          Greater(m, n) \in {m, n} /\ m <= Greater(m, n) /\ n <= Greater(m, n)
  BY Numbers DEF Greater
<1>4. PICK call \in Calls :
          /\ Becomes("reader", s, call)
          /\ call.ts = c.ts /\ call.at \in {"put", "mark", "tell"}
          /\ c.at \in {"get", "put", "mark"}
          /\ call.at = "put" => (call.had = stored["reader"] /\ UNCHANGED storedVars)
          /\ call.at = "mark" => /\ c.at = "put" /\ stored'["reader"] = Greater(c.had, c.ts)
                                 /\ stored' \in [Owners -> 0..MaxTs] /\ read' = read
          /\ call.at = "tell" => /\ read'["reader"] = read["reader"] \cup {c.ts}
                                 /\ c.at = "mark" /\ stored' = stored
          /\ c.at = "mark" => call.at = "tell"
  <2>1. CASE GetCursor("reader", s)
    <3> DEFINE call == At("put", c.ts, stored["reader"])
    <3>1. call \in Calls /\ call.at = "put" /\ call.ts = c.ts /\ call.had = stored["reader"]
      BY <1>1, CallTypes DEF Stages
    <3>2. Becomes("reader", s, call) /\ c.at = "get" /\ UNCHANGED storedVars
      BY <2>1, <1>0 DEF GetCursor, Is
    <3> QED  BY <3>1, <3>2
  <2>2. CASE PutCursor("reader", s)
    <3> DEFINE call == At("mark", c.ts, 0)
    <3>1. call \in Calls /\ call.at = "mark" /\ call.ts = c.ts
      BY <1>1, CallTypes DEF Stages
    <3>2. Becomes("reader", s, call) /\ c.at = "put" /\ read' = read
      BY <2>2, <1>0 DEF PutCursor, Is
    <3>3. stored' = [stored EXCEPT !["reader"] = Greater(c.had, c.ts)]
      BY <2>2, <1>0 DEF PutCursor, NextCursor
    <3>4. /\ stored'["reader"] = Greater(c.had, c.ts)
          /\ stored' \in [Owners -> 0..MaxTs]
      BY <3>3, <1>1, <1>3 DEF CursorTypeOK, Owners
    <3> QED  BY <3>1, <3>2, <3>4
  <2>3. CASE PutMark("reader", s)
    <3> DEFINE call == At("tell", c.ts, 0)
    <3>1. call \in Calls /\ call.at = "tell" /\ call.ts = c.ts
      BY <1>1, CallTypes DEF Stages
    <3>2. Becomes("reader", s, call) /\ c.at = "mark" /\ stored' = stored
      BY <2>3, <1>0 DEF PutMark, Is
    <3>3. read'["reader"] = read["reader"] \cup {c.ts}
      BY <2>3, <1>0, <1>1 DEF PutMark, CursorTypeOK, Owners
    <3> QED  BY <3>1, <3>2, <3>3
  <2> QED  BY <2>1, <2>2, <2>3
<1>5. CallIs("reader", s, call)  BY <1>1, <1>4, CallChanges, CallTypes
<1>6. c.ts \in viewed /\ (c.at = "put" => c.had \in viewed \cup {0})
      /\ viewed \subseteq Stamps /\ c.ts \in Stamps
  BY <1>0, <1>4 DEF CursorInv, FromView, CursorTypeOK
<1>7. read' \in [Owners -> SUBSET Stamps]
  BY <1>1, <1>2, <1>4, <1>6
  DEF CursorTypeOK, storedVars, PutMark, Owners, GetCursor, PutCursor
<1>8. CursorTypeOK'
  BY <1>1, <1>2, <1>4, <1>5, <1>7, Numbers
  DEF CursorTypeOK, CallIs, Calls, viewVars, storedVars, throttleVars, travelVars
<1>9. stored'["reader"] \in viewed \cup {0} /\ read'["reader"] \subseteq viewed
  BY <1>1, <1>3, <1>4, <1>6 DEF CursorInv, FromView, OwnRead, storedVars
<1>10. FromView'
  <2>1. (OwnRead \cup leaving \cup mailed \subseteq viewed)' /\ (applied \subseteq mailed)'
    BY <1>2, <1>9 DEF CursorInv, FromView, OwnRead, throttleVars, travelVars
  <2>2. (pending \in viewed \cup {0})'
    BY <1>2 DEF CursorInv, FromView, throttleVars
  <2>3. /\ call.ts \in viewed
        /\ call.at = "put" => call.had \in viewed \cup {0}
    BY <1>4, <1>6 DEF CursorInv, FromView, OwnRead
  <2>4. (\A t \in Puts : LET d == puts["reader"][t]
                         IN  d.at # "idle" => /\ d.ts \in viewed
                                              /\ d.at = "put" => d.had \in viewed \cup {0})'
    BY <1>2, <1>5, <2>3, CallTypes, <1>1 DEF CursorInv, FromView, CallIs
  <2>5. (read["peer"] \subseteq mailed /\ stored["peer"] \in mailed \cup {0})'
    BY <1>2 DEF CursorInv, FromView, travelVars
  <2>6. (\A t \in Puts : LET d == puts["peer"][t]
                         IN  d.at # "idle" => /\ d.ts \in mailed
                                              /\ d.at = "put" => d.had \in mailed \cup {0})'
    BY <1>2, <1>5, CallTypes, <1>1 DEF CursorInv, FromView, CallIs, travelVars
  <2> QED  BY <2>1, <2>2, <2>4, <2>5, <2>6 DEF FromView
<1>11. \A m \in 0..MaxTs : Telling(m) => Telling(m)'
  BY <1>0, <1>1, <1>4, <1>5, CallTypes DEF Telling, CallIs
<1>12. Waiting \subseteq Waiting'
  BY <1>2, <1>11, CallTypes, <1>1 DEF Waiting, throttleVars, travelVars
<1>13. \A m \in 0..MaxTs : Covered(m) => Covered(m)'
  BY <1>12 DEF Covered
<1>14. call.at \in {"mark", "tell"} => Covered(c.ts)'
  <2> SUFFICES ASSUME call.at \in {"mark", "tell"} PROVE Covered(c.ts)'
    OBVIOUS
  <2>1. Telling(c.ts)'  BY <1>4, <1>5 DEF Telling, CallIs
  <2>2. c.ts \in Waiting'  BY <2>1, <1>6 DEF Waiting
  <2>3. c.ts <= c.ts  BY <1>1, Numbers
  <2> QED  BY <2>2, <2>3 DEF Covered
<1>15. Told'
  <2>1. (pending # 0 => timer # "off")'  BY <1>2 DEF CursorInv, Told, throttleVars
  <2> SUFFICES ASSUME causes' = {}
               PROVE  /\ (sentTs = 0 \/ sentTs \in mailed \cup leaving)'
                      /\ (\A m \in read["reader"] : Covered(m))'
                      /\ Covered(stored["reader"])'
                      /\ (\A t \in Puts : puts["reader"][t].at = "put" =>
                                              Covered(puts["reader"][t].had))'
    BY <2>1 DEF Told
  <2>2. causes = {}  BY <1>2
  <2>3. (sentTs = 0 \/ sentTs \in mailed \cup leaving)'
    BY <1>2, <2>2 DEF CursorInv, Told, throttleVars, travelVars
  <2>4. (\A m \in read["reader"] : Covered(m))'
    <3>1. \A m \in read["reader"] : m \in 0..MaxTs
      BY <1>1, Numbers DEF CursorTypeOK, Owners, Stamps
    <3>2. \A m \in read'["reader"] : m \in read["reader"] \/ (call.at = "tell" /\ m = c.ts)
      BY <1>4 DEF storedVars
    <3> QED  BY <3>1, <3>2, <1>13, <1>14, <2>2 DEF CursorInv, Told
  <2>5. Covered(stored["reader"])  BY <2>2 DEF CursorInv, Told
  <2>6. c.at = "put" => Covered(c.had)  BY <1>0, <2>2 DEF CursorInv, Told
  <2>7. Covered(stored["reader"])'
    <3>1. CASE call.at = "mark"
      <4>1. stored'["reader"] \in {c.had, c.ts}  BY <3>1, <1>1, <1>3, <1>4
      <4>2. Covered(c.had)' /\ Covered(c.ts)'  BY <3>1, <1>1, <1>4, <1>13, <1>14, <2>6
      <4> QED  BY <4>1, <4>2 DEF Covered
    <3>2. CASE call.at # "mark"
      <4>1. stored' = stored  BY <3>2, <1>4 DEF storedVars
      <4> QED  BY <4>1, <2>5, <1>13, <1>1 DEF Covered
    <3> QED  BY <3>1, <3>2
  <2>8. ASSUME NEW t \in Puts, puts'["reader"][t].at = "put"
        PROVE  Covered(puts["reader"][t].had)'
    <3>1. CASE t = s
      <4>1. puts'["reader"][t].had = stored["reader"]  BY <3>1, <2>8, <1>4, <1>5 DEF CallIs
      <4>2. Covered(stored["reader"]) /\ stored["reader"] \in 0..MaxTs  BY <2>5, <1>1
      <4> QED  BY <4>1, <4>2, <1>13 DEF Covered
    <3>2. CASE t # s
      <4>1. puts'["reader"][t] = puts["reader"][t]  BY <3>2, <1>5, CallTypes, <1>1 DEF CallIs
      <4>2. Covered(puts["reader"][t].had) /\ puts["reader"][t].had \in 0..MaxTs
        BY <4>1, <2>8, <2>2, CallTypes, <1>1 DEF CursorInv, Told, Calls
      <4> QED  BY <4>1, <4>2, <1>13 DEF Covered
    <3> QED  BY <3>1, <3>2
  <2> QED  BY <2>3, <2>4, <2>7, <2>8
<1>16. \A t \in Puts : puts'["peer"][t] = puts["peer"][t]
  BY <1>5, CallTypes, <1>1 DEF CallIs
<1>17. UpToDate' /\ LogIsCounted'
  BY <1>2, <1>16 DEF CursorInv, UpToDate, LogIsCounted, CallsAt, travelVars
<1> QED  BY <1>8, <1>10, <1>15, <1>17 DEF CursorInv

\* What is sent at once, by a call or by the timer.
LEMMA SendSteps ==
    ASSUME CursorInv, (\E s \in Puts : Throttle(s)) \/ TimerFires
    PROVE  CursorInv'
<1>1. /\ CursorTypeOK /\ pending \in 0..MaxTs /\ sentTs \in 0..MaxTs /\ 0 \in 0..MaxTs
      /\ viewed \subseteq Stamps /\ Stamps \subseteq 0..MaxTs
  BY Numbers, CallTypes DEF CursorInv, CursorTypeOK
<1>2. /\ UNCHANGED <<viewVars, storedVars, travelVars, restarts, viewed, raced, cut>>
      /\ causes \subseteq causes' /\ causes' \subseteq causes \cup {"overtaken"}
  BY DEF Throttle, TimerFires, historyVars
\* The calls: one of those that were to tell is done.
<1>3. /\ puts' \in [Owners -> [Puts -> Calls]]
      /\ \A t \in Puts : puts'["peer"][t] = puts["peer"][t]
      /\ \A t \in Puts : \/ puts'["reader"][t] = puts["reader"][t]
                         \/ /\ puts'["reader"][t].at = "idle"
                            /\ puts["reader"][t].at = "tell"
  <2>1. CASE \E s \in Puts : Throttle(s)
    <3>1. PICK s \in Puts : Throttle(s)  BY <2>1
    <3>2. CallIs("reader", s, Free) /\ puts["reader"][s].at = "tell"
      BY <3>1, <1>1, CallChanges, CallTypes DEF Throttle, Is
    <3> QED  BY <3>2, CallTypes, <1>1 DEF CallIs
  <2>2. CASE TimerFires  BY <2>2, CallTypes, <1>1 DEF TimerFires
  <2> QED  BY <2>1, <2>2
\* What of it is noted, sent or put off.
<1>4. /\ pending' \in viewed \cup {0} /\ leaving \subseteq leaving' /\ leaving' \subseteq viewed
      /\ timer' \in {"off", "set", "due"} /\ cooling' \in BOOLEAN
      /\ sentTs' = sentTs \/ sentTs' \in leaving' \cap viewed
      /\ pending' # 0 => timer' # "off"
  <2>1. CASE \E s \in Puts : Throttle(s)
    <3>1. PICK s \in Puts : Throttle(s)  BY <2>1
    <3>2. PICK m \in viewed : m = puts["reader"][s].ts
      BY <3>1 DEF CursorInv, FromView, Throttle, Is
    <3>3. \/ UNCHANGED <<throttleVars, leaving>>
          \/ /\ pending' = Greater(pending, m)
             /\ timer' = IF timer = "off" THEN "set" ELSE timer
             /\ UNCHANGED <<cooling, sentTs, leaving>>
          \/ pending' = 0 /\ SendNow(m) /\ UNCHANGED timer
      BY <3>1, <3>2 DEF Throttle
    <3>4. leaving \subseteq viewed /\ pending \in viewed \cup {0}
      BY DEF CursorInv, FromView
    <3>5. pending # 0 => timer # "off"  BY DEF CursorInv, Told
    <3>6. timer \in {"off", "set", "due"} /\ cooling \in BOOLEAN  BY <1>1 DEF CursorTypeOK
    <3> QED  BY <3>2, <3>3, <3>4, <3>5, <3>6, <1>1 DEF SendNow, Greater, throttleVars
  <2>2. CASE TimerFires
    <3>1. leaving \subseteq viewed /\ pending \in viewed \cup {0}
      BY DEF CursorInv, FromView
    <3>2. pending > sentTs => pending \in viewed
      BY <3>1, <1>1, Numbers
    <3> QED  BY <2>2, <3>1, <3>2, <1>1 DEF TimerFires, SendNow, CursorTypeOK
  <2> QED  BY <2>1, <2>2
<1>5. CursorTypeOK'
  BY <1>1, <1>2, <1>3, <1>4
  DEF CursorTypeOK, viewVars, storedVars, travelVars, Calls
<1>6. FromView'
  BY <1>2, <1>3, <1>4, CallTypes, <1>1
  DEF CursorInv, FromView, OwnRead, storedVars, travelVars
<1>7. ASSUME causes' = {}
      PROVE  /\ (sentTs = 0 \/ sentTs \in mailed \cup leaving)'
             /\ \A e \in Waiting : \E f \in Waiting' : e <= f
  <2>1. causes = {}  BY <1>7, <1>2
  <2>2. sentTs = 0 \/ sentTs \in mailed \cup leaving  BY <2>1 DEF CursorInv, Told
  <2>3. (sentTs = 0 \/ sentTs \in mailed \cup leaving)'  BY <2>2, <1>2, <1>4 DEF travelVars
  <2>4. mailed \cup leaving \subseteq Waiting'  BY <1>2, <1>4 DEF Waiting, travelVars
  <2>5. leaving' \subseteq Waiting'  BY DEF Waiting
  <2>6. \A e \in Stamps : e <= e  BY Numbers DEF Stamps
  <2>7. ASSUME NEW e \in Stamps, e <= sentTs
        PROVE  \E f \in Waiting' : e <= f
    <3>1. sentTs # 0  BY <2>7, Numbers DEF Stamps
    <3> QED  BY <3>1, <2>2, <2>4, <2>7
  <2>8. ASSUME pending # 0
        PROVE  \E f \in Waiting' : pending <= f
    <3>0. pending \in Stamps  BY <2>8, <1>1, Numbers DEF Stamps
    <3>1. CASE \E s \in Puts : Throttle(s)
      <4>1. PICK s \in Puts : Throttle(s)  BY <3>1
      <4>2. PICK m \in viewed : m = puts["reader"][s].ts
        BY <4>1 DEF CursorInv, FromView, Throttle, Is
      <4>3. CASE pending' = pending
        BY <4>3, <3>0, <2>6 DEF Waiting
      <4>4. CASE pending' = Greater(pending, m)
        <5>1. pending' \in Stamps /\ pending <= pending'
          BY <4>4, <4>2, <3>0, <1>1, Numbers DEF Greater, Stamps
        <5> QED  BY <5>1 DEF Waiting
      <4>5. CASE pending' = 0 /\ SendNow(m) /\ ~(pending > m)
        <5>1. m \in leaving' /\ pending <= m
          BY <4>5, <4>2, <3>0, <1>1, Numbers DEF SendNow, Stamps
        <5> QED  BY <5>1, <2>5
      <4> QED  BY <4>1, <4>2, <4>3, <4>4, <4>5, <1>7 DEF Throttle, throttleVars
    <3>2. CASE TimerFires
      <4>1. CASE pending > sentTs
        <5>1. pending \in leaving'  BY <3>2, <4>1 DEF TimerFires, SendNow
        <5> QED  BY <5>1, <2>5, <2>6, <3>0
      <4>2. CASE ~(pending > sentTs)
        <5>1. pending <= sentTs  BY <4>2, <1>1, Numbers
        <5> QED  BY <5>1, <2>7, <3>0
      <4> QED  BY <4>1, <4>2
    <3> QED  BY <3>1, <3>2
  <2>9. ASSUME NEW e \in Stamps, Telling(e)
        PROVE  \E f \in Waiting' : e <= f
    <3>1. PICK t \in Puts : puts["reader"][t].at \in {"mark", "tell"} /\ puts["reader"][t].ts = e
      BY <2>9 DEF Telling
    <3>2. CASE puts'["reader"][t] = puts["reader"][t]
      <4>1. e \in Waiting'  BY <3>1, <3>2 DEF Waiting, Telling
      <4> QED  BY <4>1, <2>6
    <3>3. CASE puts'["reader"][t] # puts["reader"][t]
      <4>1. PICK s \in Puts : Throttle(s)
        BY <3>3, CallTypes, <1>1 DEF TimerFires
      <4>2. s = t  BY <4>1, <3>3, <1>1, CallChanges, CallTypes DEF Throttle, CallIs
      <4>3. CASE e <= sentTs  BY <4>3, <2>7
      <4>4. CASE ~(e <= sentTs) /\ pending' = Greater(pending, e)
        <5>1. pending' \in Stamps /\ e <= pending'
          BY <4>4, <1>1, Numbers DEF Greater, Stamps
        <5> QED  BY <5>1 DEF Waiting
      <4>5. CASE ~(e <= sentTs) /\ SendNow(e)
        <5>1. e \in leaving'  BY <4>5 DEF SendNow
        <5> QED  BY <5>1, <2>5, <2>6
      <4> QED  BY <4>1, <4>2, <4>3, <4>4, <4>5, <3>1 DEF Throttle
    <3> QED  BY <3>2, <3>3
  <2>10. \A e \in Waiting : 
            e \in mailed \cup leaving \/ (e = pending /\ pending # 0) \/ Telling(e)
    BY Numbers DEF Waiting, Stamps
  <2>11. Waiting \subseteq Stamps  BY WaitingIs, <1>1
  <2> QED  BY <2>3, <2>4, <2>6, <2>8, <2>9, <2>10, <2>11
<1>8. Told'
  <2>1. (pending # 0 => timer # "off")'  BY <1>4
  <2> SUFFICES ASSUME causes' = {}
               PROVE  /\ (sentTs = 0 \/ sentTs \in mailed \cup leaving)'
                      /\ (\A m \in read["reader"] : Covered(m))'
                      /\ Covered(stored["reader"])'
                      /\ (\A t \in Puts : puts["reader"][t].at = "put" =>
                                              Covered(puts["reader"][t].had))'
    BY <2>1 DEF Told
  <2>2. \A m \in 0..MaxTs : Covered(m) => Covered(m)'
    BY <1>1, <1>5, <1>7, StillCovered DEF Covered
  <2>3. causes = {}  BY <1>2
  <2>4. /\ read["reader"] \subseteq 0..MaxTs /\ stored["reader"] \in 0..MaxTs
        /\ \A t \in Puts : puts["reader"][t].had \in 0..MaxTs
    BY <1>1, CallTypes DEF CursorTypeOK, Owners, Calls
  <2>5. (\A m \in read["reader"] : Covered(m))'
    BY <2>2, <2>3, <2>4, <1>2 DEF CursorInv, Told, storedVars
  <2>6. Covered(stored["reader"])'
    <3>1. stored' = stored  BY <1>2 DEF storedVars
    <3>2. Covered(stored["reader"])  BY <2>3 DEF CursorInv, Told
    <3> QED  BY <3>1, <3>2, <2>2, <2>4 DEF Covered
  <2>7. ASSUME NEW t \in Puts, puts'["reader"][t].at = "put"
        PROVE  Covered(puts["reader"][t].had)'
    <3>1. puts'["reader"][t] = puts["reader"][t]  BY <2>7, <1>3
    <3>2. Covered(puts["reader"][t].had)  BY <3>1, <2>7, <2>3 DEF CursorInv, Told
    <3> QED  BY <3>1, <3>2, <2>2, <2>4 DEF Covered
  <2> QED  BY <1>7, <2>5, <2>6, <2>7
<1>9. UpToDate' /\ LogIsCounted'
  BY <1>2, <1>3 DEF CursorInv, UpToDate, LogIsCounted, CallsAt, storedVars, travelVars
<1> QED  BY <1>5, <1>6, <1>8, <1>9 DEF CursorInv

\* The throttle's time passes; an envelope is mailed, or cannot be.
LEMMA TravelSteps ==
    ASSUME CursorInv, Cool \/ \E m \in Stamps : SendEnvelope(m)
    PROVE  CursorInv'
<1>1. /\ UNCHANGED <<viewVars, storedVars, puts, pending, sentTs, applied, heard, restarts, viewed,
                     raced, cut>>
      /\ causes \subseteq causes' /\ causes' \subseteq causes \cup {"failed"}
      /\ timer' = timer \/ (timer = "set" /\ timer' = "due")
      /\ cooling' \in BOOLEAN
      /\ leaving' \subseteq leaving /\ mailed \subseteq mailed'
      /\ mailed' \subseteq mailed \cup leaving
      /\ causes' = {} => mailed' \cup leaving' = mailed \cup leaving
  <2>1. CASE Cool
    <3>1. cooling' = FALSE /\ UNCHANGED <<pending, sentTs, causes, leaving, travelVars>>
      BY <2>1 DEF Cool, historyVars
    <3> QED
      BY <2>1, <3>1 DEF Cool, throttleVars, travelVars, historyVars, CursorInv, CursorTypeOK
  <2>2. CASE \E m \in Stamps : SendEnvelope(m)
    BY <2>2 DEF SendEnvelope, throttleVars, travelVars, historyVars, CursorInv, CursorTypeOK
  <2> QED  BY <2>1, <2>2
<1>2. CursorTypeOK'
  BY <1>1 DEF CursorInv, CursorTypeOK, viewVars, storedVars
<1>3. FromView'
  BY <1>1 DEF CursorInv, FromView, OwnRead, storedVars
<1>4. causes' = {} => Waiting' = Waiting
  BY <1>1 DEF Waiting, Telling
<1>5. Told'
  BY <1>1, <1>4 DEF CursorInv, Told, Covered, storedVars
<1>6. UpToDate' /\ LogIsCounted'
  BY <1>1 DEF CursorInv, UpToDate, LogIsCounted, CallsAt, storedVars
<1> QED  BY <1>2, <1>3, <1>5, <1>6 DEF CursorInv

\* What arrives at the peer is opened, and the peer's log is replayed.
LEMMA PeerSteps ==
    ASSUME CursorInv, NEW s \in Puts,
           OpenReceipt(s) \/ \E m \in Stamps : ReceiveReceipt(s, m) \/ ReplayReceipt(s, m)
    PROVE  CursorInv'
<1>1. CursorTypeOK /\ 0 \in 0..MaxTs /\ mailed \subseteq Stamps /\ Stamps \subseteq 0..MaxTs
      /\ applied \subseteq mailed /\ heard \in 0..MaxTs
  <2>1. CursorTypeOK /\ applied \subseteq mailed  BY DEF CursorInv, FromView
  <2>2. Stamps \subseteq 0..MaxTs  BY <2>1, CallTypes
  <2>3. mailed \subseteq Stamps /\ heard \in 0..MaxTs  BY <2>1 DEF CursorTypeOK
  <2>4. 0 \in 0..MaxTs  BY Numbers
  <2> QED  BY <2>1, <2>2, <2>3, <2>4
<1>2. PICK call \in Calls :
          /\ Becomes("peer", s, call) \/ puts' = puts
          /\ UNCHANGED <<viewVars, storedVars, throttleVars, leaving, mailed, restarts,
                         historyVars>>
          /\ puts["peer"][s].at \in {"idle", "open"}
          /\ call.at \in {"idle", "open", "get"}
          /\ call.at # "idle" => call.ts \in mailed
          /\ applied \subseteq applied' /\ applied' \subseteq mailed
          /\ heard' \in 0..MaxTs
          /\ \A m \in applied' \ applied :
                 m = call.ts /\ call.at = "get" /\ Becomes("peer", s, call)
  <2>1. CASE OpenReceipt(s)
    <3> DEFINE m == puts["peer"][s].ts
    <3> DEFINE call == At("get", m, 0)
    <3>1. m \in mailed /\ puts["peer"][s].at = "open"
      BY <2>1 DEF OpenReceipt, Is, CursorInv, FromView
    <3>2. call \in Calls /\ call.at = "get" /\ call.ts = m
      <4>1. m \in 0..MaxTs /\ "get" \in Stages  BY <3>1, <1>1 DEF Stages
      <4> HIDE DEF m
      <4> QED  BY <4>1, <1>1, CallTypes
    <3>3. CASE /\ applied' = applied \cup {m} /\ heard' = Greater(heard, m)
               /\ Becomes("peer", s, call)
      <4>1. heard' \in 0..MaxTs  BY <3>3, <3>1, <1>1 DEF Greater
      <4> QED  BY <2>1, <3>1, <3>2, <3>3, <4>1, <1>1 DEF OpenReceipt
    <3>4. CASE Becomes("peer", s, Free) /\ UNCHANGED <<applied, heard>>
      BY <2>1, <3>1, <3>4, <1>1, CallTypes DEF OpenReceipt
    <3> QED  BY <2>1, <3>3, <3>4 DEF OpenReceipt
  <2>2. CASE \E m \in Stamps : ReceiveReceipt(s, m)
    <3>1. PICK m \in Stamps : ReceiveReceipt(s, m)  BY <2>2
    <3> DEFINE call == At("open", m, 0)
    <3>2. call \in Calls /\ call.at = "open" /\ call.ts = m
      BY <3>1, <1>1, CallTypes DEF Stages
    <3> QED  BY <3>1, <3>2, <1>1 DEF ReceiveReceipt, Is
  <2>3. CASE \E m \in Stamps : ReplayReceipt(s, m)
    <3>1. PICK m \in Stamps : ReplayReceipt(s, m)  BY <2>3
    <3> DEFINE call == At("get", m, 0)
    <3>2. call \in Calls /\ call.at = "get" /\ call.ts = m
      BY <3>1, <1>1, CallTypes DEF Stages
    <3> QED  BY <3>1, <3>2, <1>1 DEF ReplayReceipt, Is, travelVars
  <2> QED  BY <2>1, <2>2, <2>3
<1>3. /\ puts' \in [Owners -> [Puts -> Calls]]
      /\ puts'["peer"][s] = call \/ puts' = puts
      /\ \A e \in Owners, t \in Puts : e # "peer" \/ t # s => puts'[e][t] = puts[e][t]
      /\ Becomes("peer", s, call) => puts'["peer"][s] = call
  BY <1>1, <1>2, CallChanges, CallTypes DEF CallIs
<1>4. CursorTypeOK'
  BY <1>1, <1>2, <1>3, Numbers
  DEF CursorTypeOK, Calls, viewVars, storedVars, throttleVars, historyVars
<1>5. \A t \in Puts : puts'["reader"][t] = puts["reader"][t]
  BY <1>1, <1>3, CallTypes DEF Owners
<1>6. FromView'
  BY <1>1, <1>2, <1>3, <1>5, CallTypes
  DEF CursorInv, FromView, OwnRead, storedVars, throttleVars, historyVars
<1>7. Told'
  <2>1. Waiting' = Waiting  BY <1>2, <1>5 DEF Waiting, Telling, throttleVars
  <2> QED
    BY <1>2, <1>5, <2>1 DEF CursorInv, Told, Covered, storedVars, throttleVars, historyVars
<1>8. UpToDate'
  BY <1>1, <1>2, <1>3, CallTypes DEF CursorInv, UpToDate, storedVars, historyVars
<1>9. LogIsCounted'
  <2> SUFFICES ASSUME NEW c \in applied', ~raced'
               PROVE  \/ c <= stored'["peer"] \/ c \in cut'
                      \/ \E t \in CallsAt("peer", {"get", "put"})' : puts'["peer"][t].ts = c
    BY DEF LogIsCounted
  <2>1. CASE c \in applied' \ applied
    BY <2>1, <1>2, <1>3 DEF CallsAt
  <2>2. CASE c \in applied
    <3>1. CASE \E t \in CallsAt("peer", {"get", "put"}) : puts["peer"][t].ts = c
      <4>1. PICK t \in Puts : /\ puts["peer"][t].at \in {"get", "put"}
                              /\ puts["peer"][t].ts = c
        BY <3>1 DEF CallsAt
      <4>2. puts'["peer"][t] = puts["peer"][t]
        BY <4>1, <1>1, <1>2, <1>3, CallTypes
      <4> QED  BY <4>1, <4>2 DEF CallsAt
    <3>2. CASE ~\E t \in CallsAt("peer", {"get", "put"}) : puts["peer"][t].ts = c
      BY <2>2, <3>2, <1>2 DEF CursorInv, LogIsCounted, storedVars, historyVars
    <3> QED  BY <3>1, <3>2
  <2> QED  BY <2>1, <2>2
<1> QED  BY <1>4, <1>6, <1>7, <1>8, <1>9 DEF CursorInv

\* putReadCursor of the peer.
LEMMA PeerPutSteps ==
    ASSUME CursorInv, NEW s \in Puts,
           \/ GetCursor("peer", s) \/ PutCursor("peer", s) \/ PutMark("peer", s)
    PROVE  CursorInv'
<1>0. PICK c \in Calls : c = puts["peer"][s]  BY CallTypes DEF CursorInv
<1>1. /\ CursorTypeOK /\ c.ts \in 0..MaxTs /\ c.had \in 0..MaxTs
      /\ 0 \in 0..MaxTs /\ stored["peer"] \in 0..MaxTs /\ mailed \subseteq Stamps
      /\ Stamps \subseteq 0..MaxTs
  <2>1. CursorTypeOK /\ 0 \in 0..MaxTs  BY Numbers DEF CursorInv
  <2>2. c.ts \in 0..MaxTs /\ c.had \in 0..MaxTs  BY DEF Calls
  <2> QED  BY <2>1, <2>2, CallTypes DEF CursorTypeOK, Owners
<1>2. /\ UNCHANGED <<viewVars, throttleVars, leaving, travelVars, restarts, viewed, causes>>
      /\ stored'["reader"] = stored["reader"] /\ read'["reader"] = read["reader"]
      /\ (raced => raced') /\ raced' \in BOOLEAN
      /\ cut' = cut \/ (cut' = cut \ {c.ts} /\ stored'["peer"] = Greater(c.had, c.ts))
  <2>1. CASE PutCursor("peer", s)
    <3>1. stored'["peer"] = Greater(c.had, c.ts) /\ stored'["reader"] = stored["reader"]
      BY <2>1, <1>0, <1>1 DEF PutCursor, NextCursor, CursorTypeOK, Owners
    <3> QED
      BY <2>1, <1>0, <1>1, <3>1 DEF PutCursor, CursorTypeOK
  <2>2. CASE ~PutCursor("peer", s)
    BY <2>2, CallTypes, <1>1
    DEF GetCursor, PutMark, storedVars, historyVars, CursorTypeOK, Owners
  <2> QED  BY <2>1, <2>2
<1>3. \A m \in 0..MaxTs : \A n \in 0..MaxTs :
          Greater(m, n) \in {m, n} /\ m <= Greater(m, n) /\ n <= Greater(m, n)
  BY Numbers DEF Greater
<1>4. PICK call \in Calls :
          /\ Becomes("peer", s, call)
          /\ call.at \in {"put", "mark", "idle"} /\ c.at \in {"get", "put", "mark"}
          /\ call.at # "idle" => call.ts = c.ts
          /\ call.at = "put" => /\ c.at = "get" /\ call.had = stored["peer"]
                                /\ UNCHANGED <<storedVars, raced, cut>>
          /\ call.at = "mark" => /\ c.at = "put" /\ stored'["peer"] = Greater(c.had, c.ts)
                                 /\ stored' \in [Owners -> 0..MaxTs] /\ read' = read
                                 /\ ~raced' => \A t \in Puts \ {s} : puts["peer"][t].at # "put"
          /\ call.at = "idle" => /\ read'["peer"] = read["peer"] \cup {c.ts}
                                 /\ c.at = "mark" /\ UNCHANGED <<stored, raced, cut>>
  <2>1. CASE GetCursor("peer", s)
    <3> DEFINE call == At("put", c.ts, stored["peer"])
    <3>1. call \in Calls /\ call.at = "put" /\ call.ts = c.ts /\ call.had = stored["peer"]
      BY <1>1, CallTypes DEF Stages
    <3>2. Becomes("peer", s, call) /\ c.at = "get" /\ UNCHANGED <<storedVars, raced, cut>>
      BY <2>1, <1>0 DEF GetCursor, Is, historyVars
    <3> QED  BY <3>1, <3>2
  <2>2. CASE PutCursor("peer", s)
    <3> DEFINE call == At("mark", c.ts, 0)
    <3>1. call \in Calls /\ call.at = "mark" /\ call.ts = c.ts
      BY <1>1, CallTypes DEF Stages
    <3>2. Becomes("peer", s, call) /\ c.at = "put" /\ read' = read
      BY <2>2, <1>0 DEF PutCursor, Is
    <3>3. stored' = [stored EXCEPT !["peer"] = Greater(c.had, c.ts)]
      BY <2>2, <1>0 DEF PutCursor, NextCursor
    <3>4. /\ stored'["peer"] = Greater(c.had, c.ts)
          /\ stored' \in [Owners -> 0..MaxTs]
      BY <3>3, <1>1, <1>3 DEF CursorTypeOK, Owners
    <3>5. ~raced' => \A t \in Puts \ {s} : puts["peer"][t].at # "put"
      BY <2>2 DEF PutCursor, Is
    <3> QED  BY <3>1, <3>2, <3>4, <3>5
  <2>3. CASE PutMark("peer", s)
    <3>1. Becomes("peer", s, Free) /\ c.at = "mark" /\ UNCHANGED <<stored, raced, cut>>
      BY <2>3, <1>0 DEF PutMark, Is, historyVars
    <3>2. read'["peer"] = read["peer"] \cup {c.ts}
      BY <2>3, <1>0, <1>1 DEF PutMark, CursorTypeOK, Owners
    <3> QED  BY <3>1, <3>2, CallTypes, <1>1
  <2> QED  BY <2>1, <2>2, <2>3
<1>5. CallIs("peer", s, call)  BY <1>1, <1>4, CallChanges, CallTypes
<1>6. /\ c.ts \in mailed /\ c.ts \in Stamps /\ (c.at = "put" => c.had \in mailed \cup {0})
      /\ stored["peer"] \in mailed \cup {0} /\ read["peer"] \subseteq mailed
  BY <1>0, <1>1, <1>4 DEF CursorInv, FromView
<1>7. read' \in [Owners -> SUBSET Stamps]
  BY <1>0, <1>1, <1>2, <1>4, <1>6
  DEF CursorTypeOK, storedVars, PutMark, Owners, GetCursor, PutCursor
<1>8. CursorTypeOK'
  BY <1>1, <1>2, <1>4, <1>5, <1>7, Numbers
  DEF CursorTypeOK, CallIs, Calls, viewVars, storedVars, throttleVars, travelVars
<1>9. /\ stored'["peer"] \in mailed \cup {0} /\ read'["peer"] \subseteq mailed
      /\ call.at = "put" => call.had \in mailed \cup {0}
  BY <1>1, <1>3, <1>4, <1>6 DEF storedVars
<1>10. \A t \in Puts : puts'["reader"][t] = puts["reader"][t]
  BY <1>5, CallTypes, <1>1 DEF CallIs
<1>11. FromView'
  <2>1. /\ (OwnRead \cup leaving \cup mailed \subseteq viewed)' /\ (applied \subseteq mailed)'
        /\ (pending \in viewed \cup {0})'
    BY <1>2 DEF CursorInv, FromView, OwnRead, throttleVars, travelVars
  <2>2. (\A t \in Puts : LET e == puts["reader"][t]
                         IN  e.at # "idle" => /\ e.ts \in viewed
                                              /\ e.at = "put" => e.had \in viewed \cup {0})'
    BY <1>2, <1>10 DEF CursorInv, FromView
  <2>3. (read["peer"] \subseteq mailed /\ stored["peer"] \in mailed \cup {0})'
    BY <1>2, <1>9 DEF travelVars
  <2>4. (\A t \in Puts : LET e == puts["peer"][t]
                         IN  e.at # "idle" => /\ e.ts \in mailed
                                              /\ e.at = "put" => e.had \in mailed \cup {0})'
    <3> SUFFICES ASSUME NEW t \in Puts, puts'["peer"][t].at # "idle"
                 PROVE  /\ puts'["peer"][t].ts \in mailed
                        /\ puts'["peer"][t].at = "put" =>
                               puts'["peer"][t].had \in mailed \cup {0}
      BY <1>2 DEF travelVars
    <3>1. CASE t = s  BY <3>1, <1>4, <1>5, <1>6, <1>9 DEF CallIs
    <3>2. CASE t # s
      <4>1. puts'["peer"][t] = puts["peer"][t]  BY <3>2, <1>1, <1>5, CallTypes DEF CallIs
      <4> QED  BY <4>1 DEF CursorInv, FromView
    <3> QED  BY <3>1, <3>2
  <2> QED  BY <2>1, <2>2, <2>3, <2>4 DEF FromView
<1>12. Told'
  <2>1. Waiting' = Waiting  BY <1>2, <1>10 DEF Waiting, Telling, throttleVars, travelVars
  <2> QED
    BY <1>2, <1>10, <2>1 DEF CursorInv, Told, Covered, throttleVars, travelVars
<1>13. UpToDate'
  <2> SUFFICES ASSUME ~raced', NEW t \in Puts, puts'["peer"][t].at = "put"
               PROVE  puts'["peer"][t].had = stored'["peer"]
    BY DEF UpToDate
  <2>1. CASE t = s  BY <2>1, <1>4, <1>5 DEF CallIs, storedVars
  <2>2. CASE t # s
    <3>1. puts'["peer"][t] = puts["peer"][t]  BY <2>2, <1>5, CallTypes, <1>1 DEF CallIs
    <3>2. call.at # "mark"  BY <3>1, <2>2, <1>4
    <3>3. stored' = stored  BY <3>2, <1>4 DEF storedVars
    <3> QED  BY <3>1, <3>3, <1>2 DEF CursorInv, UpToDate
  <2> QED  BY <2>1, <2>2
\* The cursor does not go back, unless puts overlap.
<1>14. ~raced' => stored["peer"] <= stored'["peer"]
  <2>1. CASE call.at = "mark"
    <3>1. ~raced' => c.had = stored["peer"]
      BY <2>1, <1>0, <1>2, <1>4 DEF CursorInv, UpToDate
    <3> QED  BY <2>1, <3>1, <1>1, <1>3, <1>4
  <2>2. CASE call.at # "mark"
    BY <2>2, <1>1, <1>4, Numbers DEF storedVars
  <2> QED  BY <2>1, <2>2
<1>15. LogIsCounted'
  <2> SUFFICES ASSUME NEW m \in applied', ~raced'
               PROVE  \/ m <= stored'["peer"] \/ m \in cut'
                      \/ \E t \in CallsAt("peer", {"get", "put"})' : puts'["peer"][t].ts = m
    BY DEF LogIsCounted
  <2>0. m \in applied /\ ~raced /\ m \in 0..MaxTs /\ stored'["peer"] \in 0..MaxTs
    BY <1>1, <1>2, <1>8 DEF travelVars, CursorTypeOK, Owners
  <2>1. CASE m <= stored["peer"]
    BY <2>0, <2>1, <1>1, <1>14, Numbers
  <2>2. CASE m \in cut /\ m \notin cut'
    BY <2>2, <1>1, <1>2, <1>3
  <2>3. CASE \E t \in CallsAt("peer", {"get", "put"}) : puts["peer"][t].ts = m
    <3>1. PICK t \in Puts : puts["peer"][t].at \in {"get", "put"} /\ puts["peer"][t].ts = m
      BY <2>3 DEF CallsAt
    <3>2. CASE t = s /\ call.at = "put"
      BY <3>1, <3>2, <1>0, <1>4, <1>5 DEF CallsAt, CallIs
    <3>3. CASE t = s /\ call.at = "mark"
      BY <3>1, <3>3, <1>0, <1>1, <1>3, <1>4
    <3>4. CASE t = s /\ call.at = "idle"
      BY <3>1, <3>4, <1>0, <1>4
    <3>5. CASE t # s
      <4>1. puts'["peer"][t] = puts["peer"][t]  BY <3>5, <1>5, CallTypes, <1>1 DEF CallIs
      <4> QED  BY <3>1, <4>1 DEF CallsAt
    <3> QED  BY <3>2, <3>3, <3>4, <3>5, <1>4
  <2> QED  BY <2>0, <2>1, <2>2, <2>3 DEF CursorInv, LogIsCounted
<1> QED  BY <1>8, <1>11, <1>12, <1>13, <1>15 DEF CursorInv

\* A device starts again.
LEMMA RestartSteps ==
    ASSUME CursorInv, ReaderRestarts \/ PeerRestarts
    PROVE  CursorInv'
<1>1. /\ CursorTypeOK /\ 0 \in 0..MaxTs /\ mailed \subseteq Stamps /\ Stamps \subseteq 0..MaxTs
      /\ UNCHANGED <<newest, receipts, storedVars, mailed, applied, viewed, raced>>
      /\ restarts' \in 0..MaxRestarts /\ causes' \subseteq causes \cup {"restarted"}
      /\ causes \subseteq causes'
  BY CallTypes, Numbers
  DEF CursorInv, CursorTypeOK, ReaderRestarts, PeerRestarts, Restarts
<1>2. CASE ReaderRestarts
  <2>1. /\ puts' = [puts EXCEPT !["reader"] = [s \in Puts |-> Free]]
        /\ viewCursor' = 0 /\ cooling' = FALSE /\ timer' = "off" /\ pending' = 0 /\ sentTs' = 0
        /\ leaving' = {} /\ UNCHANGED <<heard, cut>>
    BY <1>2 DEF ReaderRestarts, Restarts
  <2>2. /\ puts' \in [Owners -> [Puts -> Calls]]
        /\ \A s \in Puts : /\ puts'["reader"][s].at = "idle"
                           /\ puts'["peer"][s] = puts["peer"][s]
    BY <2>1, <1>1, CallTypes
  <2>3. CursorTypeOK'
    BY <1>1, <2>1, <2>2 DEF CursorTypeOK, Calls, storedVars
  <2>4. FromView'
    BY <1>1, <2>1, <2>2 DEF CursorInv, FromView, OwnRead, storedVars
  <2>5. causes' = {} => causes = {} /\ Waiting' = Waiting
    <3> SUFFICES ASSUME causes' = {} PROVE Waiting' = Waiting
      BY <1>1
    <3>1. pending = 0 /\ leaving = {} /\ CallsAt("reader", {"mark", "tell"}) = {}
      BY <1>2 DEF ReaderRestarts
    <3>2. \A m \in Stamps : ~Telling(m) /\ m # pending
      BY <3>1, Numbers DEF Telling, CallsAt, Stamps
    <3>3. \A m \in Stamps : ~Telling(m)' /\ m # pending'
      BY <2>1, <2>2, Numbers DEF Telling, Stamps
    <3> QED  BY <3>1, <3>2, <3>3, <2>1, <1>1 DEF Waiting
  <2>6. Told'
    BY <1>1, <2>1, <2>2, <2>5 DEF CursorInv, Told, Covered, storedVars
  <2>7. UpToDate' /\ LogIsCounted'
    BY <1>1, <2>1, <2>2 DEF CursorInv, UpToDate, LogIsCounted, CallsAt, storedVars
  <2> QED  BY <2>3, <2>4, <2>6, <2>7 DEF CursorInv
<1>3. CASE PeerRestarts
  <2>1. /\ puts' = [puts EXCEPT !["peer"] = [s \in Puts |-> Free]]
        /\ heard' = 0 /\ UNCHANGED <<viewCursor, throttleVars, leaving, causes>>
        /\ cut' = cut \cup {puts["peer"][s].ts : s \in CallsAt("peer", {"get", "put"})}
    BY <1>3 DEF PeerRestarts, Restarts
  <2>2. /\ puts' \in [Owners -> [Puts -> Calls]]
        /\ \A s \in Puts : /\ puts'["peer"][s].at = "idle"
                           /\ puts'["reader"][s] = puts["reader"][s]
    BY <2>1, <1>1, CallTypes
  <2>3. cut' \subseteq Stamps
    BY <2>1, <1>1 DEF CallsAt, CursorInv, CursorTypeOK, FromView
  <2>4. CursorTypeOK'
    BY <1>1, <2>1, <2>2, <2>3 DEF CursorTypeOK, Calls, storedVars, throttleVars
  <2>5. FromView'
    BY <1>1, <2>1, <2>2 DEF CursorInv, FromView, OwnRead, storedVars, throttleVars
  <2>6. Told'
    <3>1. Waiting' = Waiting  BY <1>1, <2>1, <2>2 DEF Waiting, Telling, throttleVars
    <3> QED
      BY <1>1, <2>1, <2>2, <3>1 DEF CursorInv, Told, Covered, storedVars, throttleVars
  <2>7. UpToDate'  BY <2>2 DEF UpToDate
  <2>8. LogIsCounted'
    BY <1>1, <2>1 DEF CursorInv, LogIsCounted, storedVars
  <2> QED  BY <2>4, <2>5, <2>6, <2>7, <2>8 DEF CursorInv
<1> QED  BY <1>2, <1>3

LEMMA FreeIs == Free \in Calls
  BY Numbers DEF Free, Calls, Stages

LEMMA CursorStarts == ASSUME CursorInit \/ AllMailed PROVE CursorInv
<1>1. CASE CursorInit
  <2>1. CursorTypeOK
    <3>1. 0 \in 0..MaxTs /\ 0 \in 0..MaxRestarts  BY Numbers
    <3>2. puts \in [Owners -> [Puts -> Calls]]  BY <1>1, FreeIs DEF CursorInit
    <3>3. stored \in [Owners -> 0..MaxTs] /\ read \in [Owners -> SUBSET Stamps]
      BY <1>1, <3>1 DEF CursorInit
    <3>4. newest \in 0..MaxTs /\ receipts \in BOOLEAN /\ viewCursor \in 0..MaxTs
      BY <1>1, <3>1 DEF CursorInit
    <3>5. /\ cooling \in BOOLEAN /\ timer \in {"off", "set", "due"}
          /\ pending \in 0..MaxTs /\ sentTs \in 0..MaxTs /\ restarts \in 0..MaxRestarts
      BY <1>1, <3>1 DEF CursorInit
    <3>6. /\ leaving \subseteq Stamps /\ mailed \subseteq Stamps /\ applied \subseteq Stamps
          /\ heard \in 0..MaxTs /\ viewed \subseteq Stamps /\ raced \in BOOLEAN
          /\ causes \subseteq {"failed", "restarted", "overtaken"} /\ cut \subseteq Stamps
      BY <1>1, <3>1 DEF CursorInit
    <3> QED  BY <3>2, <3>3, <3>4, <3>5, <3>6 DEF CursorTypeOK, Calls
  <2>2. FromView  BY <1>1 DEF CursorInit, FromView, OwnRead, Owners, Free
  <2>3. Told  BY <1>1 DEF CursorInit, Told, Covered, Owners, Free
  <2>4. UpToDate /\ LogIsCounted
    BY <1>1 DEF CursorInit, UpToDate, LogIsCounted, Owners, Free
  <2> QED  BY <2>1, <2>2, <2>3, <2>4 DEF CursorInv
<1>2. CASE AllMailed
  <2>0. /\ stored["reader"] = MaxTs /\ stored["peer"] = 0
        /\ read["reader"] = Stamps /\ read["peer"] = {}
        /\ \A d \in Owners, s \in Puts : puts[d][s] = Free
        /\ Free.at = "idle" /\ "reader" \in Owners /\ "peer" \in Owners
    BY <1>2 DEF AllMailed, Owners, Free
  <2>1. CursorTypeOK
    <3>1. MaxTs \in 0..MaxTs /\ 0 \in 0..MaxTs /\ 0 \in 0..MaxRestarts  BY Numbers
    <3>2. puts \in [Owners -> [Puts -> Calls]]  BY <1>2, FreeIs DEF AllMailed
    <3>3. stored \in [Owners -> 0..MaxTs] /\ read \in [Owners -> SUBSET Stamps]
      BY <1>2, <3>1 DEF AllMailed
    <3>4. newest \in 0..MaxTs /\ receipts \in BOOLEAN /\ viewCursor \in 0..MaxTs
      BY <1>2, <3>1 DEF AllMailed
    <3>5. /\ cooling \in BOOLEAN /\ timer \in {"off", "set", "due"}
          /\ pending \in 0..MaxTs /\ sentTs \in 0..MaxTs /\ restarts \in 0..MaxRestarts
      BY <1>2, <3>1 DEF AllMailed
    <3>6. /\ leaving \subseteq Stamps /\ mailed \subseteq Stamps /\ applied \subseteq Stamps
          /\ heard \in 0..MaxTs /\ viewed \subseteq Stamps /\ raced \in BOOLEAN
          /\ causes \subseteq {"failed", "restarted", "overtaken"} /\ cut \subseteq Stamps
      BY <1>2, <3>1 DEF AllMailed
    <3> QED  BY <3>2, <3>3, <3>4, <3>5, <3>6 DEF CursorTypeOK, Calls
  <2>2. FromView
    <3>1. MaxTs = 0 \/ MaxTs \in Stamps  BY Numbers DEF Stamps
    <3> QED  BY <1>2, <2>0, <3>1 DEF AllMailed, FromView, OwnRead
  <2>3. Told
    <3>1. MaxTs = 0 \/ MaxTs \in mailed  BY <1>2, Numbers DEF Stamps, AllMailed
    <3>2. \A m \in Stamps : m \in Waiting /\ m <= m
      BY <1>2, Numbers DEF AllMailed, Stamps, Waiting
    <3> QED  BY <1>2, <2>0, <3>1, <3>2 DEF AllMailed, Told, Covered
  <2>4. UpToDate /\ LogIsCounted  BY <1>2, <2>0 DEF AllMailed, UpToDate, LogIsCounted
  <2> QED  BY <2>1, <2>2, <2>3, <2>4 DEF CursorInv
<1> QED  BY <1>1, <1>2

LEMMA CursorStep == ASSUME CursorInv, [CursorNext]_cursorVars PROVE CursorInv'
<1>1. CASE ReaderNext
  BY <1>1, ViewSteps, LookSteps, OwnPutSteps, SendSteps, TravelSteps, RestartSteps DEF ReaderNext
<1>2. CASE PeerNext
  BY <1>2, PeerSteps, PeerPutSteps, RestartSteps DEF PeerNext
<1>3. CASE UNCHANGED cursorVars
  <2>1. UNCHANGED <<newest, receipts, viewCursor, stored, read, puts, cooling, timer, pending,
                    sentTs, leaving, mailed, applied, heard, restarts, viewed, raced, causes, cut>>
    BY <1>3 DEF cursorVars, viewVars, storedVars, throttleVars, travelVars, historyVars
  <2>2. CursorTypeOK'  BY <2>1 DEF CursorInv, CursorTypeOK
  <2>3. FromView'  BY <2>1 DEF CursorInv, FromView, OwnRead
  <2>4. Told'  BY <2>1 DEF CursorInv, Told, Covered, Waiting, Telling
  <2>5. UpToDate' /\ LogIsCounted'  BY <2>1 DEF CursorInv, UpToDate, LogIsCounted, CallsAt
  <2> QED  BY <2>2, <2>3, <2>4, <2>5 DEF CursorInv
<1> QED  BY <1>1, <1>2, <1>3 DEF CursorNext

\* The invariant says what CursorsSound does.
LEMMA CursorsAreSound == ASSUME CursorInv PROVE CursorsSound
<1>1. CursorTypeOK  BY DEF CursorInv
<1>2. OnlyWhatWasViewed
  <2>1. OwnRead \cup leaving \cup mailed \subseteq viewed  BY DEF CursorInv, FromView
  <2>2. ASSUME NEW m \in read["peer"] PROVE \E v \in viewed : m <= v
    <3>1. m \in viewed  BY <2>1 DEF CursorInv, FromView
    <3>2. m <= m  BY <3>1, Numbers DEF CursorInv, CursorTypeOK, Stamps
    <3> QED  BY <3>1, <3>2
  <2>3. ASSUME NEW m \in 1..stored["peer"] PROVE \E v \in viewed : m <= v
    <3>1. stored["peer"] \in viewed \cup {0} /\ stored["peer"] \in 0..MaxTs
      BY <2>1 DEF CursorInv, FromView, CursorTypeOK, Owners
    <3>2. m <= stored["peer"] /\ stored["peer"] # 0  BY <3>1, <2>3, Numbers
    <3> QED  BY <3>1, <3>2
  <2> QED  BY <2>1, <2>2, <2>3 DEF OnlyWhatWasViewed, ShownAsRead
<1>3. ReadIsTold
  <2> SUFFICES ASSUME ReaderRests, causes = {}, NEW m \in OwnRead
               PROVE  \E c \in mailed : m <= c
    BY DEF ReadIsTold
  <2>1. m # 0
    BY Numbers DEF OwnRead, CursorInv, CursorTypeOK, Owners, Stamps
  <2>2. Covered(m)  BY DEF CursorInv, Told, OwnRead
  <2>3. pending = 0 /\ leaving = {}  BY DEF CursorInv, Told, ReaderRests
  <2>4. \A n \in Stamps : ~Telling(n) /\ n # 0
    BY Numbers DEF Telling, ReaderRests, CallsAt, Stamps
  <2> QED  BY <2>1, <2>2, <2>3, <2>4 DEF Covered, Waiting
<1> QED  BY <1>1, <1>2, <1>3 DEF CursorsSound, CursorInv
-----------------------------------------------------------------------------
(***************************************************************************)
(* The messages of a conversation (ChatHistory).                           *)
(***************************************************************************)

\* A hydration that has listed the tombstones knows of all of them, or it is recorded.
StonesKnown ==
    /\ \A m \in stones : removal[m] \in {"buried", "done", "untold"}
    /\ \A h \in Hydrations :
           /\ load[h].stones \subseteq stones
           /\ Past(h) => stones \subseteq load[h].stones \cup unaware

\* What has been listed is found; what has been listed whole, or shown, is still there.
RowsKept ==
    /\ \A h \in Listed, m \in Texts :
           load[h].rows[m] = "whole" =>
               /\ load[h].found[m] = "whole"
               /\ removal[m] = "no" => kept[m] = "whole"
    /\ \A m \in displayed : removal[m] = "no" => kept[m] = "whole"

\* Of two hydrations one has listed the store first; the later one, unless it has been
\* passed or could not list it, has all that the earlier one has, and all that was shown.
InTurn ==
    /\ \A h \in Hydrations : load[h].elder \subseteq Listed /\ h \notin load[h].elder
    /\ \A g, h \in Listed : g = h \/ g \in load[h].elder \/ h \in load[g].elder
    /\ \A h \in Listed, m \in Texts :
           ~load[h].passed /\ removal[m] = "no" =>
               /\ m \in displayed => load[h].rows[m] = "whole"
               /\ \A g \in load[h].elder : load[g].rows[m] = "whole" => load[h].rows[m] = "whole"

HistoryInv ==
    /\ HistoryTypeOK /\ StonesKnown /\ RowsKept /\ InTurn
    /\ DeletedStaysAway /\ NothingVanishes /\ NoRowIsLeft

LEMMA LoadTypes ==
    ASSUME HistoryTypeOK
    PROVE  /\ \A h \in Hydrations : load[h] \in Load
           /\ Nothing \in [Texts -> Looks] /\ Resting \in Load /\ Resting.at = "idle"
           /\ Resting.stones = {} /\ Resting.elder = {}
  BY DEF HistoryTypeOK, Load, Nothing, Looks, Resting, LoadStages

\* What becomes of the hydrations when one of them goes on.
LoadIs(h, next) ==
    /\ load' \in [Hydrations -> Load]
    /\ load'[h] = next
    /\ \A g \in Hydrations : g # h => load'[g] = load[g]

LEMMA LoadChanges ==
    ASSUME HistoryTypeOK, NEW h \in Hydrations, NEW next \in Load,
           load' = [load EXCEPT ![h] = next]
    PROVE  LoadIs(h, next)
  BY DEF HistoryTypeOK, LoadIs

\* What a step on the store does that goes with no hydration: nothing that has been shown or
\* listed whole goes, unless it is asked for; what is deleted has been asked for.
Stays ==
    /\ UNCHANGED <<mine, load, displayed, stale>>
    /\ \A m \in Texts : removal'[m] = "no" => removal[m] = "no"
    /\ \A m \in Texts : removal'[m] = "no" /\ kept[m] = "whole" => kept'[m] = "whole"
    /\ \A m \in Texts : removal'[m] = "no" => onScreen'[m] = onScreen[m]

LEMMA StaysKeeps ==
    ASSUME HistoryInv, Stays
    PROVE  RowsKept' /\ InTurn' /\ NothingVanishes'
<1>1. displayed \subseteq Texts  BY DEF HistoryInv, HistoryTypeOK
<1>2. RowsKept'  BY <1>1 DEF HistoryInv, RowsKept, Stays, Listed
<1>3. InTurn'  BY <1>1 DEF HistoryInv, InTurn, Stays, Listed
<1>4. NothingVanishes'  BY <1>1 DEF HistoryInv, NothingVanishes, Stays
<1> QED  BY <1>2, <1>3, <1>4

\* Messages are saved and logged.
LEMMA SaveSteps ==
    ASSUME HistoryInv, NEW m \in Texts,
           SaveOwn(m) \/ LogOwn(m) \/ LogReceived(m) \/ SaveReceived(m)
    PROVE  HistoryInv'
<1>1. /\ kept' = kept \/ kept' = [kept EXCEPT ![m] = "whole"]
      /\ UNCHANGED <<mine, stones, load, onScreen, removal, ended, displayed, stale, unaware>>
      /\ logged' \subseteq Texts /\ entering' \subseteq Texts
  BY DEF SaveOwn, LogOwn, LogReceived, SaveReceived, historyGhosts, HistoryInv, HistoryTypeOK
<1>2. HistoryTypeOK'  BY <1>1 DEF HistoryInv, HistoryTypeOK, Looks
<1>3. \A n \in Texts : kept'[n] = kept[n] \/ kept'[n] = "whole"
  BY <1>1 DEF HistoryInv, HistoryTypeOK
<1>4. RowsKept' /\ InTurn' /\ NothingVanishes'  BY <1>1, <1>3, StaysKeeps DEF Stays
<1>5. StonesKnown'  BY <1>1 DEF HistoryInv, StonesKnown, Past
<1>6. DeletedStaysAway'  BY <1>1 DEF HistoryInv, DeletedStaysAway
<1>7. NoRowIsLeft'  BY <1>1, <1>3 DEF HistoryInv, NoRowIsLeft
<1> QED  BY <1>2, <1>4, <1>5, <1>6, <1>7 DEF HistoryInv

\* A message is deleted.
LEMMA RemovalSteps ==
    ASSUME HistoryInv, NEW m \in Texts,
           \/ AskRemoval(m) \/ BlankRow(m) \/ EraseRow(m) \/ TakeAway(m) \/ RemovalFails(m)
    PROVE  HistoryInv'
<1>1. /\ UNCHANGED <<mine, logged, stones, entering, load, ended, displayed, stale, unaware>>
      /\ kept' \in [Texts -> Looks] /\ onScreen' \in [Texts -> Looks]
      /\ removal' \in [Texts -> Removals]
      /\ \A n \in Texts \ {m} : /\ kept'[n] = kept[n] /\ onScreen'[n] = onScreen[n]
                                /\ removal'[n] = removal[n]
  BY DEF AskRemoval, BlankRow, EraseRow, TakeAway, RemovalFails, historyState, historyGhosts,
         HistoryInv, HistoryTypeOK, Looks, Removals
<1>2. removal'[m] # "no"
  BY DEF AskRemoval, BlankRow, EraseRow, TakeAway, RemovalFails, HistoryInv, HistoryTypeOK
<1>3. m \in stones => removal[m] \in {"buried", "done", "untold"}
  BY DEF HistoryInv, StonesKnown
<1>4. m \in stones => /\ removal'[m] \in {"done", "untold"}
                      /\ removal'[m] = "done" => onScreen'[m] = "no"
  BY <1>3 DEF AskRemoval, BlankRow, EraseRow, TakeAway, RemovalFails, HistoryInv, HistoryTypeOK
<1>5. kept'[m] = "blank" => removal'[m] \in {"blanked", "broken"}
  BY DEF AskRemoval, BlankRow, EraseRow, TakeAway, RemovalFails, historyState, HistoryInv,
         HistoryTypeOK, NoRowIsLeft
<1>6. HistoryTypeOK'  BY <1>1 DEF HistoryInv, HistoryTypeOK
<1>7. RowsKept' /\ InTurn' /\ NothingVanishes'  BY <1>1, <1>2, StaysKeeps DEF Stays
<1>8. StonesKnown'  BY <1>1, <1>4 DEF HistoryInv, HistoryTypeOK, StonesKnown, Past
<1>9. DeletedStaysAway'  BY <1>1, <1>4 DEF HistoryInv, HistoryTypeOK, DeletedStaysAway
<1>10. NoRowIsLeft'  BY <1>1, <1>5 DEF HistoryInv, NoRowIsLeft
<1> QED  BY <1>6, <1>7, <1>8, <1>9, <1>10 DEF HistoryInv

LEMMA BuryStep ==
    ASSUME HistoryInv, NEW m \in Texts, Bury(m)
    PROVE  HistoryInv'
<1>1. /\ UNCHANGED <<mine, kept, logged, entering, load, onScreen, ended, displayed, stale>>
      /\ removal[m] = "erased" /\ removal' \in [Texts -> Removals] /\ removal'[m] = "buried"
      /\ \A n \in Texts \ {m} : removal'[n] = removal[n]
      /\ stones' = stones \cup {m}
      /\ unaware \subseteq unaware' /\ unaware' \subseteq unaware \cup {m}
      /\ (\E h \in Hydrations : Past(h)) => m \in unaware'
  BY DEF Bury, HistoryInv, HistoryTypeOK, Removals
<1>2. HistoryTypeOK'  BY <1>1 DEF HistoryInv, HistoryTypeOK
<1>3. RowsKept' /\ InTurn' /\ NothingVanishes'  BY <1>1, StaysKeeps DEF Stays
<1>4. StonesKnown'  BY <1>1 DEF HistoryInv, HistoryTypeOK, StonesKnown, Past
<1>5. DeletedStaysAway'  BY <1>1 DEF HistoryInv, HistoryTypeOK, DeletedStaysAway
<1>6. NoRowIsLeft'  BY <1>1 DEF HistoryInv, HistoryTypeOK, NoRowIsLeft
<1> QED  BY <1>2, <1>3, <1>4, <1>5, <1>6 DEF HistoryInv

\* A hydration lists the store.
LEMMA ListStep ==
    ASSUME HistoryInv, NEW h \in Hydrations, ListMessages(h)
    PROVE  HistoryInv'
<1>0. PICK rows \in {kept, Nothing} :
          load' = [load EXCEPT ![h] = [Resting EXCEPT !.at = "tombstones", !.rows = rows,
                                                     !.found = rows, !.elder = Listed,
                                                     !.passed = rows # kept]]
  BY DEF ListMessages
<1>1. PICK next \in Load :
          /\ next.at = "tombstones" /\ next.rows = rows /\ next.found = rows
          /\ next.elder = Listed /\ next.passed = (rows # kept) /\ next.stones = {}
          /\ load' = [load EXCEPT ![h] = next]
  <2> DEFINE next == [Resting EXCEPT !.at = "tombstones", !.rows = rows, !.found = rows,
                                    !.elder = Listed, !.passed = rows # kept]
  <2>1. rows \in [Texts -> Looks] /\ (rows # kept) \in BOOLEAN /\ Listed \subseteq Hydrations
    BY LoadTypes DEF HistoryInv, HistoryTypeOK, Listed
  <2>2. /\ next \in Load /\ next.at = "tombstones" /\ next.rows = rows /\ next.found = rows
        /\ next.elder = Listed /\ next.passed = (rows # kept) /\ next.stones = {}
    BY <2>1 DEF Resting, Load, LoadStages
  <2> QED  BY <1>0, <2>2
<1>2. LoadIs(h, next)  BY <1>1, LoadChanges DEF HistoryInv
<1>3. /\ load[h].at = "idle" /\ load[h] \in Load
      /\ UNCHANGED <<mine, kept, logged, stones, entering, onScreen, removal, ended, displayed,
                     stale, unaware>>
  BY LoadTypes DEF ListMessages, historyState, historyGhosts, HistoryInv
<1>4. Listed' = Listed \cup {h} /\ h \notin Listed
  BY <1>1, <1>2, <1>3 DEF Listed, LoadIs
<1>5. HistoryTypeOK'  BY <1>2, <1>3 DEF HistoryInv, HistoryTypeOK, LoadIs
<1>6. StonesKnown'
  BY <1>1, <1>2, <1>3 DEF HistoryInv, StonesKnown, Past, LoadIs
<1>7. \A m \in Texts : rows[m] = "whole" => kept[m] = "whole"
  BY DEF Nothing
<1>8. RowsKept'
  BY <1>1, <1>2, <1>3, <1>4, <1>7 DEF HistoryInv, RowsKept, LoadIs
<1>9. InTurn'
  <2>1. (\A g \in Hydrations : load[g].elder \subseteq Listed /\ g \notin load[g].elder)'
    BY <1>1, <1>2, <1>4 DEF HistoryInv, InTurn, LoadIs
  <2>2. (\A g, k \in Listed : g = k \/ g \in load[k].elder \/ k \in load[g].elder)'
    BY <1>1, <1>2, <1>4 DEF HistoryInv, InTurn, LoadIs, Listed
  <2>3. ASSUME NEW g \in Listed', NEW m \in Texts, ~load'[g].passed, removal'[m] = "no"
        PROVE  /\ m \in displayed' => load'[g].rows[m] = "whole"
               /\ \A k \in load'[g].elder : load'[k].rows[m] = "whole" =>
                                            load'[g].rows[m] = "whole"
    <3>1. CASE g = h
      <4>1. load'[g] = next /\ rows = kept /\ next.rows = kept
        BY <3>1, <2>3, <1>1, <1>2 DEF LoadIs
      <4>2. m \in displayed' => kept[m] = "whole"
        BY <2>3, <1>3 DEF HistoryInv, RowsKept
      <4>3. \A k \in Listed : load'[k] = load[k]  BY <1>2, <1>4 DEF LoadIs, Listed
      <4>4. \A k \in Listed : load[k].rows[m] = "whole" => kept[m] = "whole"
        BY <2>3, <1>3 DEF HistoryInv, RowsKept
      <4> QED  BY <4>1, <4>2, <4>3, <4>4, <1>1
    <3>2. CASE g # h
      <4>1. g \in Listed /\ load'[g] = load[g]  BY <3>2, <1>2, <1>4 DEF LoadIs, Listed
      <4>2. \A k \in load[g].elder : load'[k] = load[k]
        BY <1>2, <1>4, <4>1 DEF LoadIs, HistoryInv, InTurn, Listed
      <4> QED  BY <4>1, <4>2, <2>3, <1>3 DEF HistoryInv, InTurn
    <3> QED  BY <3>1, <3>2
  <2> QED  BY <2>1, <2>2, <2>3 DEF InTurn
<1>10. DeletedStaysAway' /\ NothingVanishes' /\ NoRowIsLeft'
  BY <1>3 DEF HistoryInv, DeletedStaysAway, NothingVanishes, NoRowIsLeft
<1> QED  BY <1>5, <1>6, <1>8, <1>9, <1>10 DEF HistoryInv

\* It lists the tombstones and the log, and replays the log.
LEMMA ReplaySteps ==
    ASSUME HistoryInv, NEW h \in Hydrations,
           ListTombstones(h) \/ ListEvents(h) \/ \E m \in Texts : ReplayText(h, m)
    PROVE  HistoryInv'
<1>1. PICK next \in Load :
          /\ load' = [load EXCEPT ![h] = next]
          /\ load[h].at # "idle" /\ next.at # "idle"
          /\ next.rows = load[h].rows /\ next.elder = load[h].elder
          /\ next.passed = load[h].passed
          /\ \A m \in Texts : load[h].found[m] = "whole" => next.found[m] = "whole"
          /\ next.stones \subseteq stones /\ unaware \subseteq unaware' /\ unaware' \subseteq Texts
          /\ stones \subseteq next.stones \cup unaware'
  <2>0. load[h] \in Load /\ load[h].stones \subseteq stones /\ stones \subseteq Texts
        /\ logged \subseteq Texts /\ unaware \subseteq Texts
    BY LoadTypes DEF HistoryInv, HistoryTypeOK, StonesKnown
  <2>1. CASE ListTombstones(h)
    <3>1. PICK to \in {"events", "replay"}, listed \in {stones, {}} :
              /\ load' = [load EXCEPT ![h].at = to, ![h].stones = listed]
              /\ unaware' = unaware \cup (stones \ listed)
      BY <2>1 DEF ListTombstones
    <3> DEFINE next == [load[h] EXCEPT !.at = to, !.stones = listed]
    <3>2. load' = [load EXCEPT ![h] = next]  BY <3>1 DEF HistoryInv, HistoryTypeOK
    <3>3. /\ next \in Load /\ next.at = to /\ next.stones = listed /\ next.rows = load[h].rows
          /\ next.elder = load[h].elder /\ next.passed = load[h].passed
          /\ next.found = load[h].found
      BY <2>0, <3>1 DEF Load, LoadStages
    <3> QED  BY <2>0, <2>1, <3>1, <3>2, <3>3 DEF ListTombstones
  <2>2. CASE ListEvents(h)
    <3> DEFINE next == [load[h] EXCEPT !.at = "replay", !.events = logged]
    <3>1. load' = [load EXCEPT ![h] = next] /\ load[h].at = "events" /\ unaware' = unaware
      BY <2>2 DEF ListEvents, historyGhosts, HistoryInv, HistoryTypeOK
    <3>2. /\ next \in Load /\ next.at = "replay" /\ next.stones = load[h].stones
          /\ next.rows = load[h].rows
          /\ next.elder = load[h].elder /\ next.passed = load[h].passed
          /\ next.found = load[h].found
      BY <2>0 DEF Load, LoadStages
    <3>3. stones \subseteq load[h].stones \cup unaware
      BY <3>1 DEF HistoryInv, StonesKnown, Past
    <3> QED  BY <2>0, <3>1, <3>2, <3>3
  <2>3. CASE \E m \in Texts : ReplayText(h, m)
    <3>1. PICK m \in Texts, look \in Looks :
              /\ load[h].found[m] = "no" \/ look = load[h].found[m]
              /\ load' = [load EXCEPT ![h].events = @ \ {m}, ![h].found[m] = look]
              /\ load[h].at = "replay" /\ unaware' = unaware
      BY <2>3, <2>0 DEF ReplayText, historyGhosts, Load, Looks
    <3> DEFINE next == [load[h] EXCEPT !.events = @ \ {m}, !.found[m] = look]
    <3>2. load' = [load EXCEPT ![h] = next]  BY <3>1 DEF HistoryInv, HistoryTypeOK
    <3>3. /\ next \in Load /\ next.at = load[h].at /\ next.stones = load[h].stones
          /\ next.rows = load[h].rows
          /\ next.elder = load[h].elder /\ next.passed = load[h].passed
          /\ next.found = [load[h].found EXCEPT ![m] = look]
      BY <2>0 DEF Load
    <3>4. stones \subseteq load[h].stones \cup unaware
      BY <3>1 DEF HistoryInv, StonesKnown, Past
    <3>5. \A n \in Texts : load[h].found[n] = "whole" => next.found[n] = "whole"
      BY <3>1, <3>3, <2>0 DEF Load
    <3> QED  BY <2>0, <3>1, <3>2, <3>3, <3>4, <3>5
  <2> QED  BY <2>1, <2>2, <2>3
<1>2. LoadIs(h, next)  BY <1>1, LoadChanges DEF HistoryInv
<1>3. UNCHANGED <<mine, kept, logged, stones, entering, onScreen, removal, ended, displayed,
                  stale>>
  BY DEF ListTombstones, ListEvents, ReplayText, historyState, historyGhosts
<1>4. Listed' = Listed  BY <1>1, <1>2 DEF Listed, LoadIs
<1>5. HistoryTypeOK'  BY <1>1, <1>2, <1>3 DEF HistoryInv, HistoryTypeOK, LoadIs
<1>6. StonesKnown'
  BY <1>1, <1>2, <1>3 DEF HistoryInv, StonesKnown, Past, LoadIs
<1>7. \A g \in Hydrations : /\ load'[g].rows = load[g].rows
                            /\ load'[g].elder = load[g].elder
                            /\ load'[g].passed = load[g].passed
  BY <1>1, <1>2 DEF LoadIs
<1>8. RowsKept'
  BY <1>1, <1>2, <1>3, <1>4, <1>7 DEF HistoryInv, RowsKept, LoadIs, Listed
<1>9. InTurn'
  BY <1>3, <1>4, <1>7 DEF HistoryInv, InTurn, Listed
<1>10. DeletedStaysAway' /\ NothingVanishes' /\ NoRowIsLeft'
  BY <1>1, <1>3 DEF HistoryInv, DeletedStaysAway, NothingVanishes, NoRowIsLeft
<1> QED  BY <1>5, <1>6, <1>8, <1>9, <1>10 DEF HistoryInv

\* It shows what it has found.
LEMMA ShowStep ==
    ASSUME HistoryInv, NEW h \in Hydrations, ShowMessages(h)
    PROVE  HistoryInv'
<1>1. /\ \A g \in Hydrations : load[g] \in Load
      /\ Past(h) /\ h \in Listed
      /\ UNCHANGED <<mine, kept, logged, stones, entering, removal, ended, unaware>>
      /\ stale' = load[h].passed
  BY LoadTypes
  DEF ShowMessages, HistoryInv, Past, Listed, historyState
<1>2. /\ load' \in [Hydrations -> Load]
      /\ load'[h] = Resting
      /\ \A g \in Hydrations \ {h} :
             /\ load'[g].at = load[g].at /\ load'[g].rows = load[g].rows
             /\ load'[g].found = load[g].found /\ load'[g].stones = load[g].stones
             /\ load'[g].elder = load[g].elder \ {h}
             /\ load'[g].passed = (load[g].passed \/ g \in load[h].elder)
  <2>1. load' = [g \in Hydrations |->
                    IF g = h THEN Resting
                    ELSE [load[g] EXCEPT !.elder = load[g].elder \ {h},
                                         !.passed = load[g].passed \/ g \in load[h].elder]]
    BY DEF ShowMessages
  <2>2. ASSUME NEW g \in Hydrations, NEW e \in SUBSET Hydrations, NEW p \in BOOLEAN
        PROVE  [load[g] EXCEPT !.elder = e, !.passed = p] \in Load
    <3>1. load[g] \in Load  BY <1>1
    <3> QED  BY <3>1 DEF Load
  <2>3. \A g \in Hydrations : /\ load[g].elder \ {h} \in SUBSET Hydrations
                              /\ (load[g].passed \/ g \in load[h].elder) \in BOOLEAN
    <3>1. \A g \in Hydrations : load[g].elder \in SUBSET Hydrations  BY <1>1 DEF Load
    <3> QED  BY <3>1
  <2>4. Resting \in Load  BY LoadTypes DEF HistoryInv
  <2>5. \A g \in Hydrations : load'[g] \in Load
    <3> TAKE g \in Hydrations
    <3>1. CASE g = h  BY <2>1, <2>4, <3>1
    <3>2. CASE g # h  BY <2>1, <2>2, <2>3, <3>2
    <3> QED  BY <3>1, <3>2
  <2>6. load'[h] = Resting  BY <2>1
  <2>7. ASSUME NEW g \in Hydrations \ {h}
        PROVE  /\ load'[g].at = load[g].at /\ load'[g].rows = load[g].rows
               /\ load'[g].found = load[g].found /\ load'[g].stones = load[g].stones
               /\ load'[g].elder = load[g].elder \ {h}
               /\ load'[g].passed = (load[g].passed \/ g \in load[h].elder)
    <3>1. load'[g] = [load[g] EXCEPT !.elder = load[g].elder \ {h},
                                     !.passed = load[g].passed \/ g \in load[h].elder]
      BY <2>1
    <3>2. PICK e \in SUBSET Hydrations : e = load[g].elder \ {h}  BY <2>3
    <3>3. PICK p \in BOOLEAN : p = (load[g].passed \/ g \in load[h].elder)  BY <2>3
    <3>4. load'[g] = [load[g] EXCEPT !.elder = e, !.passed = p]  BY <3>1, <3>2, <3>3
    <3>5. /\ load'[g].at = load[g].at /\ load'[g].rows = load[g].rows
          /\ load'[g].found = load[g].found /\ load'[g].stones = load[g].stones
          /\ load'[g].elder = e /\ load'[g].passed = p
      <4>1. load[g] \in Load  BY <1>1
      <4> QED  BY <3>4, <4>1 DEF Load
    <3> QED  BY <3>2, <3>3, <3>5
  <2>8. load' \in [Hydrations -> Load]  BY <2>1, <2>5
  <2> QED  BY <2>6, <2>7, <2>8
<1>3. Resting.at = "idle" /\ Resting.stones = {} /\ Resting.elder = {}
  BY LoadTypes DEF HistoryInv
<1>4. Listed' = Listed \ {h}  BY <1>2, <1>3 DEF Listed
<1>5. PICK scene \in [Texts -> Looks] :
          /\ onScreen' = scene
          /\ \A m \in Texts : scene[m] = IF m \in load[h].stones THEN "no"
                                         ELSE load[h].found[m]
  <2> DEFINE scene == [m \in Texts |-> IF m \in load[h].stones THEN "no" ELSE load[h].found[m]]
  <2>1. load[h].found \in [Texts -> Looks]  BY <1>1 DEF Load
  <2>2. scene \in [Texts -> Looks]  BY <2>1 DEF Looks
  <2>3. onScreen' = scene  BY DEF ShowMessages
  <2> QED  BY <2>2, <2>3
<1>6. PICK news \in SUBSET Texts :
          /\ displayed' = displayed \cup news
          /\ \A m \in Texts : m \in news <=> /\ m \notin load[h].stones
                                             /\ load[h].rows[m] = "whole"
  <2> DEFINE news == {m \in Texts \ load[h].stones : load[h].rows[m] = "whole"}
  <2>1. displayed' = displayed \cup news  BY DEF ShowMessages
  <2>2. \A m \in Texts : m \in news <=> m \notin load[h].stones /\ load[h].rows[m] = "whole"
    OBVIOUS
  <2>3. news \in SUBSET Texts  OBVIOUS
  <2> QED  BY <2>1, <2>2, <2>3
<1>7. HistoryTypeOK'
  <2>1. load[h].passed \in BOOLEAN  BY <1>1 DEF Load
  <2> QED  BY <1>1, <1>2, <1>5, <1>6, <2>1 DEF HistoryInv, HistoryTypeOK
<1>8. StonesKnown'
  BY <1>1, <1>2, <1>3 DEF HistoryInv, StonesKnown, Past
<1>9. \A m \in news : /\ load[h].found[m] = "whole"
                      /\ removal[m] = "no" => kept[m] = "whole"
  BY <1>1, <1>6 DEF HistoryInv, RowsKept
<1>10. RowsKept'
  <2>1. \A g \in Listed', m \in Texts :
            load'[g].rows[m] = "whole" => /\ load'[g].found[m] = "whole"
                                          /\ removal'[m] = "no" => kept'[m] = "whole"
    BY <1>1, <1>2, <1>4 DEF HistoryInv, RowsKept, Listed
  <2>2. \A m \in displayed' : removal'[m] = "no" => kept'[m] = "whole"
    BY <1>1, <1>6, <1>9 DEF HistoryInv, RowsKept
  <2> QED  BY <2>1, <2>2 DEF RowsKept
<1>11. InTurn'
  <2>1. (\A g \in Hydrations : load[g].elder \subseteq Listed /\ g \notin load[g].elder)'
    <3> SUFFICES ASSUME NEW g \in Hydrations
                 PROVE  load'[g].elder \subseteq Listed' /\ g \notin load'[g].elder
      OBVIOUS
    <3>1. CASE g = h  BY <3>1, <1>2, <1>3
    <3>2. CASE g # h  BY <3>2, <1>2, <1>4 DEF HistoryInv, InTurn
    <3> QED  BY <3>1, <3>2
  <2>2. (\A g, k \in Listed : g = k \/ g \in load[k].elder \/ k \in load[g].elder)'
    BY <1>2, <1>4 DEF HistoryInv, InTurn, Listed
  <2>3. ASSUME NEW g \in Listed', NEW m \in Texts, ~load'[g].passed, removal'[m] = "no"
        PROVE  /\ m \in displayed' => load'[g].rows[m] = "whole"
               /\ \A k \in load'[g].elder : load'[k].rows[m] = "whole" =>
                                            load'[g].rows[m] = "whole"
    <3>1. g \in Listed /\ g # h /\ g \in Hydrations  BY <1>4 DEF Listed
    <3>2. ~load[g].passed /\ g \notin load[h].elder /\ load'[g].rows = load[g].rows
      BY <2>3, <3>1, <1>2
    <3>3. h \in load[g].elder  BY <1>1, <3>1, <3>2 DEF HistoryInv, InTurn
    <3>4. /\ m \in displayed => load[g].rows[m] = "whole"
          /\ \A k \in load[g].elder : load[k].rows[m] = "whole" => load[g].rows[m] = "whole"
      BY <1>1, <2>3, <3>1, <3>2 DEF HistoryInv, InTurn
    <3>5. m \in displayed' => load'[g].rows[m] = "whole"
      BY <1>6, <3>2, <3>3, <3>4
    <3>6. \A k \in load'[g].elder : k \in load[g].elder /\ load'[k].rows = load[k].rows
      <4>1. load'[g].elder = load[g].elder \ {h}  BY <3>1, <1>2
      <4>2. load[g].elder \subseteq Hydrations  BY <1>1, <3>1 DEF Load
      <4> QED  BY <4>1, <4>2, <1>2
    <3> QED  BY <3>2, <3>4, <3>5, <3>6
  <2> QED  BY <2>1, <2>2, <2>3 DEF InTurn
<1>12. DeletedStaysAway'
  <2> SUFFICES ASSUME NEW m \in stones', onScreen'[m] # "no"
               PROVE  m \in unaware'
    BY DEF DeletedStaysAway
  <2>1. m \in stones /\ m \in Texts  BY <1>1 DEF HistoryInv, HistoryTypeOK
  <2>2. m \notin load[h].stones  BY <2>1, <1>5
  <2> QED  BY <1>1, <2>1, <2>2 DEF HistoryInv, StonesKnown
<1>13. NothingVanishes'
  <2> SUFFICES ASSUME NEW m \in displayed', removal'[m] = "no", ~stale'
               PROVE  onScreen'[m] = "whole"
    BY DEF NothingVanishes
  <2>1. m \in Texts /\ removal[m] = "no" /\ ~load[h].passed
    BY <1>1, <1>6 DEF HistoryInv, HistoryTypeOK
  <2>2. load[h].rows[m] = "whole"
    BY <1>1, <1>6, <2>1 DEF HistoryInv, InTurn
  <2>3. load[h].found[m] = "whole"  BY <1>1, <2>1, <2>2 DEF HistoryInv, RowsKept
  <2>4. m \notin load[h].stones  BY <2>1 DEF HistoryInv, StonesKnown
  <2> QED  BY <1>5, <2>1, <2>3, <2>4
<1>14. NoRowIsLeft'  BY <1>1 DEF HistoryInv, NoRowIsLeft
<1> QED  BY <1>7, <1>8, <1>10, <1>11, <1>12, <1>13, <1>14 DEF HistoryInv

\* The program ends, and with it what is in memory.
LEMMA EndStep == ASSUME HistoryInv, ProgramEnds PROVE HistoryInv'
<1>1. /\ UNCHANGED <<mine, kept, logged, stones, unaware>> /\ ended' = TRUE
      /\ load' = [h \in Hydrations |-> Resting] /\ onScreen' = Nothing /\ entering' = {}
      /\ displayed' = {} /\ stale' = FALSE
  BY DEF ProgramEnds
<1>2. /\ removal' \in [Texts -> Removals]
      /\ \A m \in Texts : /\ removal[m] = "blanked" \/ removal[m] = "broken" =>
                                 removal'[m] = "broken"
                          /\ removal[m] \in {"buried", "done", "untold"} => removal'[m] = "done"
  BY DEF ProgramEnds, HistoryInv, HistoryTypeOK, Removals
<1>3. \A h \in Hydrations : /\ load'[h] = Resting /\ load'[h] \in Load
                            /\ load'[h].at = "idle" /\ load'[h].stones = {}
                            /\ load'[h].elder = {}
  BY <1>1, LoadTypes DEF HistoryInv
<1>4. Listed' = {}  BY <1>3 DEF Listed
<1>5. HistoryTypeOK'
  BY <1>1, <1>2, <1>3, LoadTypes DEF HistoryInv, HistoryTypeOK
<1>6. StonesKnown'
  BY <1>1, <1>2, <1>3 DEF HistoryInv, HistoryTypeOK, StonesKnown, Past
<1>7. RowsKept' /\ NothingVanishes'  BY <1>1, <1>4 DEF RowsKept, NothingVanishes
<1>8. InTurn'  BY <1>3, <1>4 DEF InTurn
<1>9. DeletedStaysAway'
  BY <1>1 DEF HistoryInv, HistoryTypeOK, DeletedStaysAway, Nothing
<1>10. NoRowIsLeft'  BY <1>1, <1>2 DEF HistoryInv, NoRowIsLeft
<1> QED  BY <1>5, <1>6, <1>7, <1>8, <1>9, <1>10 DEF HistoryInv

LEMMA HistoryStarts == ASSUME HistoryInit PROVE HistoryInv
<1>1. \A h \in Hydrations : /\ load[h] = Resting /\ Resting \in Load
                            /\ load[h].at = "idle" /\ load[h].stones = {}
                            /\ load[h].elder = {}
  BY DEF HistoryInit, Load, Nothing, Looks, Resting, LoadStages
<1>2. Listed = {}  BY <1>1 DEF Listed
<1>3. HistoryTypeOK
  BY <1>1 DEF HistoryInit, HistoryTypeOK, Nothing, Looks, Removals
<1>4. StonesKnown /\ RowsKept /\ InTurn
  BY <1>1, <1>2 DEF HistoryInit, StonesKnown, RowsKept, InTurn, Past
<1>5. DeletedStaysAway /\ NothingVanishes /\ NoRowIsLeft
  BY DEF HistoryInit, DeletedStaysAway, NothingVanishes, NoRowIsLeft, Nothing
<1> QED  BY <1>3, <1>4, <1>5 DEF HistoryInv

LEMMA HistoryStep == ASSUME HistoryInv, [HistoryNext]_chatVars PROVE HistoryInv'
<1>1. CASE HistoryNext
  BY <1>1, SaveSteps, RemovalSteps, BuryStep, ListStep, ReplaySteps, ShowStep, EndStep
  DEF HistoryNext
<1>2. CASE UNCHANGED chatVars
  <2>1. UNCHANGED <<mine, kept, logged, stones, entering, load, onScreen, removal, ended,
                    displayed, stale, unaware>>
    BY <1>2 DEF chatVars, historyState, historyGhosts
  <2>2. HistoryTypeOK'  BY <2>1 DEF HistoryInv, HistoryTypeOK
  <2>3. StonesKnown' /\ RowsKept' /\ InTurn'
    BY <2>1 DEF HistoryInv, StonesKnown, RowsKept, InTurn, Past, Listed
  <2>4. DeletedStaysAway' /\ NothingVanishes' /\ NoRowIsLeft'
    BY <2>1 DEF HistoryInv, DeletedStaysAway, NothingVanishes, NoRowIsLeft
  <2> QED  BY <2>2, <2>3, <2>4 DEF HistoryInv
<1> QED  BY <1>1, <1>2

-----------------------------------------------------------------------------
(***************************************************************************)
(* A group (Groups).                                                       *)
(***************************************************************************)

View == [known : BOOLEAN, members : SUBSET Users, hidden : BOOLEAN]

\* The letters that have not arrived.
Unread == posted \cup UNION {fanout[u] : u \in Users}

GroupTypes ==
    /\ group \in [Users -> View] /\ screen \in [Users -> View]
    /\ fanout \in [Users -> SUBSET Letters] /\ posted \in SUBSET Letters
    /\ groupOps \in Nat /\ invited \in SUBSET Users
    /\ \A u \in Users : \A l \in fanout[u] : l.event.actor = u /\ l.to # u
    /\ \A l \in posted : l.to # l.event.actor

\* What a user has kept or sees: he is in its list unless he has left, and all of it was named.
Sensible(u, g) ==
    /\ g.known => (g.hidden <=> u \notin g.members)
    /\ g.members \subseteq invited
ViewsSensible ==
    /\ \A u \in Users : Sensible(u, group[u]) /\ Sensible(u, screen[u])
    /\ \A l \in Unread : /\ l.event.named \cup {l.event.actor} \subseteq invited
                         /\ l.event.kind = "leave" => l.event.named = {l.event.actor}

\* Nobody has a group that has not been created.
Uncreated ==
    ~group[Founder].known =>
        /\ \A u \in Users : ~group[u].known /\ ~screen[u].known
        /\ Unread = {}

\* While operations do not overlap and none is lost, there is a list that all have: its
\* members when they have read the one letter that each of them may still be sent, and those
\* who are not in it do not see the group.
Agreed(m) ==
    /\ \A v \in Users : \/ v \in m /\ group[v] = Shown(TRUE, m, FALSE)
                        \/ v \notin m /\ ~InGroup(v)
                        \/ \E l \in Unread : l.to = v
    /\ \A l \in Unread : l.to \in m /\ Applied(l.to, group[l.to], l.event) = Shown(TRUE, m, FALSE)
    /\ \A k, l \in Unread : k.to = l.to => k = l
    /\ \A u \in Users : fanout[u] \cap posted = {}
OneList == ~mixed /\ ~missed => \E m \in SUBSET Users : Agreed(m)

GroupInv == GroupTypes /\ ViewsSensible /\ Uncreated /\ OneList

LEMMA GroupStarts == ASSUME GroupInit PROVE GroupInv
<1>1. NoGroup \in View /\ ~NoGroup.known /\ NoGroup.members = {}  BY DEF NoGroup, View
<1>2. GroupTypes  BY <1>1 DEF GroupInit, GroupTypes
<1>3. Unread = {}  BY DEF Unread, GroupInit
<1>4. ViewsSensible /\ Uncreated
  BY <1>1, <1>3 DEF GroupInit, ViewsSensible, Uncreated, Sensible
<1>5. Agreed({})
  BY <1>1, <1>3 DEF GroupInit, Agreed, InGroup
<1> QED  BY <1>2, <1>4, <1>5 DEF GroupInv, OneList

\* What a user does who creates a group, invites or leaves: what he keeps then, whom he has
\* still to tell, and whom he has named.
Does(u, nowHas, letters, named) ==
    /\ Acts(u)
    /\ group' = [group EXCEPT ![u] = nowHas]
    /\ fanout' = [fanout EXCEPT ![u] = @ \cup letters]
    /\ invited' = invited \cup named

\* An operation that is not mixed with another one leads from a list that all have to another.
LEMMA OperationStep ==
    ASSUME GroupInv, NEW u \in Users, NEW nowHas \in View, NEW letters \in SUBSET Letters,
           NEW named \in SUBSET Users, Does(u, nowHas, letters, named),
           \A l \in letters : /\ l.event.actor = u /\ l.to # u
                              /\ l.event.named \cup {u} \subseteq invited'
                              /\ l.event.kind = "leave" => l.event.named = {u},
           Sensible(u, nowHas)',
           nowHas.known /\ (u = Founder \/ group[Founder].known),
           ASSUME ~Underway, NEW m \in SUBSET Users, Agreed(m), Unread = {}
           PROVE  \E n \in SUBSET Users :
                      /\ (u \in n /\ nowHas = Shown(TRUE, n, FALSE))
                         \/ (u \notin n /\ nowHas.hidden)
                      /\ \A v \in Users \ {u} :
                             \/ \E l \in letters : l.to = v
                             \/ v \in n /\ group[v] = Shown(TRUE, n, FALSE)
                             \/ v \notin n /\ ~InGroup(v)
                      /\ \A l \in letters :
                             /\ l.to \in n
                             /\ Applied(l.to, group[l.to], l.event) = Shown(TRUE, n, FALSE)
                      /\ \A k, l \in letters : k.to = l.to => k = l
    PROVE  GroupInv'
<1>1. /\ UNCHANGED <<screen, posted, missed>>
      /\ groupOps' \in Nat /\ mixed' = (mixed \/ Underway)
  BY DEF Does, Acts, GroupInv, GroupTypes
<1>2. /\ group' \in [Users -> View] /\ group'[u] = nowHas
      /\ \A v \in Users \ {u} : group'[v] = group[v]
      /\ fanout' \in [Users -> SUBSET Letters] /\ fanout'[u] = fanout[u] \cup letters
      /\ \A v \in Users \ {u} : fanout'[v] = fanout[v]
      /\ invited' = invited \cup named /\ invited' \in SUBSET Users
  BY DEF Does, GroupInv, GroupTypes
<1>3. Unread' = Unread \cup letters
  <2>1. \A l : l \in UNION {fanout'[v] : v \in Users} <=>
               l \in letters \/ l \in UNION {fanout[v] : v \in Users}
    BY <1>2
  <2> QED  BY <2>1, <1>1 DEF Unread
<1>4. GroupTypes'
  BY <1>1, <1>2 DEF GroupInv, GroupTypes
<1>5. ViewsSensible'
  <2>1. \A v \in Users : Sensible(v, group[v])' /\ Sensible(v, screen[v])'
    BY <1>1, <1>2 DEF GroupInv, ViewsSensible, Sensible
  <2>2. \A l \in Unread' : /\ l.event.named \cup {l.event.actor} \subseteq invited'
                           /\ l.event.kind = "leave" => l.event.named = {l.event.actor}
    BY <1>2, <1>3 DEF GroupInv, ViewsSensible
  <2> QED  BY <2>1, <2>2 DEF ViewsSensible
<1>6. Uncreated'
  <2>1. Founder \in Users  BY GroupAssumption
  <2>2. group'[Founder].known  BY <2>1, <1>2
  <2> QED  BY <2>2 DEF Uncreated
<1>7. OneList'
  <2> SUFFICES ASSUME ~mixed', ~missed' PROVE \E n \in SUBSET Users : Agreed(n)'
    BY DEF OneList
  <2>1. ~Underway /\ ~mixed /\ ~missed  BY <1>1
  <2>2. PICK m \in SUBSET Users : Agreed(m)  BY <2>1 DEF GroupInv, OneList
  <2>3. Unread = {}  BY <2>1 DEF Underway, Unread
  <2>4. PICK n \in SUBSET Users :
            /\ (u \in n /\ nowHas = Shown(TRUE, n, FALSE)) \/ (u \notin n /\ nowHas.hidden)
            /\ \A v \in Users \ {u} :
                   \/ \E l \in letters : l.to = v
                   \/ v \in n /\ group[v] = Shown(TRUE, n, FALSE)
                   \/ v \notin n /\ ~InGroup(v)
            /\ \A l \in letters :
                   l.to \in n /\ Applied(l.to, group[l.to], l.event) = Shown(TRUE, n, FALSE)
            /\ \A k, l \in letters : k.to = l.to => k = l
    BY <2>1, <2>2, <2>3
  <2>5. Unread' = letters  BY <1>3, <2>3
  <2>6. \A l \in letters : l.to \in Users \ {u}  BY DEF Letters
  <2>7. \A v \in Users \ {u} : InGroup(v)' <=> InGroup(v)  BY <1>2 DEF InGroup
  <2>8. (u \in n /\ nowHas = Shown(TRUE, n, FALSE)) \/ (u \notin n /\ ~InGroup(u)')
    BY <1>2, <2>4 DEF InGroup
  <2>9. \A v \in Users : \/ v \in n /\ group'[v] = Shown(TRUE, n, FALSE)
                         \/ v \notin n /\ ~InGroup(v)'
                         \/ \E l \in Unread' : l.to = v
    BY <1>2, <2>4, <2>5, <2>7, <2>8
  <2>10. \A l \in Unread' : /\ l.to \in n
                            /\ Applied(l.to, group'[l.to], l.event) = Shown(TRUE, n, FALSE)
    BY <1>2, <2>4, <2>5, <2>6
  <2>11. \A v \in Users : fanout'[v] \cap posted' = {}
    BY <1>1, <1>3, <2>3, <2>5 DEF Unread
  <2>12. \A k, l \in Unread' : k.to = l.to => k = l  BY <2>4, <2>5
  <2> QED  BY <2>9, <2>10, <2>11, <2>12 DEF Agreed
<1> QED  BY <1>4, <1>5, <1>6, <1>7 DEF GroupInv

\* One letter of an event to each of some users.
OneEach(letters, e, s) ==
    /\ letters \in SUBSET Letters
    /\ \A l \in letters : l.event = e /\ l.to \in s
    /\ \A v \in s : \E l \in letters : l.to = v
    /\ \A k, l \in letters : k.to = l.to => k = l

LEMMA OneLetterEach ==
    ASSUME NEW s \in SUBSET Users, NEW e \in Events
    PROVE  OneEach({[to |-> v, event |-> e] : v \in s}, e, s)
<1> DEFINE letter(v) == [to |-> v, event |-> e]
<1> DEFINE letters == {letter(v) : v \in s}
<1>1. \A v \in Users : letter(v) \in Letters /\ letter(v).to = v /\ letter(v).event = e
  BY DEF Letters
<1> HIDE DEF letter
<1>2. OneEach(letters, e, s)  BY <1>1 DEF OneEach
<1> QED  BY <1>2 DEF letter

LEMMA CreateStep ==
    ASSUME GroupInv, NEW members \in SUBSET Users, CreateGroup(members)
    PROVE  GroupInv'
<1> DEFINE all == members \cup {Founder}
<1> DEFINE nowHas == Shown(TRUE, all, FALSE)
<1>0. PICK event : event = Event("create", Founder, all)  OBVIOUS
<1> DEFINE letters == To(members, event)
<1>1. Founder \in Users /\ groupOps \in Nat  BY GroupAssumption DEF GroupInv, GroupTypes
<1>2. nowHas \in View /\ nowHas.known /\ ~nowHas.hidden /\ nowHas.members = all
  BY <1>1 DEF View, Shown
<1>3. event \in Events /\ event.kind = "create" /\ event.actor = Founder /\ event.named = all
  BY <1>0, <1>1 DEF Event, Events
<1>4. /\ letters \in SUBSET Letters
      /\ \A l \in letters : l.event = event /\ l.to \in members /\ l.to # Founder
      /\ \A v \in members : \E l \in letters : l.to = v
      /\ \A k, l \in letters : k.to = l.to => k = l
  <2>1. letters = {[to |-> v, event |-> event] : v \in members}
    BY <1>3 DEF To, CreateGroup
  <2>2. Founder \notin members  BY DEF CreateGroup
  <2>3. OneEach(letters, event, members)  BY <2>1, <1>3, OneLetterEach
  <2> HIDE DEF letters
  <2> QED  BY <2>2, <2>3 DEF OneEach
<1>5. /\ Acts(Founder) /\ invited' = invited \cup all /\ ~group[Founder].known
      /\ group' = [group EXCEPT ![Founder] = nowHas]
      /\ fanout' = [fanout EXCEPT ![Founder] = letters]
  BY <1>0 DEF CreateGroup
<1>6. Unread = {} /\ \A u \in Users : ~group[u].known
  BY <1>5 DEF GroupInv, Uncreated
<1>7. fanout[Founder] = {}  BY <1>1, <1>6 DEF Unread
<1> HIDE DEF nowHas, letters
<1>8. Does(Founder, nowHas, letters, all)
  <2>1. fanout[Founder] \cup letters = letters  BY <1>7
  <2> QED  BY <1>5, <2>1 DEF Does
<1>9. \A l \in letters : Applied(l.to, group[l.to], l.event) = Shown(TRUE, all, FALSE)
  BY <1>3, <1>4 DEF Applied
<1>10. nowHas = Shown(TRUE, all, FALSE)  BY DEF nowHas
<1>11. Sensible(Founder, nowHas)'  BY <1>2, <1>5 DEF Sensible
<1>12. \A l \in letters : /\ l.event.actor = Founder /\ l.to # Founder
                          /\ l.event.named \cup {Founder} \subseteq invited'
                          /\ l.event.kind = "leave" => l.event.named = {Founder}
  BY <1>3, <1>4, <1>5
<1>13. /\ Founder \in all /\ all \in SUBSET Users
       /\ \A v \in Users \ {Founder} : \/ \E l \in letters : l.to = v
                                       \/ v \notin all /\ ~InGroup(v)
       /\ \A l \in letters : l.to \in all
  BY <1>1, <1>4, <1>6 DEF InGroup
<1>14. ASSUME ~Underway, NEW m \in SUBSET Users, Agreed(m), Unread = {}
       PROVE  \E n \in SUBSET Users :
                  /\ \/ Founder \in n /\ nowHas = Shown(TRUE, n, FALSE)
                     \/ Founder \notin n /\ nowHas.hidden
                  /\ \A v \in Users \ {Founder} :
                         \/ \E l \in letters : l.to = v
                         \/ v \in n /\ group[v] = Shown(TRUE, n, FALSE)
                         \/ v \notin n /\ ~InGroup(v)
                  /\ \A l \in letters :
                         /\ l.to \in n
                         /\ Applied(l.to, group[l.to], l.event) = Shown(TRUE, n, FALSE)
                  /\ \A k, l \in letters : k.to = l.to => k = l
  <2> HIDE DEF all
  <2> QED  BY <1>4, <1>9, <1>10, <1>13
<1> HIDE DEF all
<1> QED
  BY <1>1, <1>2, <1>4, <1>8, <1>11, <1>12, <1>13, <1>14, OperationStep

LEMMA InviteStep ==
    ASSUME GroupInv, NEW u \in Users, NEW new \in SUBSET Users, Invite(u, new)
    PROVE  GroupInv'
<1>a. PICK old : old = screen[u].members  OBVIOUS
<1> DEFINE all == old \cup new
<1> DEFINE nowHas == Shown(TRUE, all, FALSE)
<1>b. PICK joins : joins = Event("create", u, all)  OBVIOUS
<1>c. PICK grows : grows = Event("invite", u, new)  OBVIOUS
<1>d. PICK letters : letters = InviteEvents(u, old, new)  OBVIOUS
<1>1. /\ screen[u].known /\ ~screen[u].hidden /\ new # {} /\ new \cap (old \cup {u}) = {}
      /\ Acts(u) /\ invited' = invited \cup new
      /\ group' = [group EXCEPT ![u] = nowHas]
      /\ fanout' = [fanout EXCEPT ![u] = @ \cup letters]
  BY <1>a, <1>d DEF Invite
<1>2. /\ groupOps \in Nat /\ screen[u] \in View /\ old \subseteq Users /\ u \in old
      /\ old \subseteq invited
  BY <1>a, <1>1 DEF GroupInv, GroupTypes, ViewsSensible, Sensible, View
<1>3. nowHas \in View /\ nowHas.known /\ ~nowHas.hidden /\ nowHas.members = all
  BY <1>2 DEF View, Shown
<1>4. /\ joins \in Events /\ joins.kind = "create" /\ joins.actor = u /\ joins.named = all
      /\ grows \in Events /\ grows.kind = "invite" /\ grows.actor = u /\ grows.named = new
  BY <1>b, <1>c, <1>2 DEF Event, Events
<1>5. /\ letters \in SUBSET Letters
      /\ \A l \in letters : \/ l.event = grows /\ l.to \in old \ {u}
                            \/ l.event = joins /\ l.to \in new
      /\ \A v \in all \ {u} : \E l \in letters : l.to = v
      /\ \A k, l \in letters : k.to = l.to => k = l
  <2> DEFINE toOld == {[to |-> v, event |-> grows] : v \in old \ {u}}
  <2> DEFINE toNew == {[to |-> v, event |-> joins] : v \in new \ {u}}
  <2>1. letters = toOld \cup toNew
    BY <1>b, <1>c, <1>d, <1>4 DEF InviteEvents, To
  <2>2. old \ {u} \in SUBSET Users /\ new \ {u} \in SUBSET Users  BY <1>2
  <2>8. OneEach(toOld, grows, old \ {u}) /\ OneEach(toNew, joins, new \ {u})
    BY <2>2, <1>4, OneLetterEach
  <2> HIDE DEF toOld, toNew
  <2>3. /\ toOld \in SUBSET Letters
        /\ \A l \in toOld : l.event = grows /\ l.to \in old \ {u}
        /\ \A v \in old \ {u} : \E l \in toOld : l.to = v
        /\ \A k, l \in toOld : k.to = l.to => k = l
    BY <2>8 DEF OneEach
  <2>4. /\ toNew \in SUBSET Letters
        /\ \A l \in toNew : l.event = joins /\ l.to \in new \ {u}
        /\ \A v \in new \ {u} : \E l \in toNew : l.to = v
        /\ \A k, l \in toNew : k.to = l.to => k = l
    BY <2>8 DEF OneEach
  <2>5. new \cap old = {} /\ u \notin new  BY <1>1
  <2>6. /\ \A l \in letters : \/ l.event = grows /\ l.to \in old \ {u}
                              \/ l.event = joins /\ l.to \in new
        /\ \A v \in all \ {u} : \E l \in letters : l.to = v
    BY <2>1, <2>3, <2>4, <2>5
  <2>7. \A k, l \in letters : k.to = l.to => k = l
    BY <2>1, <2>3, <2>4, <2>5
  <2> QED  BY <2>1, <2>3, <2>4, <2>6, <2>7
<1> HIDE DEF all
<1>6. Does(u, nowHas, letters, new)  BY <1>1 DEF Does
<1>7. all = old \cup new  BY DEF all
<1>12. Sensible(u, nowHas)'
  <2> HIDE DEF nowHas
  <2> QED  BY <1>1, <1>2, <1>3, <1>7 DEF Sensible
<1>8. \A l \in letters : /\ l.event.actor = u /\ l.to # u
                         /\ l.event.named \cup {u} \subseteq invited'
                         /\ l.event.kind = "leave" => l.event.named = {u}
  BY <1>1, <1>2, <1>4, <1>5
<1>9. u = Founder \/ group[Founder].known
  BY <1>1 DEF GroupInv, Uncreated
<1>10. nowHas = Shown(TRUE, all, FALSE) /\ u \in all /\ all \in SUBSET Users  BY <1>2, <1>7
<1> HIDE DEF nowHas
<1>11. ASSUME ~Underway, NEW m \in SUBSET Users, Agreed(m), Unread = {}
       PROVE  /\ \A v \in Users \ {u} : \/ \E l \in letters : l.to = v
                                        \/ v \notin all /\ ~InGroup(v)
              /\ \A l \in letters :
                     /\ l.to \in all
                     /\ Applied(l.to, group[l.to], l.event) = Shown(TRUE, all, FALSE)
  <2>1. screen[u] = group[u]  BY <1>11 DEF Underway
  <2>2. InGroup(u)  BY <1>1, <2>1 DEF InGroup
  <2>3. \A v \in Users : \/ v \in m /\ group[v] = Shown(TRUE, m, FALSE)
                         \/ v \notin m /\ ~InGroup(v)
    BY <1>11 DEF Agreed
  <2>4. Shown(TRUE, m, FALSE).members = m /\ Shown(TRUE, m, FALSE).known
        /\ ~Shown(TRUE, m, FALSE).hidden
    BY DEF Shown
  <2>5. group[u] = Shown(TRUE, m, FALSE)  BY <2>2, <2>3
  <2>6. old = m  BY <1>a, <2>1, <2>4, <2>5
  <2>7. \A v \in Users \ {u} : \/ \E l \in letters : l.to = v
                               \/ v \notin all /\ ~InGroup(v)
    BY <1>5, <1>7, <2>3, <2>6
  <2>8. ASSUME NEW l \in letters
        PROVE  l.to \in all /\ Applied(l.to, group[l.to], l.event) = Shown(TRUE, all, FALSE)
    <3>1. CASE l.event = joins /\ l.to \in new
      <4>1. all \cup {u} = all /\ l.to \in all  BY <3>1, <1>2, <1>7
      <4> QED  BY <3>1, <4>1, <1>4 DEF Applied
    <3>2. CASE l.event = grows /\ l.to \in old \ {u}
      <4>1. group[l.to] = Shown(TRUE, m, FALSE)  BY <3>2, <2>3, <2>6, <1>2
      <4>2. l.to \in all /\ m \cup new = all /\ u \in m /\ l.to \in m \cup new
        BY <3>2, <2>6, <1>2, <1>7
      <4> QED  BY <3>2, <4>1, <4>2, <2>4, <1>4 DEF Applied
    <3> QED  BY <1>5, <3>1, <3>2
  <2> QED  BY <2>7, <2>8
<1>13. ASSUME ~Underway, NEW m \in SUBSET Users, Agreed(m), Unread = {}
       PROVE  \E n \in SUBSET Users :
                  /\ (u \in n /\ nowHas = Shown(TRUE, n, FALSE)) \/ (u \notin n /\ nowHas.hidden)
                  /\ \A v \in Users \ {u} :
                         \/ \E l \in letters : l.to = v
                         \/ v \in n /\ group[v] = Shown(TRUE, n, FALSE)
                         \/ v \notin n /\ ~InGroup(v)
                  /\ \A l \in letters :
                         /\ l.to \in n
                         /\ Applied(l.to, group[l.to], l.event) = Shown(TRUE, n, FALSE)
                  /\ \A k, l \in letters : k.to = l.to => k = l
  BY <1>13, <1>5, <1>10, <1>11
<1> QED
  BY <1>3, <1>5, <1>6, <1>8, <1>9, <1>12, <1>13, OperationStep

LEMMA LeaveStep ==
    ASSUME GroupInv, NEW u \in Users, Leave(u)
    PROVE  GroupInv'
<1>a. PICK old : old = screen[u].members  OBVIOUS
<1> DEFINE rest == old \ {u}
<1> DEFINE nowHas == Shown(TRUE, rest, TRUE)
<1>b. PICK event : event = Event("leave", u, {u})  OBVIOUS
<1> DEFINE letters == To(old, event)
<1>1. /\ screen[u].known /\ ~screen[u].hidden
      /\ Acts(u) /\ invited' = invited \cup {}
      /\ group' = [group EXCEPT ![u] = nowHas]
      /\ fanout' = [fanout EXCEPT ![u] = @ \cup letters]
  BY <1>a, <1>b DEF Leave
<1>2. /\ groupOps \in Nat /\ screen[u] \in View /\ old \subseteq Users /\ u \in old
      /\ old \subseteq invited
  BY <1>a, <1>1 DEF GroupInv, GroupTypes, ViewsSensible, Sensible, View
<1>3. nowHas \in View /\ nowHas.known /\ nowHas.hidden /\ nowHas.members = rest
  BY <1>2 DEF View, Shown
<1>4. event \in Events /\ event.kind = "leave" /\ event.actor = u /\ event.named = {u}
  BY <1>b, <1>2 DEF Event, Events
<1>5. /\ letters \in SUBSET Letters
      /\ \A l \in letters : l.event = event /\ l.to \in rest
      /\ \A v \in rest : \E l \in letters : l.to = v
      /\ \A k, l \in letters : k.to = l.to => k = l
  <2>1. letters = {[to |-> v, event |-> event] : v \in rest}
    BY <1>4 DEF To
  <2>2. rest \in SUBSET Users  BY <1>2
  <2>3. OneEach(letters, event, rest)  BY <2>1, <2>2, <1>4, OneLetterEach
  <2> HIDE DEF letters, rest
  <2> QED  BY <2>3 DEF OneEach
<1> HIDE DEF letters, rest
<1>6. Does(u, nowHas, letters, {})  BY <1>1 DEF Does
<1>7. rest = old \ {u}  BY DEF rest
<1>12. Sensible(u, nowHas)'
  <2> HIDE DEF nowHas
  <2> QED  BY <1>1, <1>2, <1>3, <1>7 DEF Sensible
<1>8. \A l \in letters : /\ l.event.actor = u /\ l.to # u
                         /\ l.event.named \cup {u} \subseteq invited'
                         /\ l.event.kind = "leave" => l.event.named = {u}
  BY <1>1, <1>2, <1>4, <1>5, <1>7
<1>9. u = Founder \/ group[Founder].known
  BY <1>1 DEF GroupInv, Uncreated
<1> HIDE DEF nowHas
<1>10. ASSUME ~Underway, NEW m \in SUBSET Users, Agreed(m), Unread = {}
       PROVE  /\ \A v \in Users \ {u} : \/ \E l \in letters : l.to = v
                                        \/ v \notin rest /\ ~InGroup(v)
              /\ \A l \in letters :
                     /\ l.to \in rest
                     /\ Applied(l.to, group[l.to], l.event) = Shown(TRUE, rest, FALSE)
  <2>1. screen[u] = group[u]  BY <1>10 DEF Underway
  <2>2. InGroup(u)  BY <1>1, <2>1 DEF InGroup
  <2>3. \A v \in Users : \/ v \in m /\ group[v] = Shown(TRUE, m, FALSE)
                         \/ v \notin m /\ ~InGroup(v)
    BY <1>10 DEF Agreed
  <2>4. Shown(TRUE, m, FALSE).members = m /\ Shown(TRUE, m, FALSE).known
        /\ Shown(TRUE, m, FALSE).hidden = FALSE
    BY DEF Shown
  <2>5. group[u] = Shown(TRUE, m, FALSE)  BY <2>2, <2>3
  <2>6. old = m  BY <1>a, <2>1, <2>4, <2>5
  <2>7. \A v \in Users \ {u} : \/ \E l \in letters : l.to = v
                               \/ v \notin rest /\ ~InGroup(v)
    BY <1>5, <1>7, <2>3, <2>6
  <2>8. ASSUME NEW l \in letters
        PROVE  l.to \in rest /\ Applied(l.to, group[l.to], l.event) = Shown(TRUE, rest, FALSE)
    <3>1. l.event = event /\ l.to \in rest  BY <1>5
    <3>2. group[l.to] = Shown(TRUE, m, FALSE) /\ l.to \in m  BY <3>1, <2>3, <2>6, <1>2, <1>7
    <3>3. m \ {u} = rest /\ u \in m  BY <2>6, <1>2, <1>7
    <3> QED  BY <3>1, <3>2, <3>3, <2>4, <1>4 DEF Applied
  <2> QED  BY <2>7, <2>8
<1>11. rest \in SUBSET Users /\ u \notin rest /\ {} \in SUBSET Users  BY <1>2, <1>7
<1>13. ASSUME ~Underway, NEW m \in SUBSET Users, Agreed(m), Unread = {}
       PROVE  \E n \in SUBSET Users :
                  /\ (u \in n /\ nowHas = Shown(TRUE, n, FALSE)) \/ (u \notin n /\ nowHas.hidden)
                  /\ \A v \in Users \ {u} :
                         \/ \E l \in letters : l.to = v
                         \/ v \in n /\ group[v] = Shown(TRUE, n, FALSE)
                         \/ v \notin n /\ ~InGroup(v)
                  /\ \A l \in letters :
                         /\ l.to \in n
                         /\ Applied(l.to, group[l.to], l.event) = Shown(TRUE, n, FALSE)
                  /\ \A k, l \in letters : k.to = l.to => k = l
  BY <1>13, <1>3, <1>5, <1>10, <1>11
<1> QED
  BY <1>3, <1>5, <1>6, <1>8, <1>9, <1>11, <1>12, <1>13, OperationStep

\* The screen is read again; letters are sent, and may be lost.
LEMMA LetterSteps ==
    ASSUME GroupInv, NEW u \in Users,
           Hydrate(u) \/ Reloaded(u) \/ \E l \in fanout[u] : EventSent(u, l) \/ EventMissed(u, l)
    PROVE  GroupInv'
<1>0. GroupTypes /\ group[u] \in View  BY DEF GroupInv, GroupTypes
<1>1. /\ UNCHANGED <<group, groupOps, mixed, invited>>
      /\ missed' = missed \/ missed' = TRUE
      /\ screen' = screen \/ screen' = [screen EXCEPT ![u] = group[u]]
      /\ fanout' \in [Users -> SUBSET Letters] /\ posted' \in SUBSET Letters
      /\ \A v \in Users : fanout'[v] \subseteq fanout[v]
      /\ posted' \subseteq posted \cup fanout[u]
  <2>1. CASE Hydrate(u)  BY <2>1, <1>0 DEF Hydrate, GroupTypes
  <2>2. CASE Reloaded(u)  BY <2>2, <1>0 DEF Reloaded, GroupTypes
  <2>3. CASE \E l \in fanout[u] : EventSent(u, l) \/ EventMissed(u, l)
    <3>1. PICK l \in fanout[u] : EventSent(u, l) \/ EventMissed(u, l)  BY <2>3
    <3> QED  BY <3>1, <1>0 DEF EventSent, EventMissed, GroupTypes
  <2> QED  BY <2>1, <2>2, <2>3
<1>2. Unread' \subseteq Unread  BY <1>1 DEF Unread
<1>3. \A v \in Users : screen'[v] = screen[v] \/ screen'[v] = group[v]
  BY <1>0, <1>1 DEF GroupTypes
<1>4. GroupTypes'
  BY <1>0, <1>1 DEF GroupTypes
<1>5. ViewsSensible'
  BY <1>1, <1>2, <1>3 DEF GroupInv, ViewsSensible, Sensible
<1>6. Uncreated'
  BY <1>1, <1>2, <1>3 DEF GroupInv, Uncreated
<1>7. OneList'
  <2> SUFFICES ASSUME ~mixed', ~missed' PROVE \E n \in SUBSET Users : Agreed(n)'
    BY DEF OneList
  <2>1. ~mixed /\ ~missed  BY <1>1
  <2>2. PICK n \in SUBSET Users : Agreed(n)  BY <2>1 DEF GroupInv, OneList
  <2>3. Unread' = Unread /\ \A v \in Users : fanout'[v] \cap posted' = {}
    <3>1. CASE Hydrate(u)  BY <3>1, <2>2 DEF Hydrate, Unread, Agreed
    <3>2. CASE \E l \in fanout[u] : EventSent(u, l)
      <4>1. PICK l \in fanout[u] : EventSent(u, l)  BY <3>2
      <4>2. /\ posted' = posted \cup {l} /\ fanout'[u] = fanout[u] \ {l}
            /\ \A v \in Users \ {u} : fanout'[v] = fanout[v] /\ l \notin fanout[v]
        BY <4>1, <1>0 DEF EventSent, GroupTypes
      <4> QED  BY <4>1, <4>2, <2>2 DEF Unread, Agreed
    <3> QED  BY <3>1, <3>2 DEF Reloaded, EventMissed
  <2> QED  BY <1>1, <2>2, <2>3 DEF Agreed, InGroup
<1> QED  BY <1>4, <1>5, <1>6, <1>7 DEF GroupInv

LEMMA ReceiveStep ==
    ASSUME GroupInv, NEW l \in posted, Received(l)
    PROVE  GroupInv'
<1> DEFINE v == l.to
<1> DEFINE e == l.event
<1>a. PICK next : next = Applied(v, group[v], e)  OBVIOUS
<1>0. /\ GroupTypes /\ v \in Users /\ e \in Events /\ v # e.actor /\ group[v] \in View
      /\ e.named \subseteq Users /\ e.actor \in Users
  BY DEF GroupInv, GroupTypes, Letters, Events
<1>1. /\ UNCHANGED <<screen, fanout, groupOps, mixed, missed, invited>>
      /\ posted' = posted \ {l} /\ group' = [group EXCEPT ![v] = next]
  BY <1>a DEF Received
<1>2. Unread' \subseteq Unread /\ l \in Unread  BY <1>1 DEF Unread
<1>3. Sensible(v, group[v]) /\ e.named \cup {e.actor} \subseteq invited
      /\ (e.kind = "leave" => e.named = {e.actor})
  BY <1>0, <1>2 DEF GroupInv, ViewsSensible
<1>4. next \in View /\ Sensible(v, next) /\ (group[v].known => next.known)
  <2> DEFINE g == group[v]
  <2>1. g \in View /\ g.members \subseteq Users  BY <1>0 DEF View
  <2>2. \A m \in SUBSET Users, h \in BOOLEAN :
            /\ Shown(TRUE, m, h) \in View /\ Shown(TRUE, m, h).known
            /\ Shown(TRUE, m, h).members = m /\ Shown(TRUE, m, h).hidden = h
    BY DEF Shown, View
  <2>3. g.hidden \in BOOLEAN  BY <2>1 DEF View
  <2>0. next = Applied(v, g, e)  BY <1>a
  <2> HIDE DEF g, v, e
  <2>4. CASE e.kind = "create"
    <3>1. CASE v \in e.named
      <4>1. next = Shown(TRUE, e.named \cup {e.actor}, FALSE)  BY <2>0, <2>4, <3>1 DEF Applied
      <4>2. e.named \cup {e.actor} \in SUBSET Users  BY <1>0
      <4> QED  BY <4>1, <4>2, <2>2, <3>1, <1>3 DEF Sensible
    <3>2. CASE v \notin e.named
      <4>1. next = g  BY <2>0, <2>4, <3>2 DEF Applied
      <4> QED  BY <4>1, <2>1, <1>3 DEF g
    <3> QED  BY <3>1, <3>2
  <2>5. CASE e.kind # "create" /\ next = g  BY <2>5, <2>1, <1>3 DEF g
  <2>6. CASE e.kind = "invite" /\ next # g
    <3>1. /\ next = Shown(TRUE, g.members \cup e.named, FALSE)
          /\ v \in g.members \cup e.named
      BY <2>0, <2>6 DEF Applied
    <3>2. g.members \cup e.named \in SUBSET Users  BY <1>0, <2>1
    <3>3. g.members \subseteq invited  BY <1>3 DEF Sensible, g
    <3> QED  BY <3>1, <3>2, <3>3, <2>2, <1>3 DEF Sensible
  <2>7. CASE e.kind \notin {"create", "invite"} /\ next # g
    <3>1. /\ next = Shown(TRUE, g.members \ e.named, g.hidden)
          /\ v \in g.members /\ g.known
      BY <2>0, <2>7 DEF Applied
    <3>2. g.members \ e.named \in SUBSET Users  BY <2>1
    <3>3. g.members \subseteq invited /\ ~g.hidden  BY <3>1, <1>3 DEF Sensible, g
    <3>4. e.kind = "leave"  BY <2>7, <1>0 DEF Events, e
    <3>5. v \notin e.named  BY <3>4, <1>0, <1>3
    <3> QED  BY <3>1, <3>2, <3>3, <3>5, <2>2, <2>3 DEF Sensible
  <2> QED  BY <2>4, <2>5, <2>6, <2>7
<1> HIDE DEF v, e
<1>5. /\ group' \in [Users -> View] /\ group'[v] = next
      /\ \A u \in Users \ {v} : group'[u] = group[u]
  BY <1>0, <1>1, <1>4 DEF GroupTypes
<1>6. GroupTypes'
  BY <1>0, <1>1, <1>5 DEF GroupTypes
<1>7. ViewsSensible'
  <2>1. \A u \in Users : Sensible(u, group[u])' /\ Sensible(u, screen[u])'
    BY <1>1, <1>4, <1>5 DEF GroupInv, ViewsSensible, Sensible
  <2> QED  BY <1>1, <1>2, <2>1 DEF GroupInv, ViewsSensible
<1>8. Uncreated'
  <2>1. Founder \in Users  BY GroupAssumption
  <2>2. group[Founder].known  BY <1>2 DEF GroupInv, Uncreated
  <2>3. group'[Founder].known  BY <2>1, <2>2, <1>4, <1>5
  <2> QED  BY <2>3 DEF Uncreated
<1>9. OneList'
  <2> SUFFICES ASSUME ~mixed', ~missed' PROVE \E n \in SUBSET Users : Agreed(n)'
    BY DEF OneList
  <2>1. PICK n \in SUBSET Users : Agreed(n)  BY <1>1 DEF GroupInv, OneList
  <2>2. Unread' = Unread \ {l}
    BY <1>1, <1>2, <2>1 DEF Unread, Agreed
  <2>3. v \in n /\ next = Shown(TRUE, n, FALSE)  BY <1>a, <1>2, <2>1 DEF Agreed, v, e
  <2>4. \A k \in Unread' : k.to # v  BY <1>2, <2>1, <2>2 DEF Agreed, v
  <2>5. \A u \in Users \ {v} : InGroup(u)' <=> InGroup(u)  BY <1>5 DEF InGroup
  <2>6. \A u \in Users : \/ u \in n /\ group'[u] = Shown(TRUE, n, FALSE)
                         \/ u \notin n /\ ~InGroup(u)'
                         \/ \E k \in Unread' : k.to = u
    <3> SUFFICES ASSUME NEW u \in Users \ {v}
                 PROVE  \/ u \in n /\ group'[u] = Shown(TRUE, n, FALSE)
                        \/ u \notin n /\ ~InGroup(u)'
                        \/ \E k \in Unread' : k.to = u
      BY <1>5, <2>3
    <3>1. \/ u \in n /\ group[u] = Shown(TRUE, n, FALSE)
          \/ u \notin n /\ ~InGroup(u)
          \/ \E k \in Unread : k.to = u
      BY <2>1 DEF Agreed
    <3>2. \A k \in Unread : k.to = u => k \in Unread'  BY <2>2 DEF v
    <3> QED  BY <3>1, <3>2, <1>5, <2>5
  <2>7. \A k \in Unread' :
          k.to \in n /\ Applied(k.to, group'[k.to], k.event) = Shown(TRUE, n, FALSE)
    <3> SUFFICES ASSUME NEW k \in Unread'
                 PROVE  k.to \in n
                        /\ Applied(k.to, group'[k.to], k.event) = Shown(TRUE, n, FALSE)
      OBVIOUS
    <3>1. k \in Unread  BY <1>2
    <3>2. /\ k.to \in n
          /\ Applied(k.to, group[k.to], k.event) = Shown(TRUE, n, FALSE)
      BY <3>1, <2>1 DEF Agreed
    <3>3. group'[k.to] = group[k.to]  BY <3>2, <2>4, <1>5
    <3> QED  BY <3>2, <3>3
  <2>8. /\ \A j, k \in Unread' : j.to = k.to => j = k
        /\ \A u \in Users : fanout'[u] \cap posted' = {}
    BY <1>1, <1>2, <2>1 DEF Agreed
  <2> QED  BY <2>6, <2>7, <2>8 DEF Agreed
<1> QED  BY <1>6, <1>7, <1>8, <1>9 DEF GroupInv

LEMMA GroupStep == ASSUME GroupInv, [GroupNext]_groupVars PROVE GroupInv'
<1>1. CASE GroupNext
  BY <1>1, CreateStep, InviteStep, LeaveStep, LetterSteps, ReceiveStep DEF GroupNext
<1>2. CASE UNCHANGED groupVars
  <2>1. Unread' = Unread /\ \A u : InGroup(u)' = InGroup(u)
    BY <1>2 DEF groupVars, Unread, InGroup
  <2>2. GroupTypes' /\ ViewsSensible' /\ Uncreated'
    BY <1>2, <2>1
       DEF groupVars, GroupInv, GroupTypes, ViewsSensible, Sensible, Uncreated
  <2>3. \A m : Agreed(m) => Agreed(m)'
    BY <1>2, <2>1 DEF groupVars, Agreed
  <2>4. OneList'
    BY <1>2, <2>3 DEF groupVars, GroupInv, OneList
  <2> QED  BY <2>2, <2>4 DEF GroupInv
<1> QED  BY <1>1, <1>2

\* The invariant says what GroupsSound does.
LEMMA GroupsAreSound == ASSUME GroupInv PROVE GroupsSound
<1>1. GroupTypeOK
  BY DEF GroupInv, GroupTypes, GroupTypeOK, View
<1>2. LeftIsOut /\ NamedByMembers
  BY DEF GroupInv, ViewsSensible, Sensible, LeftIsOut, NamedByMembers
<1>3. ListsAgree
  <2> SUFFICES ASSUME ~Underway, ~mixed, ~missed, NEW u \in Users, InGroup(u)
               PROVE  group[u].members = {v \in Users : InGroup(v)}
    BY DEF ListsAgree
  <2>1. PICK m \in SUBSET Users : Agreed(m)  BY DEF GroupInv, OneList
  <2>2. Unread = {}  BY DEF Underway, Unread
  <2>3. \A v \in Users : \/ v \in m /\ group[v] = Shown(TRUE, m, FALSE)
                         \/ v \notin m /\ ~InGroup(v)
    BY <2>1, <2>2 DEF Agreed
  <2>4. Shown(TRUE, m, FALSE).members = m /\ Shown(TRUE, m, FALSE).known
        /\ ~Shown(TRUE, m, FALSE).hidden
    BY DEF Shown
  <2>5. \A v \in Users : InGroup(v) <=> v \in m  BY <2>3, <2>4 DEF InGroup
  <2> QED  BY <2>3, <2>4, <2>5
<1> QED  BY <1>1, <1>2, <1>3 DEF GroupsSound

-----------------------------------------------------------------------------
(***************************************************************************)
(* Two sides that greet each other (Handshake).                            *)
(***************************************************************************)

\* A family of sets of role events has a member that no other is a part of.
LEMMA SmallestSet ==
    ASSUME NEW family \in SUBSET (SUBSET RoleEvents), family # {}
    PROVE  \E s \in family : \A t \in family : t \subseteq s => t = s
<1> DEFINE R == StrictSubsetOrdering(RoleEvents)
<1>1. IsWellFoundedOn(R, FiniteSubsetsOf(RoleEvents))  BY FS_StrictSubsetOrderingWellFounded
<1>2. FiniteSubsetsOf(RoleEvents) = SUBSET RoleEvents
  BY FS_FiniteSubsetsOfFinite, HandshakeAssumption
<1> HIDE DEF R
<1>3. PICK s \in family : \A t \in family : <<t, s>> \notin R  BY <1>1, <1>2, WFMin
<1>4. ASSUME NEW t \in family, t \subseteq s, t # s PROVE FALSE
  <2>1. <<t, s>> \in R  BY <1>4 DEF R, StrictSubsetOrdering
  <2> QED  BY <2>1, <1>3
<1> QED  BY <1>4

\* Some role events have a latest one ...
LEMMA LatestEvent ==
    ASSUME NEW events \in SUBSET RoleEvents, events # {}
    PROVE  \E e \in events : \A f \in events : f.ts <= e.ts
<1> DEFINE Latest(s) == \E e \in s : \A f \in s : f.ts <= e.ts
<1> DEFINE family == {s \in SUBSET RoleEvents : s # {} /\ ~Latest(s)}
<1>1. SUFFICES ASSUME family # {} PROVE FALSE  OBVIOUS
<1>2. PICK s \in family : \A t \in family : t \subseteq s => t = s
  <2>1. family \in SUBSET (SUBSET RoleEvents)  OBVIOUS
  <2> HIDE DEF family
  <2> QED  BY <1>1, <2>1, SmallestSet
<1>3. PICK e \in s : TRUE  OBVIOUS
<1>4. \A f \in s : f.ts \in Nat  BY HandshakeAssumption
<1>5. CASE s \ {e} = {}
  <2>1. s = {e} /\ e.ts <= e.ts  BY <1>3, <1>4, <1>5
  <2> QED  BY <2>1
<1>6. CASE s \ {e} # {}
  <2>1. Latest(s \ {e})
    <3> HIDE DEF Latest
    <3> QED  BY <1>2, <1>3, <1>6
  <2>2. PICK l \in s \ {e} : \A f \in s \ {e} : f.ts <= l.ts  BY <2>1
  <2>3. CASE e.ts <= l.ts  BY <2>2, <2>3
  <2>4. CASE l.ts <= e.ts  BY <2>2, <2>4, <1>3, <1>4
  <2> QED  BY <2>3, <2>4, <1>3, <1>4
<1> QED  BY <1>5, <1>6

\* ... and can be put in order,
Ordered(s, events) ==
    /\ s \in [1..Cardinality(events) -> events]
    /\ \A i, j \in 1..Cardinality(events) : i < j => s[i].ts < s[j].ts

LEMMA EventsHaveOrder ==
    ASSUME NEW events \in SUBSET RoleEvents
    PROVE  \E s : Ordered(s, events)
<1> DEFINE family == {t \in SUBSET RoleEvents : ~ \E s : Ordered(s, t)}
<1>1. SUFFICES ASSUME family # {} PROVE FALSE  OBVIOUS
<1>2. PICK t \in family : \A u \in family : u \subseteq t => u = t
  <2>1. family \in SUBSET (SUBSET RoleEvents)  OBVIOUS
  <2> HIDE DEF family
  <2> QED  BY <1>1, <2>1, SmallestSet
<1>3. IsFiniteSet(t)  BY FS_Subset, HandshakeAssumption
<1>4. CASE t = {}
  <2>1. 1..Cardinality(t) = {}  BY <1>4, FS_EmptySet
  <2>2. [i \in 1..Cardinality(t) |-> 0] \in [1..Cardinality(t) -> t]  BY <2>1
  <2>3. Ordered([i \in 1..Cardinality(t) |-> 0], t)  BY <2>1, <2>2 DEF Ordered
  <2> QED  BY <2>3
<1>5. CASE t # {}
  <2>1. PICK e \in t : \A f \in t : f.ts <= e.ts  BY <1>5, LatestEvent
  <2> DEFINE rest == t \ {e}
  <2>2. PICK s : Ordered(s, rest)
    <3>1. rest \in SUBSET RoleEvents /\ rest \subseteq t /\ rest # t  BY <2>1
    <3>2. rest \notin family
      <4> HIDE DEF rest, family
      <4> QED  BY <1>2, <3>1
    <3> HIDE DEF rest
    <3> QED  BY <3>1, <3>2
  <2>3. PICK n \in Nat : n = Cardinality(t)  BY <1>3, FS_CardinalityType
  <2>4. Cardinality(rest) = n - 1 /\ n # 0
    BY <1>3, <1>5, <2>3, FS_RemoveElement, FS_EmptySet
  <2>5. /\ s \in [1..(n - 1) -> rest]
        /\ \A i, j \in 1..(n - 1) : i < j => s[i].ts < s[j].ts
    BY <2>2, <2>4 DEF Ordered
  <2>6. \A f \in rest : f \in RoleEvents /\ f.ts \in Nat /\ f.ts < e.ts
    BY <2>1, HandshakeAssumption
  <2> HIDE DEF rest
  <2>7. rest \subseteq t  BY DEF rest
  <2> DEFINE all == [i \in 1..n |-> IF i = n THEN e ELSE s[i]]
  <2>8. all \in [1..n -> t]
    BY <2>3, <2>4, <2>5, <2>7
  <2>9. ASSUME NEW i \in 1..n, NEW j \in 1..n, i < j PROVE all[i].ts < all[j].ts
    <3>1. i \in 1..(n - 1) /\ all[i] = s[i] /\ s[i] \in rest  BY <2>3, <2>5, <2>9
    <3>2. CASE j = n  BY <3>1, <3>2, <2>6
    <3>3. CASE j # n
      <4>1. j \in 1..(n - 1) /\ all[j] = s[j]  BY <3>3, <2>3
      <4> QED  BY <3>1, <4>1, <2>5, <2>9
    <3> QED  BY <3>2, <3>3
  <2>10. Ordered(all, t)  BY <2>3, <2>8, <2>9 DEF Ordered
  <2> QED  BY <2>10
<1> QED  BY <1>4, <1>5

\* in which every one of them has its place.
LEMMA AllInOrder ==
    ASSUME NEW events \in SUBSET RoleEvents
    PROVE  /\ InOrder(events) \in Seq(RoleEvents)
           /\ \A e \in events : \E i \in DOMAIN InOrder(events) : InOrder(events)[i] = e
           /\ \A i \in DOMAIN InOrder(events) : InOrder(events)[i] \in events
<1>1. PICK n \in Nat : n = Cardinality(events)
  BY FS_Subset, FS_CardinalityType, HandshakeAssumption
<1>2. IsFiniteSet(events)  BY FS_Subset, HandshakeAssumption
<1>3. PICK r : Ordered(r, events)  BY EventsHaveOrder
<1>4. PICK s : s = InOrder(events)  OBVIOUS
<1>5. s \in [1..n -> events] /\ \A i, j \in 1..n : i < j => s[i].ts < s[j].ts
  BY <1>1, <1>3, <1>4 DEF InOrder, Ordered
<1>6. s \in Injection(1..n, events)
  <2>1. ASSUME NEW i \in 1..n, NEW j \in 1..n, s[i] = s[j] PROVE i = j
    <3>1. s[i].ts \in Nat /\ s[j].ts \in Nat  BY <1>5, HandshakeAssumption
    <3>2. ~(i < j) /\ ~(j < i)  BY <3>1, <1>5, <2>1
    <3> QED  BY <3>2, <1>1
  <2> QED  BY <1>5, <2>1 DEF Injection, IsInjective
<1>7. IsFiniteSet(1..n) /\ Cardinality(1..n) = n  BY FS_Interval, <1>1
<1>8. s \in Surjection(1..n, events)  BY <1>1, <1>2, <1>6, <1>7, FS_Injection
<1>9. \A e \in events : \E i \in 1..n : s[i] = e  BY <1>8 DEF Surjection
<1>10. s \in Seq(RoleEvents) /\ DOMAIN s = 1..n  BY <1>1, <1>5, SeqDef
<1> QED  BY <1>4, <1>5, <1>9, <1>10


-----------------------------------------------------------------------------
Work == {"verify", "flush", "write", "profile"}
Greeter == [side : Sides, kind : {"HELLO", "ACK", "ROLE"}, nonce : Nat, step : Work,
            todo : Seq(RoleEvents), read : [RoleDevices -> Nat] \cup {<<>>}]
Connection == [side : Sides, nonce : Nonces, step : {"open", "sign"}]

HandTypes ==
    /\ known \in [Sides -> BOOLEAN] /\ subscribed \in [Sides -> BOOLEAN]
    /\ pendingHello \in [Sides -> Nonces \cup {0}]
    /\ helloSeen \in [Sides -> SUBSET Nonces] /\ greetings \subseteq Greetings
    /\ greeters \subseteq Greeter /\ connecting \subseteq Connection
    /\ \A h \in greeters :
          /\ h.todo # <<>> <=> h.step \in {"flush", "write"}
          /\ h.step = "write" => h.read \in [RoleDevices -> Nat]
          /\ h.kind = "ROLE" => h.step \in {"flush", "write"}
          /\ h.kind # "ROLE" => h.nonce \in Nonces
    /\ roleFrames \subseteq RoleEvents /\ rolesHeard \subseteq RoleEvents
    /\ deferredRoles \subseteq RoleEvents /\ registry \in [RoleDevices -> Nat]
    /\ connects \in 0..MaxConnects /\ excusedRoles \in BOOLEAN /\ excusedHello \in BOOLEAN

\* A handler has the event still to take.
Taking(e) == \E h \in greeters : \E i \in DOMAIN h.todo : h.todo[i] = e

\* Unless there is an excuse: what is put off although the capabilities are known is in the hands
\* of a handler, nobody works with a registry that has more than the one on disk, and no event
\* has been forgotten.
RolesInHand ==
    ~excusedRoles =>
        /\ known[1] => \A e \in deferredRoles : Taking(e)
        /\ \A h \in greeters :
               h.step = "write" => \A d \in RoleDevices : h.read[d] <= registry[d]
        /\ \A e \in rolesHeard : registry[e.device] >= e.ts \/ e \in deferredRoles \/ Taking(e)

\* A greeting has been sent under this nonce.
Greeted(n) ==
    \/ \E s \in Sides : n \in helloSeen[s]
    \/ \E f \in greetings : f.kind = "HELLO" /\ f.nonce = n
    \/ \E h \in greeters : h.kind = "HELLO" /\ h.nonce = n

\* Every connection greets under a nonce of its own.
NoncesAreOwn ==
    /\ \A c, d \in connecting : c.nonce = d.nonce => c = d
    /\ \A c \in connecting : c.nonce <= connects /\ ~Greeted(c.nonce)
    /\ \A n \in Nonces : Greeted(n) => n <= connects

\* The greeting of a side will be sent, is on its way for the first time, or is handled; its
\* answer is on its way, or is handled.
Hears(s, kind, n) ==
    \/ \E f \in greetings : f.to = s /\ f.kind = kind /\ f.nonce = n
    \/ \E h \in greeters : h.side = s /\ h.kind = kind /\ h.nonce = n /\ h.step = "verify"
Greets(s, n) ==
    \/ \E c \in connecting : c.side = s /\ c.nonce = n /\ c.step = "sign"
    \/ n \notin helloSeen[Peer(s)] /\ Hears(Peer(s), "HELLO", n)
    \/ \E h \in greeters : h.side = Peer(s) /\ h.kind = "HELLO" /\ h.nonce = n /\ h.step # "verify"
    \/ Hears(s, "ACK", n)

\* Unless there is an excuse, a side that has not the capabilities waits for an answer or is
\* about to, and what it waits for is under way.
AnswerComes ==
    ~excusedHello =>
        \A s \in Sides :
            /\ subscribed[s] /\ ~known[s] /\ pendingHello[s] = 0 =>
                   \E c \in connecting : c.side = s /\ c.step = "open"
            /\ pendingHello[s] # 0 => Greets(s, pendingHello[s])

HandInv == HandTypes /\ RolesInHand /\ NoncesAreOwn /\ AnswerComes

LEMMA PeerIsOther == \A s \in Sides : Peer(s) \in Sides /\ Peer(s) # s /\ Peer(Peer(s)) = s
  BY DEF Peer, Sides

LEMMA EventTypes == \A e \in RoleEvents : e.ts \in Nat /\ e.device \in RoleDevices
  BY HandshakeAssumption DEF RoleDevices

LEMMA HandStarts == ASSUME HandshakeInit PROVE HandInv
<1>1. MaxConnects \in Nat  BY HandshakeAssumption
<1>2. HandTypes
  <2>1. /\ known \in [Sides -> BOOLEAN] /\ subscribed \in [Sides -> BOOLEAN]
        /\ pendingHello \in [Sides -> Nonces \cup {0}] /\ helloSeen \in [Sides -> SUBSET Nonces]
        /\ registry \in [RoleDevices -> Nat]
    BY DEF HandshakeInit
  <2>2. connects \in 0..MaxConnects  BY <1>1 DEF HandshakeInit
  <2> QED  BY <2>1, <2>2 DEF HandshakeInit, HandTypes
<1>3. RolesInHand  BY DEF HandshakeInit, RolesInHand
<1>4. NoncesAreOwn  BY DEF HandshakeInit, NoncesAreOwn, Greeted
<1>5. AnswerComes  BY DEF HandshakeInit, AnswerComes
<1> QED  BY <1>2, <1>3, <1>4, <1>5 DEF HandInv

\* What does not concern the roles leaves them in hand.
LEMMA RolesUntouched ==
    ASSUME RolesInHand, UNCHANGED <<deferredRoles, registry, rolesHeard, excusedRoles>>,
           known'[1] => known[1],
           \A e : Taking(e) => Taking(e)',
           \A h \in greeters' : h.step = "write" => h \in greeters
    PROVE  RolesInHand'
<1>1. SUFFICES ASSUME ~excusedRoles' PROVE RolesInHand'  BY DEF RolesInHand
<1>2. ~excusedRoles  BY <1>1
<1>3. known'[1] => \A e \in deferredRoles' : Taking(e)'  BY <1>2 DEF RolesInHand
<1>4. \A h \in greeters' : h.step = "write" => \A d \in RoleDevices : h.read[d] <= registry'[d]
  BY <1>2 DEF RolesInHand
<1>5. \A e \in rolesHeard' : \/ registry'[e.device] >= e.ts \/ e \in deferredRoles'
                             \/ Taking(e)'
  BY <1>2 DEF RolesInHand
<1> QED  BY <1>3, <1>4, <1>5 DEF RolesInHand

\* A connection begins.
LEMMA BeginStep ==
    ASSUME HandInv, NEW s \in Sides, NEW allowed \in BOOLEAN, ConnectBegins(s, allowed)
    PROVE  HandInv'
<1>1. /\ HandTypes /\ connects < MaxConnects /\ connects' = connects + 1
      /\ MaxConnects \in Nat /\ connects' \in Nonces
  BY HandshakeAssumption DEF HandInv, HandTypes, ConnectBegins, Nonces
<1>2. /\ UNCHANGED <<pendingHello, helloSeen, greetings, greeters, roleFrames, deferredRoles,
                     registry, rolesHeard, excusedRoles>>
      /\ known' \in [Sides -> BOOLEAN] /\ ~known'[s] /\ \A t \in Sides \ {s} : known'[t] = known[t]
  BY <1>1 DEF ConnectBegins, Roles, HandTypes
<1>3. PICK c \in Connection : c = [side |-> s, nonce |-> connects + 1, step |-> "open"]
  BY <1>1 DEF Connection
<1>4. c.side = s /\ c.nonce = connects + 1 /\ c.step = "open"  BY <1>3
<1>5. \/ /\ subscribed' = [subscribed EXCEPT ![s] = TRUE]
         /\ connecting' = connecting \cup {c} /\ excusedHello' = excusedHello
      \/ UNCHANGED <<subscribed, connecting>> /\ excusedHello' = TRUE
  BY <1>3 DEF ConnectBegins
<1>6. HandTypes'
  <2>1. /\ subscribed' \in [Sides -> BOOLEAN] /\ connecting' \subseteq Connection
        /\ excusedHello' \in BOOLEAN
    BY <1>1, <1>5 DEF HandTypes
  <2>2. connects' \in 0..MaxConnects  BY <1>1 DEF Nonces
  <2> QED  BY <1>1, <1>2, <2>1, <2>2 DEF HandTypes
<1>7. RolesInHand'
  <2>1. known'[1] => known[1]  BY <1>2 DEF Sides
  <2>2. \A e : Taking(e) => Taking(e)'  BY <1>2 DEF Taking
  <2> QED  BY <1>2, <2>1, <2>2, RolesUntouched DEF HandInv
<1>8. NoncesAreOwn'
  <2>1. \A n : Greeted(n)' <=> Greeted(n)  BY <1>2 DEF Greeted
  <2>2. \A d \in connecting : d.nonce \in Nat /\ d.nonce < c.nonce
    BY <1>1, <1>4 DEF HandInv, NoncesAreOwn, HandTypes, Connection, Nonces
  <2>3. ~Greeted(c.nonce)
    BY <1>1, <1>4 DEF HandInv, NoncesAreOwn, HandTypes, Connection, Nonces
  <2>4. \A d, e \in connecting' : d.nonce = e.nonce => d = e
    BY <1>5, <2>2 DEF HandInv, NoncesAreOwn
  <2>5. \A d \in connecting' : d.nonce <= connects' /\ ~Greeted(d.nonce)'
    BY <1>1, <1>4, <1>5, <2>1, <2>2, <2>3 DEF HandInv, NoncesAreOwn, HandTypes
  <2>6. \A n \in Nonces : Greeted(n)' => n <= connects'
    BY <1>1, <2>1 DEF HandInv, NoncesAreOwn, HandTypes, Nonces
  <2> QED  BY <2>4, <2>5, <2>6 DEF NoncesAreOwn
<1>9. AnswerComes'
  <2> SUFFICES ASSUME ~excusedHello', NEW t \in Sides
               PROVE  /\ subscribed'[t] /\ ~known'[t] /\ pendingHello'[t] = 0 =>
                             \E d \in connecting' : d.side = t /\ d.step = "open"
                      /\ pendingHello'[t] # 0 => Greets(t, pendingHello[t])'
    BY DEF AnswerComes
  <2>1. ~excusedHello /\ connecting' = connecting \cup {c}  BY <1>5
  <2>2. t # s => subscribed'[t] = subscribed[t]  BY <1>1, <1>5 DEF HandTypes
  <2>3. subscribed'[t] /\ ~known'[t] /\ pendingHello'[t] = 0 =>
            \E d \in connecting' : d.side = t /\ d.step = "open"
    <3>1. CASE t = s  BY <3>1, <2>1, <1>4
    <3>2. CASE t # s  BY <3>2, <2>1, <2>2, <1>2 DEF HandInv, AnswerComes
    <3> QED  BY <3>1, <3>2
  <2>4. pendingHello'[t] # 0 => Greets(t, pendingHello[t])'
    BY <1>2, <2>1 DEF HandInv, AnswerComes, Greets, Hears
  <2> QED  BY <2>3, <2>4
<1> QED  BY <1>6, <1>7, <1>8, <1>9 DEF HandInv

\* The nonce is kept, the greeting is sent.
LEMMA NonceStep == ASSUME HandInv, NEW c \in connecting, NonceKept(c) PROVE HandInv'
<1>1. /\ HandTypes /\ c \in Connection /\ c.side \in Sides /\ c.nonce \in Nonces
      /\ c.step = "open" /\ c.nonce # 0
  BY DEF HandInv, HandTypes, NonceKept, Connection, Nonces
<1>2. UNCHANGED <<known, subscribed, helloSeen, greetings, greeters, roleFrames, deferredRoles,
                  registry, rolesHeard, excusedRoles, connects, excusedHello>>
  BY DEF NonceKept, Roles
<1>3. PICK d : d = [c EXCEPT !.step = "sign"]  OBVIOUS
<1>4. d \in Connection /\ d.side = c.side /\ d.nonce = c.nonce /\ d.step = "sign"
  BY <1>1, <1>3 DEF Connection
<1>5. connecting' = (connecting \ {c}) \cup {d}  BY <1>3 DEF NonceKept
<1>6. /\ pendingHello' \in [Sides -> Nonces \cup {0}] /\ pendingHello'[c.side] = c.nonce
      /\ \A s \in Sides \ {c.side} : pendingHello'[s] = pendingHello[s]
  BY <1>1 DEF NonceKept, HandTypes
<1>7. HandTypes'  BY <1>1, <1>2, <1>4, <1>5, <1>6 DEF HandTypes
<1>8. RolesInHand'
  <2>1. \A e : Taking(e) => Taking(e)'  BY <1>2 DEF Taking
  <2> QED  BY <1>2, <2>1, RolesUntouched DEF HandInv
<1>9. NoncesAreOwn'
  <2>1. \A n : Greeted(n)' <=> Greeted(n)  BY <1>2 DEF Greeted
  <2> QED  BY <1>2, <1>4, <1>5, <2>1 DEF HandInv, NoncesAreOwn
<1>10. AnswerComes'
  <2> SUFFICES ASSUME ~excusedHello', NEW t \in Sides
               PROVE  /\ subscribed'[t] /\ ~known'[t] /\ pendingHello'[t] = 0 =>
                             \E k \in connecting' : k.side = t /\ k.step = "open"
                      /\ pendingHello'[t] # 0 => Greets(t, pendingHello[t])'
    BY DEF AnswerComes
  <2>1. CASE t = c.side  BY <2>1, <1>1, <1>4, <1>5, <1>6 DEF Greets
  <2>2. CASE t # c.side
    <3>1. \A k \in connecting : k.side = t => k \in connecting'  BY <2>2, <1>5
    <3> QED  BY <3>1, <2>2, <1>2, <1>6 DEF HandInv, AnswerComes, Greets, Hears
  <2> QED  BY <2>1, <2>2
<1> QED  BY <1>7, <1>8, <1>9, <1>10 DEF HandInv

LEMMA SendStep == ASSUME HandInv, NEW c \in connecting, HelloSent(c) PROVE HandInv'
<1>1. HandTypes /\ c \in Connection /\ c.side \in Sides /\ c.nonce \in Nonces /\ c.step = "sign"
  BY DEF HandInv, HandTypes, HelloSent, Connection
<1>2. UNCHANGED <<known, subscribed, pendingHello, helloSeen, greeters, roleFrames,
                  deferredRoles, registry, rolesHeard, excusedRoles, connects, excusedHello>>
  BY DEF HelloSent, Roles
<1>3. PICK f : f = [to |-> Peer(c.side), kind |-> "HELLO", nonce |-> c.nonce]  OBVIOUS
<1>4. f \in Greetings /\ f.to = Peer(c.side) /\ f.kind = "HELLO" /\ f.nonce = c.nonce
  BY <1>1, <1>3, PeerIsOther DEF Greetings
<1>5. connecting' = connecting \ {c} /\ greetings' = greetings \cup {f}
  BY <1>3 DEF HelloSent
<1>6. HandTypes'  BY <1>1, <1>2, <1>4, <1>5 DEF HandTypes
<1>7. RolesInHand'
  <2>1. \A e : Taking(e) => Taking(e)'  BY <1>2 DEF Taking
  <2> QED  BY <1>2, <2>1, RolesUntouched DEF HandInv
<1>8. NoncesAreOwn'
  <2>1. \A n : Greeted(n)' <=> Greeted(n) \/ n = c.nonce  BY <1>2, <1>4, <1>5 DEF Greeted
  <2> QED  BY <1>2, <1>5, <2>1 DEF HandInv, NoncesAreOwn
<1>9. AnswerComes'
  <2> SUFFICES ASSUME ~excusedHello', NEW t \in Sides
               PROVE  /\ subscribed'[t] /\ ~known'[t] /\ pendingHello'[t] = 0 =>
                             \E k \in connecting' : k.side = t /\ k.step = "open"
                      /\ pendingHello'[t] # 0 => Greets(t, pendingHello[t])'
    BY DEF AnswerComes
  <2>1. subscribed'[t] /\ ~known'[t] /\ pendingHello'[t] = 0 =>
            \E k \in connecting' : k.side = t /\ k.step = "open"
    <3>1. \A k \in connecting : k.step = "open" => k \in connecting'  BY <1>1, <1>5
    <3> QED  BY <3>1, <1>2 DEF HandInv, AnswerComes
  <2>2. ASSUME pendingHello'[t] # 0 PROVE Greets(t, pendingHello[t])'
    <3>1. PICK n : n = pendingHello[t]  OBVIOUS
    <3>2. Greets(t, n)  BY <1>2, <2>2, <3>1 DEF HandInv, AnswerComes
    <3>3. CASE t = c.side /\ n = c.nonce
      <4>1. n \notin helloSeen[Peer(t)]
        BY <3>3, PeerIsOther DEF HandInv, NoncesAreOwn, Greeted
      <4>2. Hears(Peer(t), "HELLO", n)'  BY <3>3, <1>4, <1>5 DEF Hears
      <4> QED  BY <1>2, <3>1, <4>1, <4>2 DEF Greets
    <3>4. CASE ~(t = c.side /\ n = c.nonce)
      <4>1. \A s, kind : Hears(s, kind, n) => Hears(s, kind, n)'  BY <1>2, <1>5 DEF Hears
      <4>2. \A k \in connecting : k.side = t /\ k.nonce = n => k \in connecting'
        BY <1>5, <3>4
      <4> QED  BY <1>2, <3>1, <3>2, <4>1, <4>2 DEF Greets
    <3> QED  BY <3>3, <3>4
  <2> QED  BY <2>1, <2>2
<1> QED  BY <1>6, <1>7, <1>8, <1>9 DEF HandInv

\* A side leaves, its nonce expires, a frame is lost.
LEMMA LossSteps ==
    ASSUME HandInv,
           \/ \E s \in Sides : Disconnects(s) \/ NonceExpires(s)
           \/ \E f \in greetings : GreetingLost(f)
    PROVE  HandInv'
<1>1. /\ UNCHANGED <<known, connecting, helloSeen, greeters, roleFrames, deferredRoles, registry,
                     rolesHeard, excusedRoles, connects>>
      /\ excusedHello' = TRUE /\ greetings' \subseteq greetings
      /\ subscribed' \in [Sides -> BOOLEAN] /\ pendingHello' \in [Sides -> Nonces \cup {0}]
  <2>1. CASE \E s \in Sides : Disconnects(s)
    BY <2>1 DEF Disconnects, Roles, HandInv, HandTypes
  <2>2. CASE \E s \in Sides : NonceExpires(s)
    BY <2>2 DEF NonceExpires, Roles, HandInv, HandTypes
  <2>3. CASE \E f \in greetings : GreetingLost(f)
    BY <2>3 DEF GreetingLost, Roles, HandInv, HandTypes
  <2> QED  BY <2>1, <2>2, <2>3
<1>2. HandTypes'  BY <1>1 DEF HandInv, HandTypes
<1>3. RolesInHand'
  <2>1. \A e : Taking(e) => Taking(e)'  BY <1>1 DEF Taking
  <2> QED  BY <1>1, <2>1, RolesUntouched DEF HandInv
<1>4. NoncesAreOwn'
  <2>1. \A n : Greeted(n)' => Greeted(n)  BY <1>1 DEF Greeted
  <2> QED  BY <1>1, <2>1 DEF HandInv, NoncesAreOwn
<1>5. AnswerComes'  BY <1>1 DEF AnswerComes
<1> QED  BY <1>2, <1>3, <1>4, <1>5 DEF HandInv


\* A greeting or an answer arrives.
LEMMA ArriveStep ==
    ASSUME HandInv, NEW f \in greetings, NEW again \in BOOLEAN, GreetingArrives(f, again)
    PROVE  HandInv'
<1>1. /\ HandTypes /\ f \in Greetings /\ f.to \in Sides /\ f.kind \in {"HELLO", "ACK"}
      /\ f.nonce \in Nonces /\ f.nonce \in Nat
  BY DEF HandInv, HandTypes, Greetings, Nonces
<1>2. /\ UNCHANGED <<known, subscribed, connecting, pendingHello, helloSeen, roleFrames,
                     deferredRoles, registry, rolesHeard, excusedRoles, connects, excusedHello>>
      /\ greetings' \subseteq greetings /\ greetings \subseteq greetings' \cup {f}
  BY DEF GreetingArrives, Roles
<1>3. PICK h : h = Handler(f.to, f.kind, f.nonce, "verify", <<>>)  OBVIOUS
<1>4. /\ h \in Greeter /\ h.side = f.to /\ h.kind = f.kind /\ h.nonce = f.nonce
      /\ h.step = "verify" /\ h.todo = <<>>
  BY <1>1, <1>3, EmptySeq DEF Greeter, Handler, Work
<1>5. /\ greeters \subseteq greeters' /\ greeters' \subseteq greeters \cup {h}
      /\ Wanted(f) => h \in greeters'
  BY <1>3 DEF GreetingArrives
<1>6. HandTypes'
  <2>1. greetings' \subseteq Greetings /\ greeters' \subseteq Greeter
    BY <1>1, <1>2, <1>4, <1>5 DEF HandTypes
  <2>2. \A g \in greeters' : /\ g.todo # <<>> <=> g.step \in {"flush", "write"}
                             /\ g.step = "write" => g.read \in [RoleDevices -> Nat]
                             /\ g.kind = "ROLE" => g.step \in {"flush", "write"}
                             /\ g.kind # "ROLE" => g.nonce \in Nonces
    BY <1>1, <1>4, <1>5 DEF HandTypes
  <2> QED  BY <1>1, <1>2, <2>1, <2>2 DEF HandTypes
<1>7. RolesInHand'
  <2>1. \A e : Taking(e) => Taking(e)'  BY <1>5 DEF Taking
  <2>2. \A g \in greeters' : g.step = "write" => g \in greeters  BY <1>4, <1>5
  <2> QED  BY <1>2, <2>1, <2>2, RolesUntouched DEF HandInv
<1>8. NoncesAreOwn'
  <2>1. \A n : Greeted(n)' => Greeted(n)  BY <1>2, <1>4, <1>5 DEF Greeted
  <2> QED  BY <1>2, <2>1 DEF HandInv, NoncesAreOwn
<1>9. AnswerComes'
  <2> SUFFICES ASSUME ~excusedHello', NEW t \in Sides
               PROVE  /\ subscribed'[t] /\ ~known'[t] /\ pendingHello'[t] = 0 =>
                             \E k \in connecting' : k.side = t /\ k.step = "open"
                      /\ pendingHello'[t] # 0 => Greets(t, pendingHello[t])'
    BY DEF AnswerComes
  <2>1. subscribed'[t] /\ ~known'[t] /\ pendingHello'[t] = 0 =>
            \E k \in connecting' : k.side = t /\ k.step = "open"
    BY <1>2 DEF HandInv, AnswerComes
  <2>2. ASSUME pendingHello'[t] # 0 PROVE Greets(t, pendingHello[t])'
    <3>1. PICK n : n = pendingHello[t]  OBVIOUS
    <3>2. Greets(t, n)  BY <1>2, <2>2, <3>1 DEF HandInv, AnswerComes
    <3>3. \A s : Hears(s, "HELLO", n) => Hears(s, "HELLO", n)'
      <4> SUFFICES ASSUME NEW s, Hears(s, "HELLO", n) PROVE Hears(s, "HELLO", n)'  OBVIOUS
      <4>1. CASE \E g \in greetings : g.to = s /\ g.kind = "HELLO" /\ g.nonce = n
        <5>1. PICK g \in greetings : g.to = s /\ g.kind = "HELLO" /\ g.nonce = n  BY <4>1
        <5>2. CASE g = f  BY <5>1, <5>2, <1>4, <1>5 DEF Wanted, Hears
        <5>3. CASE g # f  BY <5>1, <5>3, <1>2 DEF Hears
        <5> QED  BY <5>2, <5>3
      <4>2. CASE \E g \in greeters :
                     g.side = s /\ g.kind = "HELLO" /\ g.nonce = n /\ g.step = "verify"
        BY <4>2, <1>5 DEF Hears
      <4> QED  BY <4>1, <4>2 DEF Hears
    <3>4. Hears(t, "ACK", n) => Hears(t, "ACK", n)'
      <4> SUFFICES ASSUME Hears(t, "ACK", n) PROVE Hears(t, "ACK", n)'  OBVIOUS
      <4>1. CASE \E g \in greetings : g.to = t /\ g.kind = "ACK" /\ g.nonce = n
        <5>1. PICK g \in greetings : g.to = t /\ g.kind = "ACK" /\ g.nonce = n  BY <4>1
        <5>2. CASE g = f
          <6>1. Wanted(f)  BY <5>1, <5>2, <3>1 DEF Wanted
          <6> QED  BY <5>1, <5>2, <6>1, <1>4, <1>5 DEF Hears
        <5>3. CASE g # f  BY <5>1, <5>3, <1>2 DEF Hears
        <5> QED  BY <5>2, <5>3
      <4>2. CASE \E g \in greeters :
                     g.side = t /\ g.kind = "ACK" /\ g.nonce = n /\ g.step = "verify"
        BY <4>2, <1>5 DEF Hears
      <4> QED  BY <4>1, <4>2 DEF Hears
    <3> QED  BY <1>2, <1>5, <3>1, <3>2, <3>3, <3>4 DEF Greets
  <2> QED  BY <2>1, <2>2
<1> QED  BY <1>6, <1>7, <1>8, <1>9 DEF HandInv

\* A handler goes on: it has nothing to do with the roles but to take up what was put off, and
\* keeps its greeting.
LEMMA VerifyStep == ASSUME HandInv, NEW h \in greeters, Verified(h) PROVE HandInv'
<1>1. /\ HandTypes /\ h \in Greeter /\ h.side \in Sides /\ h.kind \in {"HELLO", "ACK"}
      /\ h.nonce \in Nat /\ h.step = "verify" /\ h.todo = <<>>
  BY DEF HandInv, HandTypes, Greeter, Verified
<1>2. UNCHANGED <<subscribed, connecting, greetings, roleFrames, deferredRoles, registry,
                  rolesHeard, excusedRoles, connects, excusedHello>>
  BY DEF Verified, Roles
<1>3. CASE h.kind = "HELLO" /\ h.nonce \in helloSeen[h.side]
  <2>1. greeters' = greeters \ {h} /\ UNCHANGED <<known, pendingHello, helloSeen>>
    BY <1>3 DEF Verified
  <2>2. HandTypes'  BY <1>1, <1>2, <2>1 DEF HandTypes
  <2>3. RolesInHand'
    <3>1. \A e : Taking(e) => Taking(e)'  BY <1>1, <2>1 DEF Taking
    <3> QED  BY <1>2, <2>1, <3>1, RolesUntouched DEF HandInv
  <2>4. NoncesAreOwn'
    <3>1. \A n : Greeted(n)' => Greeted(n)  BY <1>2, <2>1 DEF Greeted
    <3> QED  BY <1>2, <3>1 DEF HandInv, NoncesAreOwn
  <2>5. AnswerComes'
    <3>1. \A t \in Sides : \A n : Greets(t, n) => Greets(t, n)'
      <4> SUFFICES ASSUME NEW t \in Sides, NEW n, Greets(t, n) PROVE Greets(t, n)'  OBVIOUS
      <4>1. n \notin helloSeen[Peer(t)] /\ Hears(Peer(t), "HELLO", n)
                => Hears(Peer(t), "HELLO", n)'
        BY <1>2, <1>3, <2>1 DEF Hears
      <4>2. Hears(t, "ACK", n) => Hears(t, "ACK", n)'  BY <1>2, <1>3, <2>1 DEF Hears
      <4>3. \A g \in greeters : g.step # "verify" => g \in greeters'  BY <1>1, <2>1
      <4> QED  BY <1>2, <2>1, <4>1, <4>2, <4>3 DEF Greets
    <3> QED  BY <1>2, <2>1, <3>1 DEF HandInv, AnswerComes
  <2> QED  BY <2>2, <2>3, <2>4, <2>5 DEF HandInv
<1>4. CASE ~(h.kind = "HELLO" /\ h.nonce \in helloSeen[h.side])
  <2>1. PICK todo : todo = PutOff(h.side)  OBVIOUS
  <2>2. /\ todo \in Seq(RoleEvents)
        /\ h.side = 1 => \A e \in deferredRoles : \E i \in DOMAIN todo : todo[i] = e
    BY <1>1, <2>1, AllInOrder, EmptySeq DEF PutOff, HandTypes
  <2>3. PICK g : g = [h EXCEPT !.step = IF todo = <<>> THEN "profile" ELSE "flush",
                               !.todo = todo]
    OBVIOUS
  <2>4. /\ g \in Greeter /\ g.side = h.side /\ g.kind = h.kind /\ g.nonce = h.nonce
        /\ g.todo = todo /\ g.step \in {"profile", "flush"}
        /\ g.step = "flush" <=> todo # <<>>
    BY <1>1, <2>2, <2>3 DEF Greeter, Work
  <2>5. greeters' = (greeters \ {h}) \cup {g}
    BY <1>4, <2>1, <2>3 DEF Verified, Flushes
  <2>6. /\ known' \in [Sides -> BOOLEAN] /\ known'[h.side]
        /\ \A s \in Sides \ {h.side} : known'[s] = known[s]
    BY <1>1, <1>4 DEF Verified, HandTypes
  <2>7. h.nonce \in Nonces  BY <1>1 DEF HandTypes
  <2>8. \/ /\ h.kind = "HELLO" /\ UNCHANGED pendingHello
           /\ helloSeen' = [helloSeen EXCEPT ![h.side] = @ \cup {h.nonce}]
        \/ /\ h.kind = "ACK" /\ UNCHANGED helloSeen
           /\ pendingHello' = [pendingHello EXCEPT ![h.side] = 0]
    BY <1>1, <1>4 DEF Verified
  <2>9. HandTypes'
    <3>1. pendingHello' \in [Sides -> Nonces \cup {0}] /\ helloSeen' \in [Sides -> SUBSET Nonces]
      BY <1>1, <2>7, <2>8 DEF HandTypes
    <3>2. greeters' \subseteq Greeter  BY <1>1, <2>4, <2>5 DEF HandTypes
    <3>3. \A k \in greeters' : /\ k.todo # <<>> <=> k.step \in {"flush", "write"}
                               /\ k.step = "write" => k.read \in [RoleDevices -> Nat]
                               /\ k.kind = "ROLE" => k.step \in {"flush", "write"}
                               /\ k.kind # "ROLE" => k.nonce \in Nonces
      BY <1>1, <2>4, <2>5, <2>7 DEF HandTypes
    <3> QED  BY <1>1, <1>2, <2>6, <3>1, <3>2, <3>3 DEF HandTypes
  <2>10. RolesInHand'
    <3>1. SUFFICES ASSUME ~excusedRoles' PROVE RolesInHand'  BY DEF RolesInHand
    <3>2. \A e : Taking(e) => Taking(e)'  BY <1>1, <2>5 DEF Taking
    <3>3. known'[1] => \A e \in deferredRoles' : Taking(e)'
      <4>1. CASE h.side = 1  BY <4>1, <1>2, <2>2, <2>4, <2>5 DEF Taking
      <4>2. CASE h.side # 1  BY <4>2, <1>2, <2>6, <3>1, <3>2 DEF HandInv, RolesInHand, Sides
      <4> QED  BY <4>1, <4>2
    <3>4. \A k \in greeters' : k.step = "write" => k \in greeters  BY <2>4, <2>5
    <3> QED  BY <1>2, <3>1, <3>2, <3>3, <3>4 DEF HandInv, RolesInHand
  <2>11. NoncesAreOwn'
    <3>1. \A n : Greeted(n)' => Greeted(n)
      <4>1. h.kind = "HELLO" => Greeted(h.nonce)  BY DEF Greeted
      <4>2. \A n : \A s \in Sides : n \in helloSeen'[s] => Greeted(n)
        BY <1>1, <2>8, <4>1 DEF HandTypes, Greeted
      <4> QED  BY <1>2, <2>4, <2>5, <4>2 DEF Greeted
    <3> QED  BY <1>2, <3>1 DEF HandInv, NoncesAreOwn
  <2>12. AnswerComes'
    <3> SUFFICES ASSUME ~excusedHello', NEW t \in Sides
                 PROVE  /\ subscribed'[t] /\ ~known'[t] /\ pendingHello'[t] = 0 =>
                               \E k \in connecting' : k.side = t /\ k.step = "open"
                        /\ pendingHello'[t] # 0 => Greets(t, pendingHello[t])'
      BY DEF AnswerComes
    <3>1. \/ pendingHello'[t] = pendingHello[t]
          \/ t = h.side /\ h.kind = "ACK" /\ pendingHello'[t] = 0
      BY <1>1, <2>8 DEF HandTypes
    <3>2. subscribed'[t] /\ ~known'[t] /\ pendingHello'[t] = 0 =>
              \E k \in connecting' : k.side = t /\ k.step = "open"
      BY <1>2, <2>6, <3>1 DEF HandInv, AnswerComes
    <3>3. ASSUME pendingHello'[t] # 0 PROVE Greets(t, pendingHello[t])'
      <4>1. PICK n : n = pendingHello[t] /\ n = pendingHello'[t]  BY <3>1, <3>3
      <4>2. Greets(t, n)  BY <1>2, <3>3, <4>1 DEF HandInv, AnswerComes
      <4>3. ~(t = h.side /\ h.kind = "ACK")  BY <1>1, <2>8, <3>3 DEF HandTypes
      <4>4. \A k \in greeters : k # h => k \in greeters'  BY <2>5
      <4>5. Hears(t, "ACK", n) => Hears(t, "ACK", n)'  BY <1>2, <4>3, <4>4 DEF Hears
      <4>6. CASE h.side = Peer(t) /\ h.kind = "HELLO" /\ h.nonce = n
        BY <4>1, <4>6, <2>4, <2>5 DEF Greets
      <4>7. CASE ~(h.side = Peer(t) /\ h.kind = "HELLO" /\ h.nonce = n)
        <5>1. n \in helloSeen'[Peer(t)] => n \in helloSeen[Peer(t)]
          BY <1>1, <2>8, <4>7, PeerIsOther DEF HandTypes
        <5>2. Hears(Peer(t), "HELLO", n) => Hears(Peer(t), "HELLO", n)'
          BY <1>2, <4>4, <4>7 DEF Hears
        <5> QED  BY <1>1, <1>2, <4>1, <4>2, <4>4, <4>5, <5>1, <5>2 DEF Greets
      <4> QED  BY <4>6, <4>7
    <3> QED  BY <3>2, <3>3
  <2> QED  BY <2>9, <2>10, <2>11, <2>12 DEF HandInv
<1> QED  BY <1>3, <1>4

LEMMA ProfileStep == ASSUME HandInv, NEW h \in greeters, ProfileSaved(h) PROVE HandInv'
<1>1. /\ HandTypes /\ h \in Greeter /\ h.side \in Sides /\ h.kind \in {"HELLO", "ACK"}
      /\ h.nonce \in Nonces /\ h.step = "profile" /\ h.todo = <<>>
  BY DEF HandInv, HandTypes, Greeter, ProfileSaved
<1>2. /\ UNCHANGED <<known, subscribed, connecting, pendingHello, helloSeen, roleFrames,
                     deferredRoles, registry, rolesHeard, excusedRoles, connects, excusedHello>>
      /\ greeters' = greeters \ {h}
  BY DEF ProfileSaved, Roles
<1>3. PICK f : f = [to |-> Peer(h.side), kind |-> "ACK", nonce |-> h.nonce]  OBVIOUS
<1>4. f \in Greetings /\ f.to = Peer(h.side) /\ f.kind = "ACK" /\ f.nonce = h.nonce
  BY <1>1, <1>3, PeerIsOther DEF Greetings
<1>5. /\ h.kind = "HELLO" => greetings' = greetings \cup {f}
      /\ h.kind # "HELLO" => greetings' = greetings
  BY <1>3 DEF ProfileSaved
<1>6. HandTypes'  BY <1>1, <1>2, <1>4, <1>5 DEF HandTypes
<1>7. RolesInHand'
  <2>1. \A e : Taking(e) => Taking(e)'  BY <1>1, <1>2 DEF Taking
  <2> QED  BY <1>2, <2>1, RolesUntouched DEF HandInv
<1>8. NoncesAreOwn'
  <2>1. \A n : Greeted(n)' => Greeted(n)  BY <1>2, <1>4, <1>5 DEF Greeted
  <2> QED  BY <1>2, <2>1 DEF HandInv, NoncesAreOwn
<1>9. AnswerComes'
  <2>1. ASSUME NEW t \in Sides, NEW n, Greets(t, n) PROVE Greets(t, n)'
    <3>1. \A s, kind : Hears(s, kind, n) => Hears(s, kind, n)'
      BY <1>1, <1>2, <1>5 DEF Hears
    <3>2. CASE h.side = Peer(t) /\ h.kind = "HELLO" /\ h.nonce = n
      <4>1. f \in greetings' /\ f.to = t /\ f.kind = "ACK" /\ f.nonce = n
        BY <3>2, <1>4, <1>5, PeerIsOther
      <4> QED  BY <4>1 DEF Greets, Hears
    <3>3. CASE ~(h.side = Peer(t) /\ h.kind = "HELLO" /\ h.nonce = n)
      <4>1. \A k \in greeters : k # h => k \in greeters'  BY <1>2
      <4> QED  BY <1>2, <2>1, <3>1, <3>3, <4>1 DEF Greets
    <3> QED  BY <3>2, <3>3
  <2> QED  BY <1>2, <2>1 DEF HandInv, AnswerComes
<1> QED  BY <1>6, <1>7, <1>8, <1>9 DEF HandInv


\* What only moves handlers on leaves the greetings as they are.
LEMMA GreetingsUntouched ==
    ASSUME NoncesAreOwn, AnswerComes,
           UNCHANGED <<known, subscribed, connecting, pendingHello, helloSeen, greetings, connects,
                       excusedHello>>,
           \A h \in greeters : h.kind # "ROLE" =>
               \E g \in greeters' : /\ g.side = h.side /\ g.kind = h.kind /\ g.nonce = h.nonce
                                    /\ g.step = "verify" <=> h.step = "verify",
           \A g \in greeters' : g.kind = "HELLO" =>
               \E h \in greeters : h.kind = "HELLO" /\ h.nonce = g.nonce
    PROVE  NoncesAreOwn' /\ AnswerComes'
<1>1. NoncesAreOwn'
  <2>1. \A n : Greeted(n)' => Greeted(n)  BY DEF Greeted
  <2> QED  BY <2>1 DEF NoncesAreOwn
<1>2. AnswerComes'
  <2>1. ASSUME NEW s, NEW kind \in {"HELLO", "ACK"}, NEW n, Hears(s, kind, n)
        PROVE  Hears(s, kind, n)'
    BY <2>1 DEF Hears
  <2>2. ASSUME NEW t \in Sides, NEW n, Greets(t, n) PROVE Greets(t, n)'
    BY <2>1, <2>2 DEF Greets
  <2> QED  BY <2>2 DEF AnswerComes
<1> QED  BY <1>1, <1>2

\* A role event arrives.
LEMMA RoleStep == ASSUME HandInv, NEW e \in roleFrames, RoleArrives(e) PROVE HandInv'
<1>1. HandTypes /\ e \in RoleEvents /\ e.ts \in Nat
  BY EventTypes DEF HandInv, HandTypes
<1>2. /\ UNCHANGED <<known, subscribed, connecting, pendingHello, helloSeen, greetings, registry,
                     connects, excusedRoles, excusedHello>>
      /\ roleFrames' \subseteq roleFrames /\ rolesHeard' = rolesHeard \cup {e}
  BY DEF RoleArrives
<1>3. PICK h : h = Handler(1, "ROLE", e.ts, "flush", <<e>>)  OBVIOUS
<1>4. /\ h \in Greeter /\ h.kind = "ROLE" /\ h.step = "flush" /\ h.todo # <<>>
      /\ 1 \in DOMAIN h.todo /\ h.todo[1] = e
  <2>1. <<e>> \in Seq(RoleEvents) /\ <<e>> # <<>> /\ 1 \in DOMAIN <<e>> /\ <<e>>[1] = e
    BY <1>1
  <2> QED  BY <1>1, <1>3, <2>1 DEF Greeter, Handler, Work, Sides
<1>5. \/ known[1] /\ greeters' = greeters \cup {h} /\ deferredRoles' = deferredRoles
      \/ ~known[1] /\ greeters' = greeters /\ deferredRoles' = deferredRoles \cup {e}
  BY <1>3 DEF RoleArrives
<1>6. HandTypes'
  <2>1. /\ roleFrames' \subseteq RoleEvents /\ rolesHeard' \subseteq RoleEvents
        /\ deferredRoles' \subseteq RoleEvents /\ greeters' \subseteq Greeter
    BY <1>1, <1>2, <1>4, <1>5 DEF HandTypes
  <2>2. \A k \in greeters' : /\ k.todo # <<>> <=> k.step \in {"flush", "write"}
                             /\ k.step = "write" => k.read \in [RoleDevices -> Nat]
                             /\ k.kind = "ROLE" => k.step \in {"flush", "write"}
                             /\ k.kind # "ROLE" => k.nonce \in Nonces
    BY <1>1, <1>4, <1>5 DEF HandTypes
  <2> QED  BY <1>1, <1>2, <2>1, <2>2 DEF HandTypes
<1>7. RolesInHand'
  <2>1. SUFFICES ASSUME ~excusedRoles' PROVE RolesInHand'  BY DEF RolesInHand
  <2>2. \A x : Taking(x) => Taking(x)'  BY <1>5 DEF Taking
  <2>3. e \in deferredRoles' \/ Taking(e)'  BY <1>4, <1>5 DEF Taking
  <2>4. known'[1] => \A x \in deferredRoles' : Taking(x)'
    BY <1>2, <1>5, <2>1, <2>2 DEF HandInv, RolesInHand
  <2>5. \A k \in greeters' : k.step = "write" => \A d \in RoleDevices : k.read[d] <= registry'[d]
    BY <1>2, <1>4, <1>5, <2>1 DEF HandInv, RolesInHand
  <2>6. \A x \in rolesHeard' : \/ registry'[x.device] >= x.ts \/ x \in deferredRoles'
                               \/ Taking(x)'
    BY <1>2, <1>5, <2>1, <2>2, <2>3 DEF HandInv, RolesInHand
  <2> QED  BY <2>4, <2>5, <2>6 DEF RolesInHand
<1>8. NoncesAreOwn' /\ AnswerComes'
  <2>1. \A k \in greeters : k \in greeters'  BY <1>5
  <2>2. \A k \in greeters' : k.kind = "HELLO" => k \in greeters  BY <1>4, <1>5
  <2> QED  BY <1>2, <2>1, <2>2, GreetingsUntouched DEF HandInv
<1> QED  BY <1>6, <1>7, <1>8 DEF HandInv

LEMMA ReadStep == ASSUME HandInv, NEW h \in greeters, RegistryRead(h) PROVE HandInv'
<1>1. /\ HandTypes /\ h \in Greeter /\ h.step = "flush" /\ h.todo # <<>>
      /\ h.kind # "ROLE" => h.nonce \in Nonces
  BY DEF HandInv, HandTypes, RegistryRead
<1>2. UNCHANGED <<known, subscribed, connecting, pendingHello, helloSeen, greetings, roleFrames,
                  deferredRoles, registry, rolesHeard, excusedRoles, connects, excusedHello>>
  BY DEF RegistryRead, Roles
<1>3. PICK g : g = [h EXCEPT !.step = "write", !.read = registry]  OBVIOUS
<1>4. /\ g \in Greeter /\ g.side = h.side /\ g.kind = h.kind /\ g.nonce = h.nonce
      /\ g.todo = h.todo /\ g.step = "write" /\ g.read = registry
  BY <1>1, <1>3 DEF Greeter, Work, HandTypes
<1>5. greeters' = (greeters \ {h}) \cup {g}  BY <1>3 DEF RegistryRead
<1>6. HandTypes'
  <2>1. greeters' \subseteq Greeter  BY <1>1, <1>4, <1>5 DEF HandTypes
  <2>2. \A k \in greeters' : /\ k.todo # <<>> <=> k.step \in {"flush", "write"}
                             /\ k.step = "write" => k.read \in [RoleDevices -> Nat]
                             /\ k.kind = "ROLE" => k.step \in {"flush", "write"}
                             /\ k.kind # "ROLE" => k.nonce \in Nonces
    BY <1>1, <1>4, <1>5 DEF HandTypes
  <2> QED  BY <1>1, <1>2, <2>1, <2>2 DEF HandTypes
<1>7. RolesInHand'
  <2>1. SUFFICES ASSUME ~excusedRoles' PROVE RolesInHand'  BY DEF RolesInHand
  <2>2. \A x : Taking(x) => Taking(x)'  BY <1>4, <1>5 DEF Taking
  <2>3. \A d \in RoleDevices : registry[d] \in Nat /\ registry[d] <= registry[d]
    BY <1>1 DEF HandTypes
  <2>4. \A k \in greeters' : k.step = "write" => \A d \in RoleDevices : k.read[d] <= registry'[d]
    BY <1>2, <1>4, <1>5, <2>1, <2>3 DEF HandInv, RolesInHand
  <2> QED  BY <1>2, <2>1, <2>2, <2>4 DEF HandInv, RolesInHand
<1>8. NoncesAreOwn' /\ AnswerComes'
  <2>1. \A k \in greeters : k.kind # "ROLE" =>
            \E l \in greeters' : /\ l.side = k.side /\ l.kind = k.kind /\ l.nonce = k.nonce
                                 /\ l.step = "verify" <=> k.step = "verify"
    BY <1>1, <1>4, <1>5
  <2>2. \A k \in greeters' : k.kind = "HELLO" =>
            \E l \in greeters : l.kind = "HELLO" /\ l.nonce = k.nonce
    BY <1>4, <1>5
  <2> QED  BY <1>2, <2>1, <2>2, GreetingsUntouched DEF HandInv
<1> QED  BY <1>6, <1>7, <1>8 DEF HandInv

\* A handler has taken its first event: the others it takes as before.
LEMMA TakenHandlers ==
    ASSUME HandInv, NEW h \in greeters, h.step = "write"
    PROVE  /\ Head(h.todo) \in RoleEvents /\ h.read \in [RoleDevices -> Nat]
           /\ Taken(h) \subseteq Greeter
           /\ \A k \in Taken(h) : /\ k.todo # <<>> <=> k.step \in {"flush", "write"}
                                  /\ k.step = "write" => k \in greeters
                                  /\ k.kind = "ROLE" => k.step \in {"flush", "write"}
                                  /\ k.kind # "ROLE" => k.nonce \in Nonces
                                  /\ \E l \in greeters : l.kind = k.kind /\ l.nonce = k.nonce
           /\ \A k \in greeters : k.kind # "ROLE" =>
                  \E l \in Taken(h) : /\ l.side = k.side /\ l.kind = k.kind /\ l.nonce = k.nonce
                                      /\ l.step = "verify" <=> k.step = "verify"
           /\ \A x : Taking(x) => \/ x = Head(h.todo)
                                  \/ \E l \in Taken(h) : \E i \in DOMAIN l.todo : l.todo[i] = x
<1>1. /\ HandTypes /\ h \in Greeter /\ h.todo \in Seq(RoleEvents) /\ h.todo # <<>>
      /\ h.read \in [RoleDevices -> Nat] /\ (h.kind # "ROLE" => h.nonce \in Nonces)
  BY DEF HandInv, HandTypes, Greeter
<1>2. PICK rest : rest = Tail(h.todo)  OBVIOUS
<1>3. /\ Head(h.todo) \in RoleEvents /\ rest \in Seq(RoleEvents)
      /\ \A i \in DOMAIN h.todo : \/ h.todo[i] = Head(h.todo)
                                  \/ \E j \in DOMAIN rest : rest[j] = h.todo[i]
  <2>1. /\ Head(h.todo) \in RoleEvents /\ rest \in Seq(RoleEvents)
        /\ Len(rest) = Len(h.todo) - 1
        /\ \A j \in 1..Len(rest) : rest[j] = h.todo[j + 1]
    BY <1>1, <1>2, HeadTailProperties
  <2>2. /\ Len(h.todo) \in Nat /\ DOMAIN h.todo = 1..Len(h.todo)
        /\ Len(rest) \in Nat /\ DOMAIN rest = 1..Len(rest)
    BY <1>1, <2>1, LenProperties
  <2>3. h.todo[1] = Head(h.todo)  BY <1>1
  <2>4. ASSUME NEW i \in DOMAIN h.todo, i # 1 PROVE \E j \in DOMAIN rest : rest[j] = h.todo[i]
    <3>1. i - 1 \in 1..Len(rest) /\ (i - 1) + 1 = i  BY <2>1, <2>2, <2>4
    <3> QED  BY <3>1, <2>1, <2>2
  <2> QED  BY <2>1, <2>3, <2>4
<1>4. PICK g : g = [h EXCEPT !.todo = rest, !.read = <<>>,
                             !.step = IF rest = <<>> THEN "profile" ELSE "flush"]
  OBVIOUS
<1>5. /\ g \in Greeter /\ g.side = h.side /\ g.kind = h.kind /\ g.nonce = h.nonce
      /\ g.todo = rest /\ g.step = IF rest = <<>> THEN "profile" ELSE "flush"
  BY <1>1, <1>3, <1>4 DEF Greeter, Work
<1>6. \/ h.kind = "ROLE" /\ rest = <<>> /\ Taken(h) = greeters \ {h}
      \/ (h.kind = "ROLE" => rest # <<>>) /\ Taken(h) = (greeters \ {h}) \cup {g}
  BY <1>2, <1>4 DEF Taken
<1>7. Taken(h) \subseteq greeters \cup {g} /\ greeters \ {h} \subseteq Taken(h)  BY <1>6
<1>8. Taken(h) \subseteq Greeter  BY <1>1, <1>5, <1>7 DEF HandTypes
<1>9. ASSUME NEW k \in Taken(h)
      PROVE  /\ k.todo # <<>> <=> k.step \in {"flush", "write"}
             /\ k.step = "write" => k \in greeters
             /\ k.kind = "ROLE" => k.step \in {"flush", "write"}
             /\ k.kind # "ROLE" => k.nonce \in Nonces
             /\ \E l \in greeters : l.kind = k.kind /\ l.nonce = k.nonce
  <2>1. CASE k \in greeters  BY <2>1, <1>1 DEF HandTypes
  <2>2. CASE k \notin greeters
    <3>1. k = g /\ (h.kind = "ROLE" => rest # <<>>)  BY <2>2, <1>6, <1>9
    <3> QED  BY <3>1, <1>1, <1>5
  <2> QED  BY <2>1, <2>2
<1>10. ASSUME NEW k \in greeters, k.kind # "ROLE"
       PROVE  \E l \in Taken(h) : /\ l.side = k.side /\ l.kind = k.kind /\ l.nonce = k.nonce
                                  /\ l.step = "verify" <=> k.step = "verify"
  <2>1. CASE k = h
    <3>1. g \in Taken(h)  BY <2>1, <1>6, <1>10
    <3> QED  BY <3>1, <2>1, <1>5
  <2>2. CASE k # h  BY <2>2, <1>7
  <2> QED  BY <2>1, <2>2
<1>11. ASSUME NEW x, Taking(x), x # Head(h.todo)
       PROVE  \E l \in Taken(h) : \E i \in DOMAIN l.todo : l.todo[i] = x
  <2>1. PICK k \in greeters : \E i \in DOMAIN k.todo : k.todo[i] = x  BY <1>11 DEF Taking
  <2>2. CASE k = h
    <3>1. \E j \in DOMAIN rest : rest[j] = x  BY <2>1, <2>2, <1>3, <1>11
    <3>2. rest # <<>>  BY <3>1
    <3>3. g \in Taken(h)  BY <3>2, <1>6
    <3> QED  BY <3>1, <3>3, <1>5
  <2>3. CASE k # h  BY <2>1, <2>3, <1>7
  <2> QED  BY <2>2, <2>3
<1> QED  BY <1>1, <1>3, <1>8, <1>9, <1>10, <1>11


\* The registry is written.
LEMMA WriteStep == ASSUME HandInv, NEW h \in greeters, RegistryWritten(h) PROVE HandInv'
<1>1. /\ HandTypes /\ h.step = "write" /\ greeters' = Taken(h)
      /\ UNCHANGED <<known, subscribed, connecting, pendingHello, helloSeen, greetings,
                     roleFrames, connects, rolesHeard, excusedHello>>
  BY DEF HandInv, RegistryWritten
<1>2. PICK e : e = Head(h.todo)  OBVIOUS
<1>3. PICK new : new = Newer(h.read, e)  OBVIOUS
<1>4. /\ registry' = IF new # h.read \/ e.ts = h.read[e.device] THEN new ELSE registry
      /\ excusedRoles' = (excusedRoles \/ (registry' = new /\ h.read # registry))
      /\ deferredRoles' = deferredRoles \ {e}
  BY <1>2, <1>3 DEF RegistryWritten
<1>5. /\ e \in RoleEvents /\ e.ts \in Nat /\ e.device \in RoleDevices
      /\ h.read \in [RoleDevices -> Nat] /\ registry \in [RoleDevices -> Nat]
  BY <1>1, <1>2, TakenHandlers, EventTypes DEF HandTypes
<1>6. /\ new \in [RoleDevices -> Nat]
      /\ e.ts >= h.read[e.device] => new[e.device] = e.ts
      /\ ~(e.ts >= h.read[e.device]) => new = h.read
      /\ \A d \in RoleDevices : h.read[d] <= new[d]
  BY <1>3, <1>5 DEF Newer
<1>7. registry' \in [RoleDevices -> Nat]  BY <1>4, <1>5, <1>6
<1>8. HandTypes'
  <2>1. /\ greeters' \subseteq Greeter
        /\ \A k \in greeters' : /\ k.todo # <<>> <=> k.step \in {"flush", "write"}
                                /\ k.step = "write" => k \in greeters
                                /\ k.kind = "ROLE" => k.step \in {"flush", "write"}
                                /\ k.kind # "ROLE" => k.nonce \in Nonces
    BY <1>1, TakenHandlers
  <2>2. deferredRoles' \subseteq RoleEvents /\ excusedRoles' \in BOOLEAN
    BY <1>1, <1>4 DEF HandTypes
  <2> QED  BY <1>1, <1>7, <2>1, <2>2 DEF HandTypes
<1>9. RolesInHand'
  <2> SUFFICES ASSUME ~excusedRoles' PROVE RolesInHand'  BY DEF RolesInHand
  <2>1. ~excusedRoles /\ (registry' = new => h.read = registry)  BY <1>4
  <2>2. \A d \in RoleDevices : h.read[d] <= registry[d]
    BY <1>1, <2>1 DEF HandInv, RolesInHand
  <2>3. /\ \A d \in RoleDevices : registry[d] <= registry'[d]
        /\ registry'[e.device] >= e.ts
    <3>1. CASE e.ts >= h.read[e.device]
      <4>1. registry' = new
        <5>1. CASE new = h.read
          <6>1. e.ts = h.read[e.device]  BY <3>1, <5>1, <1>6
          <6> QED  BY <6>1, <1>4
        <5>2. CASE new # h.read  BY <5>2, <1>4
        <5> QED  BY <5>1, <5>2
      <4>2. h.read = registry  BY <2>1, <4>1
      <4> QED  BY <3>1, <4>1, <4>2, <1>5, <1>6
    <3>2. CASE ~(e.ts >= h.read[e.device])
      <4>1. new = h.read /\ e.ts # h.read[e.device] /\ e.ts < h.read[e.device]
        BY <3>2, <1>5, <1>6
      <4>2. registry' = registry  BY <4>1, <1>4
      <4>3. registry[e.device] \in Nat /\ h.read[e.device] \in Nat
            /\ h.read[e.device] <= registry[e.device]
        BY <1>5, <2>2
      <4>4. registry'[e.device] >= e.ts  BY <4>1, <4>2, <4>3, <1>5
      <4>5. \A d \in RoleDevices : registry[d] \in Nat /\ registry[d] <= registry'[d]
        BY <4>2, <1>5
      <4> QED  BY <4>4, <4>5
    <3> QED  BY <3>1, <3>2
  <2>4. \A x : Taking(x) => x = e \/ Taking(x)'
    BY <1>1, <1>2, TakenHandlers DEF Taking
  <2>5. known'[1] => \A x \in deferredRoles' : Taking(x)'
    BY <1>1, <1>4, <2>1, <2>4 DEF HandInv, RolesInHand
  <2>6. ASSUME NEW k \in greeters', k.step = "write", NEW d \in RoleDevices
        PROVE  k.read[d] <= registry'[d]
    <3>1. k \in greeters  BY <1>1, <2>6, TakenHandlers
    <3>2. k.read[d] <= registry[d] /\ k.read[d] \in Nat
      BY <1>1, <2>1, <2>6, <3>1 DEF HandInv, RolesInHand, HandTypes
    <3>3. registry[d] \in Nat /\ registry'[d] \in Nat /\ registry[d] <= registry'[d]
      BY <1>5, <1>7, <2>3
    <3> QED  BY <3>2, <3>3
  <2>7. ASSUME NEW x \in rolesHeard'
        PROVE  registry'[x.device] >= x.ts \/ x \in deferredRoles' \/ Taking(x)'
    <3>1. x \in RoleEvents /\ x.ts \in Nat /\ x.device \in RoleDevices
      BY <1>1, EventTypes DEF HandTypes
    <3>2. registry[x.device] >= x.ts \/ x \in deferredRoles \/ Taking(x)
      BY <1>1, <2>1 DEF HandInv, RolesInHand
    <3>3. CASE x = e  BY <3>3, <2>3
    <3>4. CASE x # e /\ registry[x.device] >= x.ts
      <4>1. /\ registry[x.device] \in Nat /\ registry'[x.device] \in Nat
            /\ registry[x.device] <= registry'[x.device]
        BY <3>1, <1>5, <1>7, <2>3
      <4> QED  BY <3>1, <3>4, <4>1
    <3>5. CASE x # e /\ (x \in deferredRoles \/ Taking(x))  BY <3>5, <1>4, <2>4
    <3> QED  BY <3>2, <3>3, <3>4, <3>5
  <2> QED  BY <2>5, <2>6, <2>7 DEF RolesInHand
<1>10. NoncesAreOwn' /\ AnswerComes'
  <2>1. \A k \in greeters : k.kind # "ROLE" =>
            \E l \in greeters' : /\ l.side = k.side /\ l.kind = k.kind /\ l.nonce = k.nonce
                                 /\ l.step = "verify" <=> k.step = "verify"
    BY <1>1, TakenHandlers
  <2>2. \A k \in greeters' : k.kind = "HELLO" =>
            \E l \in greeters : l.kind = "HELLO" /\ l.nonce = k.nonce
    <3>1. \A k \in greeters' : \E l \in greeters : l.kind = k.kind /\ l.nonce = k.nonce
      BY <1>1, TakenHandlers
    <3> QED  BY <3>1
  <2> QED  BY <1>1, <2>1, <2>2, GreetingsUntouched DEF HandInv
<1> QED  BY <1>8, <1>9, <1>10 DEF HandInv

LEMMA FailStep == ASSUME HandInv, NEW h \in greeters, WriteFails(h) PROVE HandInv'
<1>1. /\ HandTypes /\ h.step = "write" /\ greeters' = Taken(h) /\ excusedRoles' = TRUE
      /\ UNCHANGED <<known, subscribed, connecting, pendingHello, helloSeen, greetings,
                     roleFrames, deferredRoles, registry, connects, rolesHeard, excusedHello>>
  BY DEF HandInv, WriteFails
<1>2. HandTypes'
  <2>1. /\ greeters' \subseteq Greeter
        /\ \A k \in greeters' : /\ k.todo # <<>> <=> k.step \in {"flush", "write"}
                                /\ k.step = "write" => k \in greeters
                                /\ k.kind = "ROLE" => k.step \in {"flush", "write"}
                                /\ k.kind # "ROLE" => k.nonce \in Nonces
    BY <1>1, TakenHandlers
  <2> QED  BY <1>1, <2>1 DEF HandTypes
<1>3. RolesInHand'  BY <1>1 DEF RolesInHand
<1>4. NoncesAreOwn' /\ AnswerComes'
  <2>1. \A k \in greeters : k.kind # "ROLE" =>
            \E l \in greeters' : /\ l.side = k.side /\ l.kind = k.kind /\ l.nonce = k.nonce
                                 /\ l.step = "verify" <=> k.step = "verify"
    BY <1>1, TakenHandlers
  <2>2. \A k \in greeters' : k.kind = "HELLO" =>
            \E l \in greeters : l.kind = "HELLO" /\ l.nonce = k.nonce
    <3>1. \A k \in greeters' : \E l \in greeters : l.kind = k.kind /\ l.nonce = k.nonce
      BY <1>1, TakenHandlers
    <3> QED  BY <3>1
  <2> QED  BY <1>1, <2>1, <2>2, GreetingsUntouched DEF HandInv
<1> QED  BY <1>2, <1>3, <1>4 DEF HandInv

\* The first side restarts.
LEMMA RestartStep == ASSUME HandInv, FirstRestarts PROVE HandInv'
<1>1. /\ HandTypes /\ UNCHANGED <<greetings, roleFrames, registry, connects, rolesHeard>>
      /\ connecting' \subseteq connecting /\ greeters' \subseteq greeters
      /\ deferredRoles' = {} /\ excusedRoles' = TRUE /\ excusedHello' = TRUE
  BY DEF HandInv, FirstRestarts
<1>2. /\ known' \in [Sides -> BOOLEAN] /\ subscribed' \in [Sides -> BOOLEAN]
      /\ pendingHello' \in [Sides -> Nonces \cup {0}] /\ helloSeen' \in [Sides -> SUBSET Nonces]
      /\ \A s \in Sides : helloSeen'[s] \subseteq helloSeen[s]
  BY <1>1 DEF FirstRestarts, HandTypes
<1>3. HandTypes'  BY <1>1, <1>2 DEF HandTypes
<1>4. RolesInHand' /\ AnswerComes'  BY <1>1 DEF RolesInHand, AnswerComes
<1>5. NoncesAreOwn'
  <2>1. \A n : Greeted(n)' => Greeted(n)  BY <1>1, <1>2 DEF Greeted
  <2> QED  BY <1>1, <2>1 DEF HandInv, NoncesAreOwn
<1> QED  BY <1>3, <1>4, <1>5 DEF HandInv

LEMMA HandStep == ASSUME HandInv, [HandshakeNext]_handshakeVars PROVE HandInv'
<1>1. CASE HandshakeNext
  <2>1. CASE \E s \in Sides : \E b \in BOOLEAN : ConnectBegins(s, b)  BY <2>1, BeginStep
  <2>2. CASE \/ \E s \in Sides : Disconnects(s) \/ NonceExpires(s)
             \/ \E f \in greetings : GreetingLost(f)
    BY <2>2, LossSteps
  <2>3. CASE \E c \in connecting : NonceKept(c) \/ HelloSent(c)  BY <2>3, NonceStep, SendStep
  <2>4. CASE \E f \in greetings : \E b \in BOOLEAN : GreetingArrives(f, b)
    BY <2>4, ArriveStep
  <2>5. CASE \E h \in greeters : \/ Verified(h) \/ ProfileSaved(h) \/ RegistryRead(h)
                                 \/ RegistryWritten(h) \/ WriteFails(h)
    BY <2>5, VerifyStep, ProfileStep, ReadStep, WriteStep, FailStep
  <2>6. CASE \E e \in roleFrames : RoleArrives(e)  BY <2>6, RoleStep
  <2>7. CASE FirstRestarts  BY <2>7, RestartStep
  <2> QED  BY <1>1, <2>1, <2>2, <2>3, <2>4, <2>5, <2>6, <2>7 DEF HandshakeNext
<1>2. CASE UNCHANGED handshakeVars
  <2>1. UNCHANGED <<known, subscribed, connecting, pendingHello, helloSeen, greetings, greeters,
                    roleFrames, deferredRoles, registry, connects, rolesHeard, excusedRoles,
                    excusedHello>>
    BY <1>2 DEF handshakeVars
  <2>2. HandTypes'  BY <2>1 DEF HandInv, HandTypes
  <2>3. RolesInHand'
    <3>1. \A e : Taking(e) => Taking(e)'  BY <2>1 DEF Taking
    <3> QED  BY <2>1, <3>1, RolesUntouched DEF HandInv
  <2>4. NoncesAreOwn' /\ AnswerComes'
    BY <2>1, GreetingsUntouched DEF HandInv
  <2> QED  BY <2>2, <2>3, <2>4 DEF HandInv
<1> QED  BY <1>1, <1>2

LEMMA HandshakeIsSound == ASSUME HandInv PROVE HandshakeSound
<1>1. HandshakeTypeOK  BY DEF HandInv, HandTypes, HandshakeTypeOK, Greeter, Work
<1>2. DeferredIsFlushed  BY DEF HandInv, RolesInHand, Taking, DeferredIsFlushed
<1>3. LatestRoleKept  BY DEF HandInv, RolesInHand, Taking, LatestRoleKept
<1>4. GreetedIsKnown
  <2> SUFFICES ASSUME connecting = {}, greetings = {}, greeters = {}, ~excusedHello,
                      NEW s \in Sides, subscribed[s], ~known[s]
               PROVE  FALSE
    BY DEF GreetedIsKnown
  <2>1. ~Greets(s, pendingHello[s])  BY DEF Greets, Hears
  <2> QED  BY <2>1 DEF HandInv, AnswerComes
<1> QED  BY <1>1, <1>2, <1>3, <1>4 DEF HandshakeSound

-----------------------------------------------------------------------------
(***************************************************************************)
(* Messages that are forwarded or queued (Forward).                        *)
(***************************************************************************)

Request == [kind : {"forward", "fetch"}, at : Places, via : Socks \cup {"none"}, client : Nat,
            since : Nat, tries : Nat, cause : Cause,
            answer : {"none", "forwarded", "queued", "failed", "lost"}]
OwnMessage == [id : Forwards, of : Forwards]

FwdTypes ==
    /\ fwd \in [Forwards -> Request]
    /\ slots \in 0..Slots /\ made \in Nat /\ engine \in [Socks -> 0..made]
    /\ cleared \in [Socks -> 0..made] /\ idle \subseteq 1..made /\ opened \in BOOLEAN
    /\ postponed \cup ingested \subseteq OwnMessage
    /\ \A m \in postponed \cup ingested : m.id = m.of

\* The requests whose message is or was in the queue, and those the peer has.
Handed == {m.of : m \in postponed} \cup settled
Arrived == {m.of : m \in ingested}

\* Nothing but a timeout is answered before the end, nothing is in the queue before it; the peer
\* has what was posted successfully; and the answers are true.
Honest(c) ==
    /\ fwd[c].answer \in {"forwarded", "queued", "failed"} => fwd[c].at = "ended"
    /\ fwd[c].at = "unasked" => fwd[c].answer = "none"
    /\ fwd[c].at # "ended" => c \notin Handed
    /\ fwd[c].at = "taken" => c \in Arrived
    /\ fwd[c].kind = "forward" =>
           /\ fwd[c].answer = "forwarded" => c \in Arrived /\ c \notin Handed
           /\ fwd[c].answer = "queued" => c \in Handed
           /\ fwd[c].answer = "failed" => c \notin Handed

\* Every slot is held by a request, whose client is of after the last clearing of its proxy.
SlotsHeld ==
    /\ IsFiniteSet(Holding) /\ slots = Cardinality(Holding)
    /\ \A c \in Holding : fwd[c].client > fwd[c].since /\ fwd[c].client <= made
    /\ \A p \in Socks : engine[p] # 0 => engine[p] > cleared[p]
    /\ \A c \in Forwards : fwd[c].at = "waiting" => fwd[c].via \in Socks

FwdInv == FwdTypes /\ (\A c \in Forwards : Honest(c)) /\ SlotsHeld

Holds(r) == r.at \in {"trying", "posting", "taken"}

\* A request moves, and no other.
Moves(c) == /\ fwd' \in [Forwards -> Request]
            /\ \A d \in Forwards \ {c} : fwd'[d] = fwd[d]

LEMMA CausesAreKnown ==
    /\ NoCause \in Cause /\ DialErrors \subseteq Cause /\ PostErrors \subseteq Cause
    /\ <<"request", "invalid">> \in Cause /\ <<"proxy", "invalid">> \in Cause
    /\ <<"status", "refused">> \in Cause
  BY DEF NoCause, DialErrors, PostErrors, Cause, Why

LEMMA FwdStarts == ASSUME ForwardInit PROVE FwdInv
<1>1. Unasked \in Request /\ Unasked.at = "unasked" /\ Unasked.answer = "none"
  BY CausesAreKnown DEF Unasked, Request, Places
<1>2. \A c \in Forwards : fwd[c] = Unasked  BY DEF ForwardInit
<1>3. FwdTypes
  <2>1. fwd \in [Forwards -> Request]  BY <1>1 DEF ForwardInit
  <2>2. slots \in 0..Slots /\ made \in Nat  BY ForwardAssumption DEF ForwardInit
  <2>3. engine \in [Socks -> 0..made] /\ cleared \in [Socks -> 0..made]  BY DEF ForwardInit
  <2> QED  BY <2>1, <2>2, <2>3 DEF ForwardInit, FwdTypes
<1>4. \A c \in Forwards : Honest(c)
  BY <1>1, <1>2 DEF ForwardInit, Honest, Handed, Arrived
<1>5. Holding = {}  BY <1>1, <1>2 DEF Holding
<1>6. SlotsHeld
  BY <1>1, <1>2, <1>5, FS_EmptySet DEF ForwardInit, SlotsHeld
<1> QED  BY <1>3, <1>4, <1>6 DEF FwdInv

\* What the end of a request leaves of it.
LEMMA EndOf ==
    ASSUME FwdTypes, NEW c \in Forwards,
           NEW given \in {"forwarded", "queued", "failed", "lost"}, NEW cause \in Cause,
           fwd' = Ends(c, given, cause)
    PROVE  /\ Moves(c) /\ fwd'[c].at = "ended" /\ fwd'[c].kind = fwd[c].kind
           /\ fwd'[c].answer = IF fwd[c].answer = "none" THEN given ELSE fwd[c].answer
<1>1. fwd \in [Forwards -> Request] /\ fwd[c] \in Request  BY DEF FwdTypes
<1>2. PICK r : r = [fwd[c] EXCEPT !.at = "ended", !.client = 0, !.since = 0, !.tries = 0,
                                  !.cause = cause,
                                  !.answer = IF @ = "none" THEN given ELSE @]
  OBVIOUS
<1>3. /\ r \in Request /\ r.at = "ended" /\ r.kind = fwd[c].kind
      /\ r.answer = IF fwd[c].answer = "none" THEN given ELSE fwd[c].answer
  BY <1>1, <1>2 DEF Request, Places
<1>4. fwd' = [fwd EXCEPT ![c] = r]  BY <1>1, <1>2 DEF Ends
<1> QED  BY <1>1, <1>3, <1>4 DEF Moves

\* One request moves: the others stay honest ...
LEMMA HonestMove ==
    ASSUME FwdInv, NEW c \in Forwards, Moves(c), Honest(c)',
           \A d \in Forwards \ {c} : d \in Handed' <=> d \in Handed,
           Arrived \subseteq Arrived'
    PROVE  \A d \in Forwards : Honest(d)'
<1>1. ASSUME NEW d \in Forwards \ {c} PROVE Honest(d)'
  BY DEF FwdInv, Honest, Moves
<1> QED  BY <1>1

\* ... and keep their slots.
LEMMA SlotsMove ==
    ASSUME FwdInv, NEW c \in Forwards, Moves(c), made' \in Nat, made <= made', Slots \in Nat,
           \A p \in Socks : engine'[p] # 0 => engine'[p] > cleared'[p],
           fwd'[c].at = "waiting" => fwd'[c].via \in Socks,
           Holds(fwd'[c]) => fwd'[c].client > fwd'[c].since /\ fwd'[c].client <= made',
           slots' = slots + (IF Holds(fwd'[c]) THEN 1 ELSE 0) - (IF Holds(fwd[c]) THEN 1 ELSE 0)
    PROVE  SlotsHeld' /\ slots' \in Nat /\ (slots' <= slots => slots' \in 0..Slots)
<1>1. /\ fwd \in [Forwards -> Request] /\ slots \in 0..Slots /\ made \in Nat
      /\ IsFiniteSet(Holding) /\ slots = Cardinality(Holding)
  BY DEF FwdInv, FwdTypes, SlotsHeld
<1>2. Holding = {d \in Forwards : Holds(fwd[d])} /\ Holding' = {d \in Forwards : Holds(fwd'[d])}
  BY DEF Holding, Holds
<1>3. IsFiniteSet(Holding') /\ slots' = Cardinality(Holding')
  <2>1. CASE Holds(fwd[c]) /\ Holds(fwd'[c])
    <3>1. Holding' = Holding  BY <2>1, <1>2 DEF Moves
    <3> QED  BY <3>1, <2>1, <1>1
  <2>2. CASE ~Holds(fwd[c]) /\ ~Holds(fwd'[c])
    <3>1. Holding' = Holding  BY <2>2, <1>2 DEF Moves
    <3> QED  BY <3>1, <2>2, <1>1
  <2>3. CASE ~Holds(fwd[c]) /\ Holds(fwd'[c])
    <3>1. Holding' = Holding \cup {c} /\ c \notin Holding  BY <2>3, <1>2 DEF Moves
    <3> QED  BY <3>1, <2>3, <1>1, FS_AddElement
  <2>4. CASE Holds(fwd[c]) /\ ~Holds(fwd'[c])
    <3>1. Holding' = Holding \ {c} /\ c \in Holding  BY <2>4, <1>2 DEF Moves
    <3> QED  BY <3>1, <2>4, <1>1, FS_RemoveElement
  <2> QED  BY <2>1, <2>2, <2>3, <2>4
<1>4. ASSUME NEW d \in Holding' PROVE fwd'[d].client > fwd'[d].since /\ fwd'[d].client <= made'
  <2>1. CASE d = c  BY <2>1, <1>2
  <2>2. CASE d # c
    <3>1. d \in Holding /\ fwd'[d] = fwd[d]  BY <2>2, <1>2 DEF Moves
    <3>2. fwd[d].client \in Nat /\ fwd[d].client > fwd[d].since /\ fwd[d].client <= made
      BY <3>1, <1>1, <1>2 DEF FwdInv, SlotsHeld, Request
    <3> QED  BY <3>1, <3>2, <1>1
  <2> QED  BY <2>1, <2>2
<1>5. \A d \in Forwards : fwd'[d].at = "waiting" => fwd'[d].via \in Socks
  BY DEF FwdInv, SlotsHeld, Moves
<1>6. slots' \in Nat  BY <1>3, FS_CardinalityType
<1> QED  BY <1>1, <1>3, <1>4, <1>5, <1>6 DEF SlotsHeld


\* A request that waits for nothing of the pool: it is asked, postponed, given up.
LEMMA OutsidePool ==
    ASSUME FwdInv, NEW c \in Forwards, Moves(c), Honest(c)', UNCHANGED <<poolStateVars, opened>>,
           Holds(fwd[c]) <=> Holds(fwd'[c]),
           Holds(fwd'[c]) => fwd'[c].client = fwd[c].client /\ fwd'[c].since = fwd[c].since,
           fwd'[c].at = "waiting" => fwd'[c].via \in Socks,
           postponed' \cup ingested' \subseteq OwnMessage,
           \A m \in postponed' \cup ingested' : m.id = m.of,
           \A d \in Forwards \ {c} : d \in Handed' <=> d \in Handed,
           Arrived \subseteq Arrived'
    PROVE  FwdInv'
<1>1. /\ UNCHANGED <<slots, engine, made, idle, cleared, opened>>
      /\ fwd \in [Forwards -> Request] /\ slots \in Nat /\ made \in Nat
  BY ForwardAssumption DEF poolStateVars, FwdInv, FwdTypes
<1>2. FwdTypes'  BY <1>1 DEF FwdInv, FwdTypes, Moves
<1>3. \A d \in Forwards : Honest(d)'  BY HonestMove
<1>4. SlotsHeld'
  <2>1. made <= made' /\ Slots \in Nat  BY <1>1, ForwardAssumption
  <2>2. Holds(fwd'[c]) => fwd'[c].client > fwd'[c].since /\ fwd'[c].client <= made'
    <3>1. Holds(fwd[c]) => c \in Holding  BY DEF Holds, Holding
    <3> QED  BY <1>1, <3>1 DEF FwdInv, SlotsHeld
  <2>3. slots' = slots + (IF Holds(fwd'[c]) THEN 1 ELSE 0) - (IF Holds(fwd[c]) THEN 1 ELSE 0)
    BY <1>1
  <2>4. \A p \in Socks : engine'[p] # 0 => engine'[p] > cleared'[p]
    BY <1>1 DEF FwdInv, SlotsHeld
  <2> QED  BY <1>1, <2>1, <2>2, <2>3, <2>4, SlotsMove
<1> QED  BY <1>2, <1>3, <1>4 DEF FwdInv

LEMMA AskSteps ==
    ASSUME FwdInv, NEW c \in Forwards, AskForward(c) \/ AskFetch(c)
    PROVE  FwdInv'
<1>1. /\ FwdTypes /\ fwd \in [Forwards -> Request] /\ fwd[c] \in Request
      /\ fwd[c].at = "unasked" /\ fwd[c].answer = "none" /\ c \notin Handed /\ Honest(c)
  BY DEF FwdInv, FwdTypes, AskForward, AskFetch, Honest
<1>2. UNCHANGED <<poolStateVars, opened, postponed, ingested, settled>>
  BY DEF AskForward, AskFetch
<1>3. Handed' = Handed /\ Arrived' = Arrived  BY <1>2 DEF Handed, Arrived
<1>4. /\ Moves(c) /\ ~Holds(fwd'[c]) /\ Honest(c)'
      /\ fwd'[c].at = "waiting" => fwd'[c].via \in Socks
  <2>1. CASE fwd' = Ends(c, "failed", <<"request", "invalid">>)
    <3>1. /\ Moves(c) /\ fwd'[c].at = "ended" /\ fwd'[c].kind = fwd[c].kind
          /\ fwd'[c].answer = "failed"
      BY <2>1, <1>1, EndOf, CausesAreKnown
    <3> QED  BY <3>1, <1>1, <1>3 DEF Honest, Holds
  <2>2. CASE fwd' = [fwd EXCEPT ![c].at = "failed"]
    <3>1. Moves(c) /\ fwd'[c].at = "failed" /\ fwd'[c].answer = "none"
      BY <2>2, <1>1 DEF Moves, Request, Places
    <3> QED  BY <3>1, <1>1, <1>3 DEF Honest, Holds
  <2>3. CASE fwd' = [fwd EXCEPT ![c].at = "failed", ![c].cause = <<"proxy", "invalid">>]
    <3>1. Moves(c) /\ fwd'[c].at = "failed" /\ fwd'[c].answer = "none"
      BY <2>3, <1>1, CausesAreKnown DEF Moves, Request, Places
    <3> QED  BY <3>1, <1>1, <1>3 DEF Honest, Holds
  <2>4. CASE \E p \in Socks : fwd' = [fwd EXCEPT ![c].at = "waiting", ![c].via = p, ![c].tries = 1]
    <3>1. PICK p \in Socks : fwd' = [fwd EXCEPT ![c].at = "waiting", ![c].via = p, ![c].tries = 1]
      BY <2>4
    <3>2. Moves(c) /\ fwd'[c].at = "waiting" /\ fwd'[c].answer = "none" /\ fwd'[c].via = p
      BY <3>1, <1>1 DEF Moves, Request, Places
    <3> QED  BY <3>2, <1>1, <1>3 DEF Honest, Holds
  <2>5. CASE AskFetch(c)
    <3>1. PICK p \in Socks :
              fwd' = [fwd EXCEPT ![c].kind = "fetch", ![c].at = "waiting", ![c].via = p,
                                 ![c].tries = FetchTries]
      BY <2>5 DEF AskFetch
    <3>2. Moves(c) /\ fwd'[c].at = "waiting" /\ fwd'[c].answer = "none" /\ fwd'[c].via = p
      BY <3>1, <1>1, ForwardAssumption DEF Moves, Request, Places
    <3> QED  BY <3>2, <1>1, <1>3 DEF Honest, Holds
  <2> QED  BY <2>1, <2>2, <2>3, <2>4, <2>5 DEF AskForward
<1>5. ~Holds(fwd[c])  BY <1>1 DEF Holds
<1>6. /\ postponed' \cup ingested' \subseteq OwnMessage
      /\ \A m \in postponed' \cup ingested' : m.id = m.of
  BY <1>1, <1>2 DEF FwdTypes
<1>7. UNCHANGED <<poolStateVars, opened>>  BY <1>2
<1> QED  BY <1>3, <1>4, <1>5, <1>6, <1>7, OutsidePool

\* What could not be forwarded is queued, or not; nobody waits any more.
LEMMA PostponeStep == ASSUME FwdInv, NEW c \in Forwards, Postpones(c) PROVE FwdInv'
<1>1. /\ FwdTypes /\ fwd \in [Forwards -> Request] /\ fwd[c] \in Request
      /\ fwd[c].at = "failed" /\ fwd[c].cause \in Cause /\ Honest(c)
  BY DEF FwdInv, FwdTypes, Postpones, Request
<1>2. UNCHANGED <<poolStateVars, opened, ingested, settled>>  BY DEF Postpones
<1>3. PICK m : m = [id |-> c, of |-> c]  OBVIOUS
<1>4. m \in OwnMessage /\ m.id = c /\ m.of = c  BY <1>3 DEF OwnMessage
<1>5. postponed' = postponed \cup {m}  BY <1>3 DEF Postpones, OwnId
<1>6. Handed' = Handed \cup {c} /\ Arrived' = Arrived
  BY <1>2, <1>4, <1>5 DEF Handed, Arrived
<1>7. PICK given \in {"queued", "lost"} : fwd' = Ends(c, given, fwd[c].cause)
  BY DEF Postpones
<1>8. /\ Moves(c) /\ fwd'[c].at = "ended" /\ fwd'[c].kind = fwd[c].kind
      /\ fwd'[c].answer = IF fwd[c].answer = "none" THEN given ELSE fwd[c].answer
  BY <1>1, <1>7, EndOf
<1>9. Honest(c)' /\ ~Holds(fwd'[c]) /\ ~Holds(fwd[c])
  BY <1>1, <1>6, <1>7, <1>8 DEF Honest, Holds
<1>10. /\ postponed' \cup ingested' \subseteq OwnMessage
       /\ \A k \in postponed' \cup ingested' : k.id = k.of
  BY <1>1, <1>2, <1>4, <1>5 DEF FwdTypes
<1>11. UNCHANGED <<poolStateVars, opened>>  BY <1>2
<1> QED  BY <1>6, <1>8, <1>9, <1>10, <1>11, OutsidePool

LEMMA OtherEnds ==
    ASSUME FwdInv, NEW c \in Forwards, NotQueued(c) \/ CallerGivesUp(c) \/ PeerTakes(c)
    PROVE  FwdInv'
<1>1. /\ FwdTypes /\ fwd \in [Forwards -> Request] /\ fwd[c] \in Request
      /\ fwd[c].cause \in Cause /\ Honest(c)
  BY DEF FwdInv, FwdTypes, Request
<1>2. UNCHANGED <<poolStateVars, opened, postponed, settled>>
  BY DEF NotQueued, CallerGivesUp, PeerTakes
<1>3. Handed' = Handed  BY <1>2 DEF Handed
<1>4. fwd[c].at = "waiting" => fwd[c].via \in Socks  BY DEF FwdInv, SlotsHeld
<1>5. CASE NotQueued(c)
  <2>1. fwd[c].at = "failed" /\ fwd' = Ends(c, "failed", fwd[c].cause) /\ ingested' = ingested
    BY <1>5 DEF NotQueued
  <2>2. /\ Moves(c) /\ fwd'[c].at = "ended" /\ fwd'[c].kind = fwd[c].kind
        /\ fwd'[c].answer = IF fwd[c].answer = "none" THEN "failed" ELSE fwd[c].answer
    BY <1>1, <2>1, EndOf
  <2>3. Arrived' = Arrived  BY <2>1 DEF Arrived
  <2>4. Honest(c)' /\ ~Holds(fwd'[c]) /\ ~Holds(fwd[c])
    BY <1>1, <1>3, <2>1, <2>2, <2>3 DEF Honest, Holds
  <2>5. /\ postponed' \cup ingested' \subseteq OwnMessage
        /\ \A k \in postponed' \cup ingested' : k.id = k.of
    BY <1>1, <1>2, <2>1 DEF FwdTypes
  <2> QED  BY <1>2, <1>3, <2>2, <2>3, <2>4, <2>5, OutsidePool
<1>6. CASE CallerGivesUp(c)
  <2>1. /\ fwd[c].at \notin {"unasked", "ended"} /\ fwd' = [fwd EXCEPT ![c].answer = "lost"]
        /\ ingested' = ingested
    BY <1>6 DEF CallerGivesUp
  <2>2. /\ Moves(c) /\ fwd'[c].answer = "lost" /\ fwd'[c].at = fwd[c].at
        /\ fwd'[c].kind = fwd[c].kind /\ fwd'[c].client = fwd[c].client
        /\ fwd'[c].since = fwd[c].since /\ fwd'[c].via = fwd[c].via
    BY <1>1, <2>1 DEF Moves, Request
  <2>3. Arrived' = Arrived  BY <2>1 DEF Arrived
  <2>4. Honest(c)' /\ (Holds(fwd'[c]) <=> Holds(fwd[c]))
    BY <1>1, <1>3, <2>1, <2>2, <2>3 DEF Honest, Holds
  <2>5. /\ postponed' \cup ingested' \subseteq OwnMessage
        /\ \A k \in postponed' \cup ingested' : k.id = k.of
    BY <1>1, <1>2, <2>1 DEF FwdTypes
  <2> QED  BY <1>2, <1>3, <1>4, <2>2, <2>3, <2>4, <2>5, OutsidePool
<1>7. CASE PeerTakes(c)
  <2>1. PICK m : m = [id |-> c, of |-> c]  OBVIOUS
  <2>2. m \in OwnMessage /\ m.id = c /\ m.of = c  BY <2>1 DEF OwnMessage
  <2>3. /\ fwd[c].at = "posting" /\ fwd[c].kind = "forward"
        /\ fwd' = [fwd EXCEPT ![c].at = "taken"] /\ ingested' = ingested \cup {m}
    BY <1>7, <2>1 DEF PeerTakes
  <2>4. /\ Moves(c) /\ fwd'[c].answer = fwd[c].answer /\ fwd'[c].at = "taken"
        /\ fwd'[c].kind = fwd[c].kind /\ fwd'[c].client = fwd[c].client
        /\ fwd'[c].since = fwd[c].since
    BY <1>1, <2>3 DEF Moves, Request, Places
  <2>5. Arrived' = Arrived \cup {c}  BY <2>2, <2>3 DEF Arrived
  <2>6. Honest(c)' /\ Holds(fwd'[c]) /\ Holds(fwd[c])
    BY <1>1, <1>3, <2>3, <2>4, <2>5 DEF Honest, Holds
  <2>7. /\ postponed' \cup ingested' \subseteq OwnMessage
        /\ \A k \in postponed' \cup ingested' : k.id = k.of
    BY <1>1, <1>2, <2>2, <2>3 DEF FwdTypes
  <2> QED  BY <1>2, <1>3, <2>4, <2>5, <2>6, <2>7, OutsidePool
<1> QED  BY <1>5, <1>6, <1>7


\* A request that holds a slot, or takes one, changes the pool and no message.
LEMMA InsidePool ==
    ASSUME FwdInv, NEW c \in Forwards, Moves(c), Honest(c)',
           UNCHANGED <<cleared, opened, postponed, ingested, settled>>,
           engine' \in [Socks -> 0..made'], made' \in Nat, made <= made', idle' \subseteq 1..made',
           \A p \in Socks : engine'[p] # 0 => engine'[p] > cleared[p],
           fwd'[c].at # "waiting",
           Holds(fwd'[c]) => fwd'[c].client > fwd'[c].since /\ fwd'[c].client <= made',
           slots' = slots + (IF Holds(fwd'[c]) THEN 1 ELSE 0) - (IF Holds(fwd[c]) THEN 1 ELSE 0),
           slots' <= Slots
    PROVE  FwdInv'
<1>1. Slots \in Nat /\ slots \in Nat /\ made \in Nat
  BY ForwardAssumption DEF FwdInv, FwdTypes
<1>2. Handed' = Handed /\ Arrived' = Arrived  BY DEF Handed, Arrived
<1>3. SlotsHeld' /\ slots' \in Nat  BY <1>1, SlotsMove
<1>4. cleared' \in [Socks -> 0..made']
  <2>1. \A p \in Socks : cleared[p] \in 0..made'  BY <1>1 DEF FwdInv, FwdTypes
  <2> QED  BY <2>1 DEF FwdInv, FwdTypes
<1>5. slots' \in 0..Slots  BY <1>1, <1>3
<1>6. FwdTypes'  BY <1>4, <1>5 DEF FwdInv, FwdTypes, Moves
<1>7. \A d \in Forwards : Honest(d)'  BY <1>2, HonestMove
<1> QED  BY <1>3, <1>6, <1>7 DEF FwdInv

LEMMA SlotStep == ASSUME FwdInv, NEW c \in Forwards, TakeSlot(c) PROVE FwdInv'
<1>1. /\ FwdTypes /\ fwd \in [Forwards -> Request] /\ fwd[c] \in Request
      /\ fwd[c].at = "waiting" /\ Honest(c)
      /\ slots \in Nat /\ Slots \in Nat /\ made \in Nat /\ slots < Slots /\ slots' = slots + 1
  BY ForwardAssumption DEF FwdInv, FwdTypes, TakeSlot
<1>2. PICK p \in Socks : p = fwd[c].via  BY <1>1 DEF FwdInv, SlotsHeld
<1>3. PICK client : client = IF engine[p] = 0 THEN made + 1 ELSE engine[p]  OBVIOUS
<1>4. /\ UNCHANGED <<idle, cleared, opened, postponed, ingested, settled>>
      /\ engine' = [engine EXCEPT ![p] = client]
      /\ made' = IF engine[p] = 0 THEN client ELSE made
      /\ fwd' = [fwd EXCEPT ![c].at = "trying", ![c].client = client, ![c].since = cleared[p]]
  BY <1>2, <1>3 DEF TakeSlot
<1>5. /\ engine[p] \in 0..made /\ cleared[p] \in 0..made
      /\ engine[p] # 0 => engine[p] > cleared[p]
      /\ engine \in [Socks -> 0..made]
  BY <1>1 DEF FwdInv, FwdTypes, SlotsHeld
<1>6. /\ client \in Nat /\ client > cleared[p] /\ made' \in Nat /\ client <= made'
      /\ made <= made' /\ client # 0
  BY <1>1, <1>3, <1>4, <1>5
<1>7. /\ Moves(c) /\ fwd'[c].at = "trying" /\ fwd'[c].answer = fwd[c].answer
      /\ fwd'[c].kind = fwd[c].kind /\ fwd'[c].client = client /\ fwd'[c].since = cleared[p]
  <2>1. PICK r : r = [fwd[c] EXCEPT !.at = "trying", !.client = client, !.since = cleared[p]]
    OBVIOUS
  <2>2. cleared[p] \in Nat  BY <1>1, <1>5
  <2>3. /\ r \in Request /\ r.at = "trying" /\ r.answer = fwd[c].answer
        /\ r.kind = fwd[c].kind /\ r.client = client /\ r.since = cleared[p]
    BY <1>1, <1>6, <2>1, <2>2 DEF Request, Places
  <2>4. fwd' = [fwd EXCEPT ![c] = r]  BY <1>1, <1>4, <2>1
  <2> QED  BY <1>1, <2>3, <2>4 DEF Moves
<1>8. Honest(c)' /\ Holds(fwd'[c]) /\ ~Holds(fwd[c])
  <2>1. Handed' = Handed  BY <1>4 DEF Handed
  <2> QED  BY <1>1, <1>7, <2>1 DEF Honest, Holds
<1>9. /\ engine' \in [Socks -> 0..made'] /\ idle' \subseteq 1..made'
      /\ \A q \in Socks : engine'[q] # 0 => engine'[q] > cleared[q]
  <2>1. \A q \in Socks : engine'[q] = IF q = p THEN client ELSE engine[q]  BY <1>4, <1>5
  <2>2. \A q \in Socks : engine'[q] \in 0..made'  BY <2>1, <1>1, <1>5, <1>6
  <2>3. \A q \in Socks : engine'[q] # 0 => engine'[q] > cleared[q]
    BY <2>1, <1>6 DEF FwdInv, SlotsHeld
  <2>4. idle' \subseteq 1..made'  BY <1>1, <1>4, <1>6 DEF FwdTypes
  <2>5. engine' \in [Socks -> 0..made']  BY <2>2, <1>4, <1>5
  <2> QED  BY <2>3, <2>4, <2>5
<1>10. slots' <= Slots
       /\ slots' = slots + (IF Holds(fwd'[c]) THEN 1 ELSE 0) - (IF Holds(fwd[c]) THEN 1 ELSE 0)
  BY <1>1, <1>8
<1>11. UNCHANGED <<cleared, opened, postponed, ingested, settled>>  BY <1>4
<1> QED  BY <1>6, <1>7, <1>8, <1>9, <1>10, <1>11, InsidePool

\* A request that holds a slot goes on, fails or is answered.
LEMMA HolderSteps ==
    ASSUME FwdInv, NEW c \in Forwards,
           Connects(c) \/ DialFails(c) \/ PostFails(c) \/ Responds(c)
    PROVE  FwdInv'
<1>1. /\ FwdTypes /\ fwd \in [Forwards -> Request] /\ fwd[c] \in Request /\ Honest(c)
      /\ slots \in Nat /\ Slots \in Nat /\ made \in Nat /\ slots <= Slots
  BY ForwardAssumption DEF FwdInv, FwdTypes
<1>2. /\ Holds(fwd[c]) /\ c \in Holding
      /\ UNCHANGED <<engine, made, cleared, opened, postponed, ingested, settled>>
  BY DEF Connects, DialFails, PostFails, AttemptFails, Responds, Holds, Holding
<1>3. /\ fwd[c].client \in Nat /\ fwd[c].since \in Nat
      /\ fwd[c].client > fwd[c].since /\ fwd[c].client <= made
  BY <1>1, <1>2 DEF FwdInv, SlotsHeld, Request
<1>4. Handed' = Handed /\ Arrived' = Arrived  BY <1>2 DEF Handed, Arrived
<1>5. /\ engine' \in [Socks -> 0..made'] /\ made' \in Nat /\ made <= made'
      /\ \A p \in Socks : engine'[p] # 0 => engine'[p] > cleared[p]
  BY <1>1, <1>2 DEF FwdInv, FwdTypes, SlotsHeld
<1>6. ASSUME Moves(c), Honest(c)', fwd'[c].at # "waiting", idle' \subseteq 1..made,
             \/ Holds(fwd'[c]) /\ slots' = slots /\ fwd'[c].client = fwd[c].client
                               /\ fwd'[c].since = fwd[c].since
             \/ ~Holds(fwd'[c]) /\ slots' = slots - 1
      PROVE  FwdInv'
  <2>1. UNCHANGED <<cleared, opened, postponed, ingested, settled>>  BY <1>2
  <2>2. /\ slots' <= Slots /\ idle' \subseteq 1..made'
        /\ slots' = slots + (IF Holds(fwd'[c]) THEN 1 ELSE 0) - (IF Holds(fwd[c]) THEN 1 ELSE 0)
        /\ Holds(fwd'[c]) => fwd'[c].client > fwd'[c].since /\ fwd'[c].client <= made'
    BY <1>1, <1>2, <1>3, <1>6
  <2> QED  BY <1>5, <1>6, <2>1, <2>2, InsidePool
<1>7. CASE Connects(c)
  <2>1. /\ fwd[c].at = "trying" /\ fwd' = [fwd EXCEPT ![c].at = "posting"]
        /\ idle' \subseteq idle /\ slots' = slots
    BY <1>7 DEF Connects
  <2>2. /\ Moves(c) /\ fwd'[c].at = "posting" /\ fwd'[c].answer = fwd[c].answer
        /\ fwd'[c].kind = fwd[c].kind /\ fwd'[c].client = fwd[c].client
        /\ fwd'[c].since = fwd[c].since
    BY <1>1, <2>1 DEF Moves, Request, Places
  <2>3. Honest(c)' /\ Holds(fwd'[c])  BY <1>1, <1>4, <2>1, <2>2 DEF Honest, Holds
  <2>4. idle' \subseteq 1..made  BY <1>1, <2>1 DEF FwdTypes
  <2> QED  BY <1>6, <2>1, <2>2, <2>3, <2>4
<1>8. CASE DialFails(c) \/ PostFails(c)
  <2>1. PICK e \in DialErrors \cup PostErrors : AttemptFails(c, e)
    BY <1>8 DEF DialFails, PostFails
  <2>2. e \in Cause /\ NoCause \in Cause  BY CausesAreKnown
  <2>3. idle' = idle /\ fwd[c].at # "ended" /\ fwd[c].at # "unasked" /\ idle' \subseteq 1..made
    BY <1>1, <1>2, <2>1 DEF AttemptFails, Holds, FwdTypes
  <2>4. CASE fwd[c].tries > 1
    <3>1. /\ fwd' = [fwd EXCEPT ![c].at = "trying", ![c].tries = @ - 1] /\ slots' = slots
      BY <2>1, <2>4 DEF AttemptFails
    <3>2. fwd[c].tries - 1 \in Nat  BY <1>1, <2>4 DEF Request
    <3>3. /\ Moves(c) /\ fwd'[c].at = "trying" /\ fwd'[c].answer = fwd[c].answer
          /\ fwd'[c].kind = fwd[c].kind /\ fwd'[c].client = fwd[c].client
          /\ fwd'[c].since = fwd[c].since
      BY <1>1, <3>1, <3>2 DEF Moves, Request, Places
    <3>4. Honest(c)' /\ Holds(fwd'[c])  BY <1>1, <1>4, <2>3, <3>3 DEF Honest, Holds
    <3> QED  BY <1>6, <2>3, <3>1, <3>3, <3>4
  <2>5. CASE ~(fwd[c].tries > 1) /\ fwd[c].kind = "fetch"
    <3>1. fwd' = Ends(c, "failed", NoCause) /\ slots' = slots - 1
      BY <2>1, <2>5 DEF AttemptFails
    <3>2. /\ Moves(c) /\ fwd'[c].at = "ended" /\ fwd'[c].kind = "fetch"
      BY <1>1, <2>2, <2>5, <3>1, EndOf
    <3>3. Honest(c)' /\ ~Holds(fwd'[c])  BY <3>2 DEF Honest, Holds
    <3> QED  BY <1>6, <2>3, <3>1, <3>2, <3>3
  <2>6. CASE ~(fwd[c].tries > 1) /\ fwd[c].kind # "fetch"
    <3>1. fwd' = [fwd EXCEPT ![c].at = "failed", ![c].cause = e] /\ slots' = slots - 1
      BY <2>1, <2>6 DEF AttemptFails
    <3>2. /\ Moves(c) /\ fwd'[c].at = "failed" /\ fwd'[c].answer = fwd[c].answer
          /\ fwd'[c].kind = fwd[c].kind
      BY <1>1, <2>2, <3>1 DEF Moves, Request, Places
    <3>3. Honest(c)' /\ ~Holds(fwd'[c])  BY <1>1, <1>4, <2>3, <3>2 DEF Honest, Holds
    <3> QED  BY <1>6, <2>3, <3>1, <3>2, <3>3
  <2> QED  BY <2>4, <2>5, <2>6
<1>9. CASE Responds(c)
  <2>1. /\ fwd[c].at \in {"posting", "taken"} /\ slots' = slots - 1
        /\ idle' = idle \cup {fwd[c].client}
    BY <1>9 DEF Responds
  <2>2. idle' \subseteq 1..made
    <3>1. fwd[c].client \in 1..made  BY <1>1, <1>3
    <3>2. idle \subseteq 1..made  BY <1>1 DEF FwdTypes
    <3> QED  BY <2>1, <3>1, <3>2
  <2>3. CASE fwd[c].at = "taken" \/ fwd[c].kind = "fetch"
    <3>1. fwd' = Ends(c, "forwarded", NoCause)  BY <1>9, <2>3 DEF Responds
    <3>2. /\ Moves(c) /\ fwd'[c].at = "ended" /\ fwd'[c].kind = fwd[c].kind
          /\ fwd'[c].answer = IF fwd[c].answer = "none" THEN "forwarded" ELSE fwd[c].answer
      BY <1>1, <3>1, EndOf, CausesAreKnown
    <3>3. Honest(c)' /\ ~Holds(fwd'[c])
      BY <1>1, <1>4, <2>1, <2>3, <3>2 DEF Honest, Holds
    <3> QED  BY <1>6, <2>1, <2>2, <3>2, <3>3
  <2>4. CASE ~(fwd[c].at = "taken" \/ fwd[c].kind = "fetch")
    <3>1. fwd' = [fwd EXCEPT ![c].at = "failed", ![c].cause = <<"status", "refused">>]
      BY <1>9, <2>4 DEF Responds
    <3>2. /\ Moves(c) /\ fwd'[c].at = "failed" /\ fwd'[c].answer = fwd[c].answer
          /\ fwd'[c].kind = fwd[c].kind
      BY <1>1, <3>1, CausesAreKnown DEF Moves, Request, Places
    <3>3. Honest(c)' /\ ~Holds(fwd'[c])  BY <1>1, <1>4, <2>1, <3>2 DEF Honest, Holds
    <3> QED  BY <1>6, <2>1, <2>2, <3>2, <3>3
  <2> QED  BY <2>3, <2>4
<1> QED  BY <1>7, <1>8, <1>9


\* What is done to the queue, to the proxies, and the death of the worker.
LEMMA QueueSteps ==
    ASSUME FwdInv, QueueOpens \/ \E m \in postponed : QueueSends(m)
    PROVE  FwdInv'
<1>1. /\ UNCHANGED <<fwd, slots, engine, made, idle, cleared>> /\ opened' \in BOOLEAN
  BY DEF QueueOpens, QueueSends, poolStateVars, FwdInv, FwdTypes
<1>2. /\ postponed' \cup ingested' \subseteq postponed \cup ingested
      /\ Handed' = Handed /\ Arrived \subseteq Arrived'
  <2>1. CASE QueueOpens  BY <2>1 DEF QueueOpens, Handed, Arrived
  <2>2. CASE \E m \in postponed : QueueSends(m)
    <3>1. PICK m \in postponed : QueueSends(m)  BY <2>2
    <3>2. \/ ingested' = {i \in ingested : i.id # m.id} \cup {m}
          \/ ingested' = ingested
      BY <3>1 DEF QueueSends
    <3>3. \/ postponed' = postponed \ {m} /\ settled' = settled \cup {m.of}
          \/ postponed' = postponed /\ settled' = settled
      BY <3>1 DEF QueueSends
    <3>4. \A i \in ingested : i.id = m.id => i.of = m.of  BY DEF FwdInv, FwdTypes
    <3>5. Arrived \subseteq Arrived'  BY <3>2, <3>4 DEF Arrived
    <3>6. Handed' = Handed  BY <3>3 DEF Handed
    <3> QED  BY <3>2, <3>3, <3>5, <3>6
  <2> QED  BY <2>1, <2>2
<1>3. FwdTypes'  BY <1>1, <1>2 DEF FwdInv, FwdTypes
<1>4. \A c \in Forwards : Honest(c)'  BY <1>1, <1>2 DEF FwdInv, Honest
<1>5. SlotsHeld'  BY <1>1 DEF FwdInv, SlotsHeld, Holding
<1> QED  BY <1>3, <1>4, <1>5 DEF FwdInv

LEMMA ClearStep == ASSUME FwdInv, NEW S \in SUBSET Socks, ClearsProxy(S) PROVE FwdInv'
<1>1. /\ UNCHANGED <<fwd, slots, made, opened, postponed, ingested, settled>>
      /\ idle' \subseteq idle
      /\ engine' = [p \in Socks |-> IF p \in S THEN 0 ELSE engine[p]]
      /\ cleared' = [p \in Socks |-> IF p \in S THEN made ELSE cleared[p]]
  BY DEF ClearsProxy
<1>2. made \in Nat /\ \A p \in Socks : engine[p] \in 0..made /\ cleared[p] \in 0..made
  BY DEF FwdInv, FwdTypes
<1>3. engine' \in [Socks -> 0..made] /\ cleared' \in [Socks -> 0..made]
  <2>1. 0 \in 0..made /\ made \in 0..made  BY <1>2
  <2> QED  BY <1>1, <1>2, <2>1
<1>4. FwdTypes'  BY <1>1, <1>3 DEF FwdInv, FwdTypes
<1>5. Handed' = Handed /\ Arrived' = Arrived  BY <1>1 DEF Handed, Arrived
<1>6. \A c \in Forwards : Honest(c)'  BY <1>1, <1>5 DEF FwdInv, Honest
<1>7. SlotsHeld'  BY <1>1 DEF FwdInv, SlotsHeld, Holding
<1> QED  BY <1>4, <1>6, <1>7 DEF FwdInv

LEMMA DeathStep == ASSUME FwdInv, Dies PROVE FwdInv'
<1>1. /\ FwdTypes /\ fwd \in [Forwards -> Request] /\ Slots \in Nat
      /\ UNCHANGED <<made, ingested, settled, cleared>>
      /\ slots' = 0 /\ engine' = [p \in Socks |-> 0] /\ idle' = {} /\ opened' = FALSE
      /\ postponed' \subseteq postponed
      /\ \A m \in postponed : fwd[m.of].answer = "queued" => m \in postponed'
      /\ fwd' = [c \in Forwards |->
                   IF fwd[c].at = "unasked" THEN fwd[c] ELSE Ends(c, "lost", NoCause)[c]]
  BY ForwardAssumption DEF FwdInv, FwdTypes, Dies
<1>2. ASSUME NEW c \in Forwards
      PROVE  \/ fwd[c].at = "unasked" /\ fwd'[c] = fwd[c]
             \/ /\ fwd'[c] \in Request /\ fwd'[c].at = "ended" /\ fwd'[c].kind = fwd[c].kind
                /\ fwd'[c].answer = IF fwd[c].answer = "none" THEN "lost" ELSE fwd[c].answer
  <2>1. CASE fwd[c].at = "unasked"  BY <2>1, <1>1
  <2>2. CASE fwd[c].at # "unasked"
    <3>1. fwd[c] \in Request /\ NoCause \in Cause  BY <1>1, CausesAreKnown
    <3>2. PICK r : r = [fwd[c] EXCEPT !.at = "ended", !.client = 0, !.since = 0, !.tries = 0,
                                      !.cause = NoCause,
                                      !.answer = IF @ = "none" THEN "lost" ELSE @]
      OBVIOUS
    <3>3. /\ r \in Request /\ r.at = "ended" /\ r.kind = fwd[c].kind
          /\ r.answer = IF fwd[c].answer = "none" THEN "lost" ELSE fwd[c].answer
      BY <3>1, <3>2 DEF Request, Places
    <3>4. Ends(c, "lost", NoCause)[c] = r  BY <1>1, <3>1, <3>2 DEF Ends
    <3>5. fwd'[c] = r  BY <1>1, <2>2, <3>4
    <3> QED  BY <3>3, <3>5
  <2> QED  BY <2>1, <2>2
<1>3. fwd' \in [Forwards -> Request]
  <2>1. \A c \in Forwards : fwd'[c] \in Request  BY <1>1, <1>2
  <2>2. fwd' = [c \in Forwards |-> fwd'[c]]  BY <1>1
  <2> QED  BY <2>1, <2>2
<1>4. FwdTypes'
  <2>1. slots' \in 0..Slots /\ engine' \in [Socks -> 0..made']  BY <1>1 DEF FwdTypes
  <2> QED  BY <1>1, <1>3, <2>1 DEF FwdTypes
<1>5. \A c \in Forwards : Honest(c)'
  <2> SUFFICES ASSUME NEW c \in Forwards PROVE Honest(c)'  OBVIOUS
  <2>1. Honest(c)  BY DEF FwdInv
  <2>2. Arrived' = Arrived /\ Handed' \subseteq Handed  BY <1>1 DEF Arrived, Handed
  <2>3. fwd[c].answer = "queued" /\ c \in Handed => c \in Handed'  BY <1>1 DEF Handed
  <2>4. CASE fwd[c].at = "unasked" /\ fwd'[c] = fwd[c]  BY <2>1, <2>2, <2>4 DEF Honest
  <2>5. CASE fwd'[c].at = "ended" /\ fwd'[c].kind = fwd[c].kind
             /\ fwd'[c].answer = IF fwd[c].answer = "none" THEN "lost" ELSE fwd[c].answer
    <3>1. fwd'[c].answer \in {"forwarded", "queued", "failed"} => fwd'[c].answer = fwd[c].answer
      BY <2>5
    <3> QED  BY <2>1, <2>2, <2>3, <2>5, <3>1 DEF Honest
  <2> QED  BY <1>2, <2>4, <2>5
<1>6. SlotsHeld'
  <2>1. Holding' = {}  BY <1>2 DEF Holding
  <2>2. \A c \in Forwards : fwd'[c].at # "waiting"  BY <1>2
  <2> QED  BY <1>1, <2>1, <2>2, FS_EmptySet DEF SlotsHeld
<1> QED  BY <1>4, <1>5, <1>6 DEF FwdInv

LEMMA FwdStep == ASSUME FwdInv, [ForwardNext]_fwdVars PROVE FwdInv'
<1>1. CASE \E c \in Forwards :
               \/ AskForward(c) \/ AskFetch(c) \/ TakeSlot(c) \/ Connects(c) \/ DialFails(c)
               \/ PostFails(c) \/ PeerTakes(c) \/ Responds(c) \/ Postpones(c) \/ NotQueued(c)
               \/ CallerGivesUp(c)
  BY <1>1, AskSteps, SlotStep, HolderSteps, PostponeStep, OtherEnds
<1>2. CASE QueueOpens \/ \E m \in postponed : QueueSends(m)  BY <1>2, QueueSteps
<1>3. CASE Dies  BY <1>3, DeathStep
<1>4. CASE \E S \in {{p} : p \in Socks} \cup {Socks} : ClearsProxy(S)
  <2>1. {{p} : p \in Socks} \cup {Socks} \subseteq SUBSET Socks  OBVIOUS
  <2> QED  BY <1>4, <2>1, ClearStep
<1>5. CASE UNCHANGED fwdVars
  <2>1. UNCHANGED <<fwd, slots, engine, made, idle, cleared, opened, postponed, ingested, settled>>
    BY <1>5 DEF fwdVars, poolStateVars
  <2>2. Handed' = Handed /\ Arrived' = Arrived /\ Holding' = Holding
    BY <2>1 DEF Handed, Arrived, Holding
  <2> QED  BY <2>1, <2>2 DEF FwdInv, FwdTypes, Honest, SlotsHeld
<1> QED  BY <1>1, <1>2, <1>3, <1>4, <1>5 DEF ForwardNext

LEMMA ForwardIsSound == ASSUME FwdInv PROVE ForwardSound
<1>1. ForwardTypeOK  BY DEF FwdInv, FwdTypes, ForwardTypeOK, Request
<1>2. AnswersTrue
  BY DEF FwdInv, Honest, Handed, Arrived, AnswersTrue, Forwarded
<1>3. OneCopy  BY DEF FwdInv, FwdTypes, OwnMessage, OneCopy
<1>4. FetchSound  BY DEF FwdInv, SlotsHeld, FetchSound
<1> QED  BY <1>1, <1>2, <1>3, <1>4 DEF ForwardSound

-----------------------------------------------------------------------------
LEMMA ChatStarts == ASSUME ArrivingInit PROVE CursorInv /\ HistoryInv
  BY CursorStarts, HistoryStarts DEF ArrivingInit

LEMMA ChatStep ==
    ASSUME CursorInv, HistoryInv,
           [ArrivingNext]_<<part, vars, groupVars, handshakeVars, fwdVars, cursorVars, chatVars>>
    PROVE  CursorInv' /\ HistoryInv'
<1>1. [CursorNext]_cursorVars /\ [HistoryNext]_chatVars
  BY DEF ArrivingNext, Rests, CursorNext
<1> QED  BY <1>1, CursorStep, HistoryStep

\* Whatever is read, sent, replayed, deleted and ended in whatever order: the peer is told of
\* nothing that was not viewed, what is read is told unless there is a cause, what is logged
\* counts; and what is deleted stays away, what is shown stays, and no empty row is left, as
\* ReadCursors and ChatHistory say (App.tsx, receiptStore.ts, messageStore.ts).
THEOREM ChatHolds == ArrivingSpec => []ChatSound
<1>1. ArrivingInit => CursorInv /\ HistoryInv  BY ChatStarts
<1>2. CursorInv /\ HistoryInv
          /\ [ArrivingNext]_<<part, vars, groupVars, handshakeVars, fwdVars, cursorVars, chatVars>>
      => CursorInv' /\ HistoryInv'
  BY ChatStep
<1>3. CursorInv /\ HistoryInv => ChatSound
  BY CursorsAreSound DEF ChatSound, HistorySound, HistoryInv
<1> QED  BY <1>1, <1>2, <1>3, PTL DEF ArrivingSpec

\* The run has the reader and the peer in two behaviours; here they interleave, so that the peer
\* may apply one receipt while the reader sends the next (ChatView.tsx, syncEngine.ts).
THEOREM CursorsHold == CursorSpec => []CursorsSound
<1>1. CursorInit => CursorInv  BY CursorStarts
<1>2. CursorInv /\ [CursorNext]_cursorVars => CursorInv'  BY CursorStep
<1>3. CursorInv => CursorsSound  BY CursorsAreSound
<1> QED  BY <1>1, <1>2, <1>3, PTL DEF CursorSpec

-----------------------------------------------------------------------------
LEMMA BetweenStarts == ASSUME ArrivingInit PROVE GroupInv /\ HandInv /\ FwdInv
  BY GroupStarts, HandStarts, FwdStarts DEF ArrivingInit

LEMMA BetweenStep ==
    ASSUME GroupInv, HandInv, FwdInv,
           [ArrivingNext]_<<part, vars, groupVars, handshakeVars, fwdVars, cursorVars, chatVars>>
    PROVE  GroupInv' /\ HandInv' /\ FwdInv'
<1>1. [GroupNext]_groupVars /\ [HandshakeNext]_handshakeVars /\ [ForwardNext]_fwdVars
  BY DEF ArrivingNext, Rests
<1> QED  BY <1>1, GroupStep, HandStep, FwdStep

\* Whatever overlaps, is lost or comes twice: the members of a group end with one list or have an
\* excuse, and who has left is out (groupSync.ts); what is put off until the capabilities of the
\* peer are known is taken up, and greetings that cross leave both with them (syncEngine.ts,
\* deviceRegistry.ts); what the sender of a forwarded message is told is true, and slots and
\* tunnels are as they should be (forward.go, transport.go).
THEOREM BetweenUsersHolds == ArrivingSpec => []BetweenUsersSound
<1>1. ArrivingInit => GroupInv /\ HandInv /\ FwdInv  BY BetweenStarts
<1>2. GroupInv /\ HandInv /\ FwdInv
          /\ [ArrivingNext]_<<part, vars, groupVars, handshakeVars, fwdVars, cursorVars, chatVars>>
      => GroupInv' /\ HandInv' /\ FwdInv'
  BY BetweenStep
<1>3. GroupInv /\ HandInv /\ FwdInv => BetweenUsersSound
  BY GroupsAreSound, HandshakeIsSound, ForwardIsSound DEF BetweenUsersSound
<1> QED  BY <1>1, <1>2, <1>3, PTL DEF ArrivingSpec

\* The run has either deaths of the worker or cleared proxies; here they meet: an answer stays true
\* and a slot is held by one request, also when the worker dies while its proxies are replaced
\* (forward.go, transport.go).
THEOREM ForwardingHolds == ForwardSpec => []ForwardSound
<1>1. ForwardInit => FwdInv  BY FwdStarts
<1>2. FwdInv /\ [ForwardNext]_fwdVars => FwdInv'  BY FwdStep
<1>3. FwdInv => ForwardSound  BY ForwardIsSound
<1> QED  BY <1>1, <1>2, <1>3, PTL DEF ForwardSpec
=============================================================================
