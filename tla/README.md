# A verification development for NKC

NKC is a peer-to-peer messenger: an Electron application (`src/src/main`), a
renderer that holds the conversations and their keys (`src/src`), and a Go worker
(`src/native/nkc-worker`) that owns the files, the Tor sockets and the offline
queue. This directory holds TLA+ models of the parts of it whose correctness
depends on the order of events, the TLC runs that check them and the TLAPS proofs
about them. Paths below are relative to the repository, which is `src/` here.

## 1. The system

### How a message travels

    renderer                       main process             worker           peer
    sendDirectEnvelope (ratchet)
    router.sendCiphertext
      -> outbox record (IndexedDB)
      -> transport.send  -------->  POST /onion/send
                                    onionController  ---->  forwardOnion --> POST /onion/ingest
                                                            (on failure)      inbox of the device
                                                            queue.enqueue       |
                                                            queue.flush  -----> |
    <- ack (outbox record deleted)                                              v
                                                                       GET /onion/inbox?after=
                                                                       shared poller, subscribers
                                                                       sync engine, ratchet

A record stays in the renderer's outbox until an acknowledgement arrives; the
worker's queue keeps what could not be forwarded, over restarts; the peer's
controller keeps what nobody has polled yet, in memory.

### Components and modules

| component | source | module | state it keeps, operations |
|---|---|---|---|
| offline queue | `nkc-worker/queue.go` | `OfflineQueue`, `AtomicStore` | the queue in memory, its file and backup, the proxy; open, setFriends, enqueue, setProxy, flush |
| receive store | `receive_store.go`, `preallocate_*.go` | `ReceiveStore` | part files, journals with the bitmap of chunks, open transfers; init, write, checkpoint, finalize, abort |
| forwarding and transport | `forward.go`, `transport.go` | `Forward` | clients per proxy, slots, tunnels; forward, fetch, clearProxy |
| worker client, queue manager, dispatch | `main/nativeWorkerClient.ts`, `main/nativeOfflineQueueManager.ts`, `main.go` | `WorkerClient` | child, pending requests, flush timer; start, stop, request, flushNow |
| onion controller, inbox client | `main/onionController.ts`, `net/onionInboxClient.ts`, `adapters/transports/onionRouterTransport.ts` | `OnionInbox`, `ProxyPool`, `OnionLink` | inboxes, totals, poller and cursor, pool of proxies, shown state; ingest, poll, cleanup, setTorSocksProxies, prewarm, start, stop |
| outbox and delivery | `delivery/`, `net/outboxScheduler.ts`, `storage/outboxStore.ts`, `policies/deliveryPolicy.ts`, `scheduler.go` | `Outbox` | outbox records, receipts; tick, send, acknowledge, expire |
| router and transports | `net/router.ts`, `net/transportManager.ts`, `net/directTransport.ts`, `net/onionTransport.ts` | `Router`, `ConversationLink` | started transports, waiting messages; sendCiphertext, connect, flush |
| internal onion routes | `net/internalOnion/` | `RouteManager` | route, hops, circuit, timers; sync, build, rebuild, keepalive, stop |
| Tor | `main/torManager.ts`, `main/onion/`, `net/tor/` | `TorManager`, `OnionInstall`, `TorRuntime`, `FriendCode` | process, versions on disk, pointer, the renderer's view of it; start, stop, install, update, uninstall |
| connection manager | `sync/connectionManager.ts` | `Reconnection` | connection, heartbeat, retry timer; open, ping, reconnect, stop |
| synchronisation engine | `sync/syncEngine.ts`, `sync/groupSync.ts` | `SyncFlow`, `Conversation`, `Handshake`, `Groups` | logs, sessions with their windows, context of a peer, groups; sync, ingest, greet |
| cryptography | `crypto/ratchet.ts` with `App.tsx` and the engine | `Conversation` | ratchet states; seal, open, store |
| friends | `friends/`, `App.tsx` | `Friendship`, `AddFriend`, `FriendCode` | profiles in the database and in the store, codes, limits, invites; add, answer, block, repeat |
| devices | `devices/`, `net/rendezvousSignaling.ts` | `DevicePairing`, `DirectLink`, `Handshake` | sync codes, approvals, signals, roles; publish, poll, approve, connect |
| vault | `crypto/sessionKeyring.ts`, `db/repo.ts`, `security/session.ts`, `security/pin.ts`, `App.tsx` | `Vault` | the key in memory, records, header, session, PIN; create, unlock, lock, rotate, wipe |
| media | `App.tsx`, `db/repo.ts`, `storage/mediaTransferStore.ts` | `MediaTransfer` | chunks, cursors, window; send, acknowledge, receive |
| read receipts | `components/ChatView.tsx`, `App.tsx`, `storage/receiptStore.ts` | `ReadCursors` | cursors and marks of both devices, throttle, pending cursor; view, tell, put, replay, restart |
| messages of a chat | `security/messageStore.ts`, `App.tsx`, `db/repo.ts` | `ChatHistory` | messages, log, tombstones, what is shown; save, hydrate, delete |
| lifecycle | `main.ts`, `main/appUpdater.ts` | `Background`, `AppUpdate` | timer, run, window, update status; sync, close, quit, check, download, install |

`PROJECT.json` has the same inventory with the parts that are left out, and the map from
definitions to lines.

### What is hard here

- Crashes between two file-system calls: the queue's `persist` and the receive
  store's part file, journal and rename each take several of them.
- Answers that come late or never: a POST that reached the peer and whose 200 was
  lost, an acknowledgement that arrives before `send` has returned, a report of a run
  that was given up.
- State read before an `await` and used after it: the outbox records of the
  scheduler, the poller's cursor, builds of routes, ratchet states, a friend's profile
  in the store and in the database, the registry of devices.
- Requests of one user that overlap with nothing to keep them apart: starts and stops of
  Tor, installations, updates, connections, deletions and hydrations, puts of a cursor.
- Counters and capacities: the retry cap, the inbox limits, the bytes of a device.

`PROJECT.json` lists each hazard with the line where it bites and the properties that
would catch it.

## 2. How the modules are built

Every module models one part of the program: its VARIABLES are the program's state (and a
few named histories, which no action reads except to record), an action is a handler or the
stretch between two awaits, and the module's header says what is abstracted. Node and the
renderer have one thread each, so a handler without an await is one action; in the worker
an operation that holds a lock is a sequence of file-system calls between which the
process may die and other transfers go on.

The definitions named after a slip (`RemoveOld`, `KeepBytes`, `PinFitsAnyVault`, ...) stand
next to the definition they could be mistaken for: with one of them in its place, a
property that is named in `PROJECT.json` fails. No action uses them.

Some correspondences that are not obvious:

- `OfflineQueue`: `mem` is `queueStore.state`, `cur` and `bak` are `path` and `path.bak`, `pc`
  is the call of `persist` or the place in the loops of `flush`. A failed POST may have stored
  the message at the peer. Time is a counter up to `Horizon`.
- `AtomicStore` says what the queue promises: a store whose save is one step. In `OfflineQueue`,
  `Atomic == INSTANCE AtomicStore WITH ...` maps `mem` to the memory, the file that a restart would
  read to `saved`, and "a backup is left that the next `persist` removes first" to `fragile`.
- `OnionInbox`: a request that the poller gave up may still be handled later (`ServeLate`);
  items carry their rank of arrival, which no action reads.
- `ReceiveStore`: `dir` and `data` are what the program sees, `safe` and `synced` what is there after a
  loss of power. Assumed of the file system: a sync of a file makes its content and the entry of
  a new file durable, a sync of the directory makes its entries durable, a rename is atomic.
- `Outbox`: one access to IndexedDB is one action; every transport calls the acknowledgement's
  handlers when its own send has succeeded, hence `Acknowledge` is part of `SendOk` and `FirstSent`.
- `Conversation`: a key is a term; an envelope opens if the terms are equal.
- `Vault`: a key is named by where it comes from. A rotation is a step per write.
- `ReadCursors`: a message is its time stamp; a put is the transactions of `putReadCursor`, which
  nothing keeps apart from other puts. `raced`, `causes` and `cut` are histories that say what has
  gone wrong: puts of the peer that overlapped; why the peer may not be told (a failed send, a
  restart, `pendingReadCursorRef` overtaken by a call for an older message); puts cut off by a restart.
- `ChatHistory`: `load` has one entry per call of `loadConversationMessages`, with what each of its
  transactions has listed; `removal` is how far `handleDeleteMessages` has got. `stale` says that
  the hydration that ended last had been overtaken by one that listed the store later;
  `clearChatHistory`, which leaves the log, is not modelled.
- `OnionInstall`: a job is one request of the renderer, `at` the await it is in.

## 3. What the runs check

| run | parts | what it shows |
|---|---|---|
| `queue_faults` | offline queue with one failing call and two crashes; adding friends | acknowledged messages are kept but for a named fault, receipts are true and final, a flush is in order and bounded, `persist` implements the atomic store; invites are used once, one profile per friend, attempts are spaced |
| `main` | offline queue without faults, worker client, proxy pool, Tor process, onion link, background work, updates | every message settles and has its friend listed; no worker is left and every request ends; the pool ends as the newest report; one Tor process, the last stop wins; the shell's state agrees with its timers |
| `delivery` | inbox with one device, routes, reconnection, friend requests, synchronisation | what is stored is shown or expires; one build at a time, a ready route is vouched for; a connection is watched or being taken up; friends by consent only; frames that are dropped have a cause; each with what must come in the end |
| `kept` | receive store, router, conversation, media, link, pairing, direct link, vault, installation | a durable promise is kept, final names hold whole files; the router keeps what was not taken; the ratchet opens what was not overtaken; cursors are exact; pairing needs an approval; one vault key; the current version stays startable |
| `outbox` | outbox, Tor runtime, friend codes | a record leaves for a cause, attempts are bounded, receipts follow; a start has its starter; codes are shown when ready; all of it settles |
| `inbox` | inbox with two devices, groups, handshake, forwarding, read receipts, messages of a chat | totals exact, order, once, nothing unread lost before the numbering restarts; lists agree but for named losses; roles are not lost; a queued forward is one copy; only what was viewed is told as read, and it is told; what is deleted stays away and nothing else vanishes |
| `receive_duplicate` | | **violated**: a repeated chunk is called checkpointed before any sync |
| `friend_answer` | | **violated**: a repeated request makes the program forget an answer it promised to repeat |
| `conversation_reply` | | **violated**: the first reply under a new key is dropped when the present chain is tried first |
| `pairing_ends` | | **violated**: the timer of a link request is cleared by the effect the request itself re-runs |
| `vault_logout` | | **violated**: a logout without a PIN or start key leaves data nothing can open |
| `forward_proxy` | | **violated**: a refused proxy is told as `upstream_error` |

Most runs hold several components. They share no variable; `part`, chosen at the beginning,
names the one that moves while the others stay in their initial states. So the behaviours
of a run are those of each component alone, the states add up instead of multiplying,
and an invariant of a component is checked in all of its states. Fairness is guarded by
`part`, so that a component that rests owes nothing. A `...Sound` invariant is the
conjunction of the component's type invariant and its safety properties, which
keep their names in the module.

### Bounds

In every run a bound cuts how often something happens (`MaxCrashes`, `MaxFaults`, `MaxRequests`,
`MaxSpawns`, `MaxJobs`, `MaxTakes`, ...), never where. `MaxAttempts` is 2 so that the cap, the backoff
and its limit are reached. Two crashes of the queue cover the case its code is weakest in: a
crash that leaves the backup only, then another in the next `persist`. One message is enqueued beside
the one an older store brings, so that both may be sent. In the inbox each of
the two totals refuses an item that the device's own limits would take (two ids do not exceed those), a page
holds less than the inbox, three arrivals let an index differ from a rank after a reset, and `MaxOthers`
bounds what other devices are sent; the `delivery` run, whose property excepts a reset, has two
arrivals and two abandoned requests. Two chunks are the least for which `durableThrough` and the bitmap
differ; two slots of requests the least that overlap; two hops the least for a build to be
overtaken between two hellos; three headers the least for a rotation of a rotated vault.
In the outbox one message already races with itself, and the first send tries one transport, after which
it may still write the record anew; `AttemptsAndReceipts` and `LeavingHasACause` hold for any number of them. Of
the router, `router` has the calls and `listener` the listener, for which the calls' only effect is that more is
started, as `Prewarmed` does too; `RouterHolds` is about both at once. Of the forwarding, the worker dies in one part
and proxies are cleared in another; `ForwardingHolds` lets both happen. Of the read receipts, two messages and two
overlapping puts let an older cursor overwrite a newer one; the run has them in two parts,
`reading` (the reader, from the start) and `told` (the peer, from the state in which all has been
mailed), which share `mailed` only, and so keeps the product of the two out of the state space; the theorem
`CursorsHold` lets the two interleave, for any number of messages. One message and two hydrations
let a deletion fall between any two of their reads; hydrations differ in nothing but their names, so the run takes
them as symmetric (its properties are invariants). Where a theorem states the property, the
bounds do not matter to it.

CHECK_DEADLOCK is off where a program may have ended, or all that was asked is done.

### Fairness

- `OfflineQueue`: weak fairness of the steps of an operation that holds the lock, of opening and
  of time; strong fairness of `FlushStart`, for the manager asks on every tick and the worker serves
  queue requests in order. A proxy stays set from some time on; a peer that refuses for ever
  is covered.
- `OnionInbox`: weak fairness of the timer, strong fairness of `Serve` and `Receive`: not every
  request of a running poller fails. Stopped pollers and deleted inboxes are excepted.
- `Outbox`: weak fairness of the steps of the tick, of `sendCiphertext` and of the handlers, strong
  fairness of planning with an answer. No access to the database fails.
- `WorkerClient`, `TorManager`, `RouteManager`, `Reconnection`, `SyncFlow`: timers that are set
  fire (`Deadline`, `HelloTimesOut`, `ReconnectTimer`, `RetryTimer`), and a process that was asked to end ends.
- `Friendship`, `FriendCode`: the schedulers repeat, handlers go on, and a frame that is not lost arrives.
- `TorRuntime`: the steps of a start, a stop and a send, and Tor boots unless it fails.

## 4. What is proved

All theorems hold for every value of the constants under the modules' ASSUMEs, which are types
of the constants and facts like "the model value for nothing is not a value". Most of them are about
a component's own specification. `ShellKeepsSound`, `ReadinessHolds`, `DevicesHold`, `MessagesHold`,
`ChatHolds` and `BetweenUsersHolds` are about the specification of the run, since each of their
properties joins several components: there the invariant is the conjunction of the components', and
a step of one part leaves the variables of the others alone.
Of the role events `HandshakeAssumption` says that there are finitely many, with natural numbers as time stamps.

An invariant is seldom inductive as it stands. The argument of each:

**Offline queue.** `TypeCorrect`: `FlightInv` adds that a message that may still be sent has an
attempt left and the message on its way is IN_FLIGHT. `ReceiptsHonest`: DELIVERED is only
written in the step in which the peer answers. `AcknowledgedSurvives` and `AcknowledgedIsKept`
rest on `KeepInv`: memory holds every acknowledged message while the worker runs, the current
file does whenever it exists, the backup does whenever it is the only file, and the stage of
`persist` agrees with the files; `CalmInv` adds that without a fault a readable file is there.
`ReceiptsAreFinal` (an action property) rests on `StickInv`: a loaded image is never behind
what has been delivered in memory but for the crash that the property names.
`FlushIsSound`: `CapInv` bounds the attempts counted in each image, `OrderInv` says
that what precedes the message on its way has been settled in this flush.
`NeverOrphaned`: an image is only extended together with its routes.
`PersistIsAtomic` is the refinement: every step of `OfflineQueue` is a step of `AtomicStore` under the
mapping or leaves its variables alone, from `KeepInv`; so the five calls of `persist`, its undo and
two crashes amount to one save, a loss of the fragile file, or nothing.

**Inbox.** `UnreadSurvives`: while the inbox has not been reset the item at position p has rank
baseIndex + p - 1 (`IndexInv`), so a cursor c says that the ranks up to c have been read;
this holds of the poller's cursor and every late request (`CursorInv`), and with its own items of
the page in an answer (`AnswerInv`).

**Receive store.** `Durability`: a chunk of the journal is backed by the part file, durably
(`JournalBacked`), a chunk of the bitmap that is not in the journal was written by this handle
(`BitmapWritten`), and each step of a checkpoint finds what the ones before it did
(`CheckpointInv`). `FinalNames` (`TransfersSound`) adds `ContentInv` and `NamedInv`: a finalize that has reached the
rename has a part whose chunks are all good and durable, so a final name never holds less.

**Outbox.** `AttemptsAndReceipts`: a plan writes back a count it read earlier, while
`sendCiphertext` may have put the record in between; `CountInv` bounds the attempts of a record
and those of an entry of the plan by the history of pickups, and the other way round.
`LeavingHasACause`: what is listed for deletion has a cause already (`CauseInv`), and causes
do not go away.

**Tor runtime and friend codes.** `ReadinessHolds` rests on `RuntimeInv`: the start that callers share
is under way, and unless several had waited for the same stop it is the only one (`SharedRuns`); what
a start has adopted is there unless a stop took it away (`AdoptedIsThere`). And on `CodeInv`:
what the renderer, a refresher, a code or a request has of an address was once the
service's of that user (`OnceTheService`).

**Main process.** `OneTorAtMost`: unless a process was slow to end, the manager knows the one
there is and whose end it waits for (`ProcessInv`), and a stop that crossed nothing leaves no start
behind (`StopHolds`). `PoolIsTheNewest`: the newest call has the newest report's proxies
(`NewestInv`), so the last to end, unless two overlapped, writes it. `WorkerIsServed`: the flush
that is waited for is a pending request (`FlushInv`), what is in the pipes is pending and in order
(`PipeInv`), queue requests follow an `init` that was answered (`OpenInv`), and a child that was
replaced has ended (`ProcInv`). `ShellKeepsSound`: the state shown agrees with the errors
counted (`LinkInv`, `PollInv`), each end of a run sets the timer again, and a downloaded update is
lost by a named cause only (`UpdateInv`).

**Delivery.** `RoutesAreVouchedFor`: a build that goes on awaits exactly one hello, of the newest
circuit, and the hops before it have been vouched for on that circuit (`BuildInv`); hops without a
peer come last (`HopsInOrder`; that the next hop to greet is the first without an answer needs
`FirstHop`, a least element by well-foundedness); what was pinged has been vouched for (`PingInv`).
`ConnectionIsWatched`: what is open is the manager's connection, what it holds has a heartbeat,
and one that wants a connection has it, decides, waits for its timer or connects (`ConnInv`).
`FriendsByConsentOnly`: whatever is written in either copy of a profile, in a handler or
on its way is backed by what the users have wanted (`ConsentInv`), until one undoes a block.

**Adding friends.** `AddingHolds` rests on `AddInv`: who waits for an invite and who holds it stand in its
queue, each once and the holder first (`QueueInv`), so that an invite which has made a friend is marked as
used or still held by the call that made him (`OnceInv`, unless an end of the program cut that call off);
every list of profiles, the ones that calls have read included, has each with the key it was made with
(`KeysInv`); a call that nobody overlapped works with the profiles on disk (`AloneInv`), and each key is put
off by as much as its failures demand (`SpacedInv`). The sum of growing delays is not a recursive function
but the cardinality of a set of rows and columns (`Waited`), which a failure extends by one row.

**Synchronisation.** `FlowHolds` rests on `FlowInv`: until a device ends, events are numbered by their places and
the newest lamport the reader has seen is that of an event it has (`NumberedInv`); what has left the
window of a session has been handled, and the window is not exceeded (`SessionOK`); a request asks from what the
reader has seen, an acknowledgement is of a handled chunk, and a chunk says no more about the log than
its last event or what the reader has seen (`FrameOf`).

**Conversation.** `ConversationHolds` rests on `ConvInv`: what is applied, stored or shown was opened, and what
was opened had been sent (`OpenedInv`); as long as a device has not written, the other knows no key of
it; and before the other has sent more than `RotateEvery` envelopes, all of them are under the first chain, and
every state of the reader, also one that an ingest works with, is that chain advanced to the last envelope
opened (`OneWayInv`).

**Router.** `RouterHolds`: a call that is trying has before it exactly what the setting
prescribes after the attempts made (`Attempts`), what the mode alone would not allow has been
allowed by an answer (`Allowed`), and nobody is passed over because the onion is not ready
(`NoneWaits`); the record that the first send and the retry write has the address of a device once it is
known (`RowInv`). The list of what is left is a sequence of at most two transports, which
`ShortSequences` makes accessible.

**Conversation's transport and files.** `MessagesHold`. *Connection* (`LinkInv`): the attempt that later
calls join is under way and, unless a disconnect met one, the only one, with no transport open beside it
(`AttemptInv`); a flush lists what is due and has handed over at most one of that before the record
is deleted (`FlushInv`). *Media* (`MediaInv`): the transfer that runs has stored its message, and
what it has read and not handed to a task lies behind the cursor (`PipeInv`); while nothing has
failed the tasks fit the window (`LaneInv`); an update of the cursors is the only one of its
file and what it has read still holds (`UpdateInv`), from which the cursors stay exact: that the new
`through` is again the longest prefix of what is acknowledged is `AcksJoin`; chunks are in
the outbox only after their message (`BegunInv`); the receiver saves a chunk of a message that is there, or one
whose deletion met the save (`ReceiverInv`).

**Devices.** `DevicesHold`. *Pairing* (`PairingInv`): a request that was taken has used its code up, and what is
shown, approved or stored was taken (`TakenInv`); a guest is told of an approval only if there was one
(`ToldInv`), however messages are repeated or come late. *Direct link* (`DirectInv`): what one side knows of the other's
signals has been made by it, what waits or was added has been handled (`SignalsMade`); a session
that handles signals has a connection and a poll under way has a session or is late (`SessionInv`);
what is on the wire is in a form that the receiver said it knows (`FormInv`).

**Kept.** `OneVaultKey` and `ResetsHaveACause`: before, in and after a rotation each record is under
the old key, listed to be written, or under the new one (`RecordInv`); without a harm the stored
identifier and the session are those of the records' key (`IdInv`); the key of another start
key never gets into memory, a session or a PIN (`KeyInv`); a rotation that was not left goes on in an open
vault (`OpenVault`). `CurrentStaysWhole`: one request at a time changes the directories, and
what it may set the pointer to, going forward or back, is whole (`TargetInv`, `AloneInv`); while no
two requests met, the process that runs is the one held or being stopped (`HeldInv`, `StartsInv`).

**Between users.** `BetweenUsersHolds` is proved from an invariant for each of three components.
*Groups* (`GroupInv`): what a user keeps and sees of the group, and what the letters say, is sensible
(`ViewsSensible`); before the group is created nobody has it (`Uncreated`); and as long as no two
operations were mixed and no letter was missed there is one list that everybody in it has, or
will have when the letter to him is read (`OneList`). *Handshake* (`HandInv`): unless excused,
a role event that was heard is in the registry, put off, or in the hands of a handler, and no
handler works with a registry that is ahead of the stored one (`RolesInHand`); each connection
greets under a nonce of its own (`NoncesAreOwn`); a side without the capabilities is about to greet or
has a greeting or an answer on its way (`AnswerComes`). That a handler takes up all that was put off,
in order, is `AllInOrder`, a fact about sequences over finite sets. *Forwarding* (`FwdInv`): what
a sender was told agrees with where the message is (`Honest`), and each slot is held by a
request whose client was made after its proxy was last cleared (`SlotsHeld`).

**Read receipts and chat.** `ChatHolds` rests on `CursorInv`: everything on its way was viewed
(`FromView`); without a cause, what is read is covered by what is mailed, leaving or pending, or by
a call (`Told`); until puts of the peer overlap, each has read the cursor that is there
(`UpToDate`). And on `HistoryInv`: a hydration past the tombstones knows all of them but those that
came later, which are noted (`StonesKnown`); what it listed whole it finds, and the store still has
it unless it is being deleted (`RowsKept`); of two hydrations one listed the store first, and the
later one has what the earlier one has, unless the history says that it was passed (`InTurn`).

### Only model-checked

- Liveness (`EveryMessageSettles`, `WorkerSettles`, `StatusSettles`, `StoredIsShown`,
  `ReconnectingEnds`, `FriendshipConverges`, `FlowEnds`, `EveryRecordSettles`, `SendsSettle`): fairness is
  out of the prover's reach.
- `InboxSound`: the totals that `TotalsExact` compares, and the ids of a page that are handed on, are
  folds, about which the library has no theorem. What a reset may lose of the same inbox is proved
  (`UnreadSurvives`).

## 5. What the checks found

1. `receive_duplicate`: a repeated chunk is answered `checkpointed: true` from memory
   (`receive_store.go:219`), before any sync.
2. `friend_answer`: `upsertFriendFromRequest` clears `pendingFriendResponse` for a repeated
   request (`syncEngine.ts:603`).
3. `conversation_reply`: `tryRecvDhKey` takes the first candidate that reaches the index
   (`ratchet.ts:313`).
4. `pairing_ends`: the effect's cleanup clears the timer of the request that has just been made
   (`useDeviceSyncSettings.ts:309`).
5. `vault_logout`: the random key of a new vault is only in the session (`App.tsx:1427`).
6. `forward_proxy`: `normalizeForwardError` does not know the codes `fetch` has already made of
   the errors (`forward.go:122`).

Seen while modelling, not stated by the repository and so not runs (the properties name
them as causes where they matter):

- Queue and worker: a message caught IN_FLIGHT by a death is never sent again; `persist` does not
  sync; runtime errors of a stopped transport leave its error status.
- Receive store: a journal that outlived its part (abort or finalize, then a crash) vouches for an
  empty one; two transfers of the same name overwrite each other.
- Inbox: a deleted inbox restarts its numbering under a poller that keeps its cursor; a start does
  not reset the streak of errors, and overlapping starts leave two pollers.
- Outbox: demotion of an overdue record overwrites a later acknowledgement; a failing update leaves an
  id in `inFlight` for good; acknowledgements of media mean that a transport took the chunk.
- Router and links: the router's direct transport is never signalled; a retry of a message stored
  under a friend's alias without a known device is refused for good; a queued message that is due
  after the flush waits for the next connection; failed direct transports are not closed; a
  disconnect that overlaps a connect leaves a transport open.
- Tor: a start that waited for a stop does not look again; a late adoption makes a stopped runtime
  ready; a rejected `startTor` leaves it starting; overlapping sends and recoveries can stop each
  other's Tor for ever; the status stays "running" after Tor has exited; overlapping requests of the
  installation are not kept apart; reinstalling the current version removes it before it unpacks.
- Forwarding: every permanent refusal is `upstream_error` and is queued and retried; the branches
  `ingest_failed:*` cannot be reached; an enqueue whose `persist` fails answers 502 while the message stays
  in the queue's memory; a caller that gives up may repeat what is still being forwarded.
- Connection manager: only `P2PSyncOrchestrator` uses it, and only tests create one.
- Friends and groups: both users' addresses outdated means that nobody is heard; overlapping
  additions can make two profiles; the limiter counts legacy codes without gating them; lists of a
  group can differ and nobody repairs them.
- Devices: the registry's read, change and write loses one of two role events; the handler of an ACK
  deletes the nonce of a connection begun meanwhile; the session of a pairing falls back from
  connected to exchanging.
- Media: the status "failed" is never set, transfers are not taken up again after a restart, and a
  chunk that overtakes its message is refused for good.
- Read receipts and chat: puts of a cursor that overlap may set it back (`receiptStore.ts:21`); the send time of a
  cursor is noted before the send, and a pending cursor can be overtaken by an older one; clearing a
  chat leaves its log, so that a replay brings the messages back.
- Lifecycle: the status shown in the tray is the last writer's; a check that overlaps a download can
  take "downloaded" away.

## 6. Not modelled

Payloads, addresses, manifests, hashes as bytes, error texts and their wording, the HTTP and SOCKS
codecs, cryptographic primitives, the ratchet's version 1, builds without updates, repairs on macOS,
the user interface but for the handlers named in the map. A loss of power under the offline queue.
`PROJECT.json` gives the reason for each component that is partly modelled or left out.

## 7. Plan

Next, most important first:

1. `InboxSound`, the one invariant that only TLC checks: first facts about the two folds, then the order
   and idempotence of what is handed on (`InArrivalOrder`, `HandledOnce`) and the totals.
2. An abstract mailbox with a confirmed prefix that `OnionInbox` implements while it is not reset,
   as `OfflineQueue` implements `AtomicStore`.
