# A TLA+ model of LiveKit Kit's session core

This directory holds TLA+ specifications of the parts of the meeting client
(`src/` of the repository) that decide whether a session is connected, who owns
its native resources, when everything of it has been released, and what the two
ends of a session know of each other: requests and events over a connection that
is replaced, the tracks it publishes, subscriptions over a recovery, and the shared
whiteboard. Each module
is checked on small instances with TLC; the main safety properties are proved
with TLAPS for every value of the constants.

Paths below are relative to `src/src/` unless they begin with `tests/`.

1. Inventory of the system
2. Modules, and how they correspond to the code
3. Runs, bounds and what they show
4. Fairness
5. Proofs
6. Findings
7. What is not modelled
8. Plan

To repeat the work: `tlc -config X.cfg M_MC.tla` for a configuration `X.cfg` of
module `M`, and `tlapm M_proofs.tla` for the proofs.

## 1. Inventory of the system

The application joins a LiveKit room. A Qt thread runs the user interface; a
`MeetingCoordinator` creates, for each meeting, one io thread
(`core/meeting_coordinator.cpp:3335`) and one `Room` on it; WebRTC calls back on
its own signaling and worker threads; when the meeting ends a cleanup job runs
on the worker thread of `SessionShutdownService` and calls `Room::Retire`
(`core/meeting_coordinator.cpp:3661`). The room keeps its shared state under
`room_mutex_` and marks it with a *session generation*; a coroutine that comes
back from an await compares the generation it started with before it touches
anything.

| Component | State | Operations | Talks to | Hard behaviour | What makes it correct |
|---|---|---|---|---|---|
| **Room: connection lifecycle** (`core/room.cpp`) | `connection_state_`, `session_generation_`, `installed_session_generation_`, the signal client and peer connections, `reconnect_*`, `server_disconnect_finalizing_`, `suppress_next_connected_event_`, `callback_gate_` | `ConnectAsync`, `Disconnect`, Close and LeaveRequest handlers, `AttemptReconnect`, `FinalizeServerDisconnectAsync`, `Retire` | signal client (messages, Close), WebRTC, listener | each is several critical sections with awaits between; any other may run in between; failures roll back; retries, a total deadline | the state belongs to the session that owns the resources; nothing leaks; the user's and the server's last word is final; recovery ends; retirement drains |
| **Executor gate and single-shot operations** (`core/executor_lifetime.h`, `core/operation.h`) | admission, in-flight count, registered cancellations, one callback, a timer | `Post`, `TryEnter`, `PostCompletion`, `RegisterCancellation`, `Close`, `WaitForDrain`, `Complete`, `AwaitResult`, `CompleteAwaitable` | every component that leaves a callback with native code | native threads, timers and `Close` complete the same operation | exactly once; none lost; nothing after the drain |
| **Session shutdown service** (`core/session_shutdown_service.h`) | job queue, pending count, failed cleanups, drain and stopped callbacks | `Submit`, `SubmitCleanup`, `DrainAsync`, `ShutdownAsync`, the worker | Qt event queue | two threads and a queue; a cleanup that throws keeps native threads | stopped comes last; failed cleanups are never reported released; every caller is answered |
| **Signal client** (`signal/signal_client.cpp`) | queued requests, event buffer, `reconnecting_`, `event_ready_` | `Connect`, `Restart`, `Send`, `SetReconnected`, `SetEventReady`, `Close` | WebSocket below, room above | flags read outside the mutex of the queue they guard | requests are not lost or reordered across a resume; every buffered message is delivered, in order; one Close per transport |
| **WebSocket client, regions** (`signal/websocket_client.cpp`, `region_provider.cpp`) | socket, ping state, region list | connect, write queue, close handshake | network | timeouts, half-closed streams | a stream closes once |
| **WebRTC manager** (`rtc/webrtc_manager.cpp`) | factory, SDP observers | create offer/answer, set descriptions | signaling thread | observers outlive their caller | a late answer completes nothing |
| **Room: publication of local tracks** (`core/room.cpp` 5245-5985, 6509-6951, 8906-9133, 10412-10465) | publications, pending publishes and unpublishes, published-track records, senders, `negotiation_state_` and its waiters | `PublishLocalTrackAsync`, `UnpublishLocalTrackAsync`, `NegotiatePublisherAsync`, `RecordPublishedTracks`, `RepublishLocalTracks` | server, the signaling thread, recovery | transactions of several awaits that share negotiation rounds, overtaken by time, failure, resume or restart | commits rest on an answer to their own change; every sender has an owner; both sides agree at rest; what was removed stays removed, what was published survives |
| **Room: remote publications and subscriptions** | catalog, intents, barriers, pending tracks | update handlers, `DrainSubscriptionUpdates` | server, UI | order of updates and media tracks; resynchronisation after a resume | what was sent converges to what is wanted |
| **Room: RPC** (`rpc/rpc_types.h`) | pending requests | request, ack, response, timeout | data channel | response against timeout | one outcome per request |
| **Data streams** (`core/data_stream*.cpp`) | open readers, received chunks | header, chunk, trailer | data channel | duplicates, limits, a sender that leaves | a stream ends once, complete or failed |
| **Meeting coordinator and session runtime** (`core/meeting_coordinator.cpp`, `meeting_startup_transaction.h`) | session owner, io thread, generation, start-up stages | start, leave, cleanup job | all of the above | the cleanup job waits for the io strand, the drain and the thread | no wait for itself; the previous session is gone before native state is reused |
| **Screen share session** | stages of a share | start, stop, fail | capture, publication | stop during start | capture never outlives its publication |
| **Video demand policy, adaptive streams** | wanted quality per tile | pure decisions with hysteresis | UI, room | order of samples | stable decisions |
| **Whiteboard** (`core/whiteboard/`) | document, peers, snapshots | operations, snapshot exchange | data channel | reordered and lost operations | replicas converge |
| **Meeting catalog, accounts, HTTP** (`net/`) | tokens, lists | login, refresh, requests | server | stale replies | a reply of an old account changes nothing |
| **Media capture and playout, E2EE, telemetry, rendering and UI, application entry** | devices, keys, counters, widgets | I/O | - | threads of the platform | outside the session protocol |

The 40 hazards of this code, each at the line where it bites, with the
properties that cover it or the reason none does, are listed in
`PROJECT.json`.

## 2. Modules, and how they correspond to the code

| Module | Models |
|---|---|
| `DrainGate` | What retirement promises: admission until closed, drained only when closed and empty |
| `RoomLifecycle` | The connection lifecycle of `Room` |
| `ExecutorGate` | `ExecutorCallbackGate`, `CancellableExecutorCallback`, `AwaitableState` |
| `ShutdownService` | `SessionShutdownService` |
| `SignalClient` | The signal connection: request queue, event buffer, heartbeat, and the resume that runs over it |
| `SubscriptionSync` | What the room wants of remote tracks, and how the server learns of it over recoveries |
| `LocalPublication` | Publishing and unpublishing tracks: the transactions, the negotiation they share, and what a recovery does with both |
| `WhiteboardDocument` | The whiteboard document as a value: `Document::apply` and the content snapshot |
| `Whiteboard` | The collaboration protocol of the whiteboard between the host and its guests |
| `*_MC` | Instances for TLC (the sets are model values given in the `.cfg`) |
| `*_proofs` | Theorems and proofs |

`PROJECT.json` maps every definition to its lines. Definitions headed
*Faulty variant* are not part of a specification: each is a plausible bug of the
definition that follows it, and shows that some property notices it.

### RoomLifecycle

One action is one critical section of `room_mutex_`, or one await and what
follows it up to the next. This is finer than the application's single io
thread, because `Disconnect` is public and takes the mutex from any thread, and
because `Retire` does run on another thread. What the coroutines wait for (the signal join, ICE, the data channel)
is reduced to "it succeeds" or "it throws"; a coroutine keeps what the code's
locals keep: its generation, `restart_connect`, `notify_connected`, `attempts`,
`full_restart`, `restart_connect_generation`.

| Actions | Code |
|---|---|
| `ConnectStart` ... `ConnectReturn`, `ConnectThrows`, `ConnectRollback` | `ConnectAsync`, room.cpp:1642-2103 |
| `TearDownForUser`, `Disconnect`, `CloseDetached`, `DeliverDisconnected` | `Disconnect`: its critical section, what it closes after it, and its callback, room.cpp:2105-2379 |
| `AdmitListener`, `Deliver`, `ListenerCalled` | `DeliverLifecycleListenerEvent` and `DeliverListener`: the admission under the mutex and the call outside it, room.cpp:546-557 and 637-673, room.h:428-442 |
| `CloseStartsReconnect`, `CloseFailsConnect`, `CloseElsewhere`, `CloseDisconnects` | the Close handler by the state it finds, room.cpp:7700-7836 |
| `BeginServerDisconnect`, `IgnoreLeave`, `FinalizeServerDisconnect` | LeaveRequest and its finalizer, room.cpp:7909-7937 and 2381-2521 |
| `ReconnectBegins` ... `GiveUp`, `AnnounceOutcome` | `AttemptReconnect`, room.cpp:9517-10083 |
| `RetireBegins`, `RetireDisconnects`, `RetireDrained` | `Retire`, room.cpp:679-698 |
| `TransportCloses`, `ServerSendsLeave`, `EventReady` | what the room sees of `signal_client.cpp` |

Things to know when comparing it with the code:

- A generation is a number; `installed = 0` and `native = 0` mean that there is
  no bundle and no peer connection. `open` holds the generations whose signal
  client has not been closed, so that a client held only by a coroutine's local
  is visible.
- The application calls `Connect` only after the previous session has ended
  (guard `Calls`). This is how `MeetingCoordinator` uses the class, which makes
  a new `Room` per meeting; the model is more permissive.
- A teardown empties the room under the mutex and closes what it took after
  releasing it: `Disconnect` on its thread (room.cpp:2183-2224), the finalizer of a
  leave on the executor (2502-2511), `Retire` on the worker. Neither of the first
  two holds an admission of `callback_gate_`. The bundles between the two steps are
  in `detached`, with who took them (`by`, 0 for `Retire`), and `CloseDetached` is
  the second step. An admitted coroutine that takes a bundle out of the room closes it
  before it goes on; `Retire` waits for that coroutine, and the two are one step.
  `DisconnectAsync` (2240-2379) differs from `Disconnect` in yielding between the
  same two parts, and is the same two actions.
- A callback is admitted under the mutex (`AdmitListener`, `told`) and made outside
  it (`calls`, then `heard`). The executor is one thread, the `io_context` of a
  meeting: while it is in the listener nothing else of it runs (`ExecutorBusy`). Only
  `Disconnect` calls the listener on a thread of its own (room.cpp:2226-2236), and its
  callback may come before, between or after the others. On a pool of threads any two
  callbacks could also change places between the mutex and the listener; the source
  promises no more (room.h:437-438: "Admission is the linearization point. An
  admitted invocation may finish"). Of the listeners only the one for lifecycle events
  is modelled, and it does not call the room back.
- Between two sections of a coroutine anything may run, also where the code has no
  await between them. A connect, a restart and a handler can therefore meet at places
  where on one thread they cannot; a property that holds here holds there.
- Setting `retired_` and closing the gate are one step (`RetireBegins`).
- The branch `restart_connect_generation == 0` of the failed restart
  (room.cpp:9966-9971) is reached only if the teardown itself throws before
  `ConnectAsync` is called; the teardown is one step here and does not throw.
- Reconnectors are drawn from a finite set; the instances have as many of them
  as Closes that can spawn one.
- `told`, `heard` and `ended` are observations: the last callback admitted, the last
  one the listener got, and who ended the session. `farewells` are `OnDisconnected`
  deliveries on their way, `goodbyes` those of them that a `Disconnect` makes.

### ExecutorGate

Calls enter the gate, do one thing and leave. There are three kinds: a posted
callback; the creator of a `CancellableExecutorCallback` (the SDP observers of
`webrtc_manager.cpp`, the operations of the room); and a coroutine that awaits
an `AwaitableState` with a timeout while its work runs on the signaling thread
(`Room::AddTrackToPublisherAsync`, room.cpp:5323-5609). One action is one
critical section of the mutex of the gate, of a completion or of a state. The
timer is modelled at the granularity at which it can lose a wake-up:
`expires_after`, `async_wait` and `cancel` are separate steps, and a cancel that
falls between the first two cancels nothing. Native code promises nothing: it
may answer early, late or never.

Not in the model: a completion destroyed without being completed, the expiry of
a weak gate, and a completion created from within a posted completion's callback
(it behaves as one created by a call that is inside).

### ShutdownService

One action is one critical section of `State::mutex`, one post to the Qt event
queue or one callback on the Qt thread. A job returns or throws; a cleanup that
throws is kept in `failed_jobs` and stays counted. `SubmitCleanup` after the
worker has committed to leave calls `std::terminate`: not doing so is the
application's contract and a guard here. `status`, `called` and `owed` are
observations. The destructor and the closing of the endpoint at `aboutToQuit`
end the process and are not modelled.

### SignalClient

`SignalClient` and `Room` share one io thread, so that an action is what that
thread does between two suspensions; only the WebRTC signaling thread, which
sends ICE candidates through the same client, interleaves inside `Send`. A link
is one WebSocket. `link.held` says whether `stream_` is it, or whether only the
local of the resume holds it.

| Actions | Code |
|---|---|
| `Send`, `StreamSend`, `SendAsync`, `SendTrickle`, `NativeFlush`, `FlushQueue` | `Send`, `SendAsync`, `SendRawFrame`, `FlushQueue`, signal_client.cpp:357-530 |
| `Receive`, `HandleIncomingMessage`, `BufferEvent` | the two message handlers, before and after the stream is installed |
| `NoticeError`, `PingTimeout`, `HandleClose`, `Disconnect` | the read and write loops, the heartbeat, `HandleClose`, `Close` |
| `Restart`, `StreamClosed`, `Connected`, `StreamReplaced` | `Restart` and `ReconnectInternal`, signal_client.cpp:310-355 and 700-850 |
| `SendSyncState`, `SyncStateSent`, `ResumeCommits`, `ResumeStepFails` | the resume branch of `AttemptReconnect` in room.cpp |

`SendRawFrame` never throws when the socket is disconnected. The `catch` of
`Send` that queues the request again, and that of `FlushQueue`, are therefore
never taken, and what is given to a dying socket is lost although `SendAsync`
completes; this is why the requests are shown to be in order and not complete.
The flush made by the heartbeat, and that of `Send` itself, find an empty queue
(`QueuedOnlyWhileDown`) and are not actions. `wire`, `received`, `delivered` and
`ignored` are observations.

### SubscriptionSync

One action is one section of `room_mutex_`, or what a coroutine does between two
awaits. A track has an intent with a revision; the code's revision counter is one
for all tracks, and only equality of revisions of the same track is ever tested.
A drain is one coroutine of `DrainSubscriptionUpdates`; a coroutine whose
operation number or session generation is no longer the current one is kept, with
`current = FALSE`, until it returns, because it still records what it sent.

| Actions | Code |
|---|---|
| `SetSubscribed`, `SetSettings` | `QueueRemotePublicationControl` |
| `ApplyRemoteMediaPlan`, `OnIceConnected`, `HandshakeTimesOut` | the media plan and the recovery handshake |
| `Queued`, `Schedule`, `DrainEnds`, `DrainSends`, `DrainThrows`, `DrainSent` | `QueueSubscriptionUpdateLocked`, `ScheduleSubscriptionDrainLocked`, `DrainSubscriptionUpdates`, room.cpp:4400-4643 |
| `Close` | `PauseSubscriptionSendingLocked` and the Close handler |
| `BuildSyncState`, `SendSyncState`, `ResumeCommits` | `BuildSyncState`, `FinishSubscriptionRecoveryLocked` and the resume |
| `FullRestart`, `Rejoin`, `RestartCommits` | the full restart, `ResetSubscriptionSessionLocked` |

The server is external: it takes every subscription from a SyncState and keeps
the settings it had; to a session joined anew it gives the tracks of
`auto_subscribe` with default settings. A send is one hop to the strand of the
socket and back (`websocket_client.cpp:298-306`); a hop ends long before a new
connection is made, which is the guard `drains = {}` of `BuildSyncState` and
`Rejoin`. A Close between the commit of a restart's connect and the commit of the
restart is left to `RoomLifecycle`. `DrainThrows` needs a Connected room whose
signal is dead, the state `SignalClient` reaches.

### LocalPublication

A transaction is a record of `ops`, in the order they began, with the stage its
coroutine waits in. One action is one turn of the executor (what the coroutine does
between two awaits) or one task of the WebRTC signaling thread; `tasks` is the FIFO
of that thread. Everything the transactions have in common is below: one publisher
connection, one `negotiation_state_`, one set of waiters, one reconnection.

| Actions | Code |
|---|---|
| `Publish`, `Acknowledge`, `PostInstall`, `Install`, `NegotiateTrack`, `CommitPublish`, `RollBack` | `PublishLocalTrackAsync` with its catch, `AddTrackToPublisherAsync` |
| `Unpublish`, `RemoveSenders`, `NegotiateRemoval`, `CommitUnpublish`, `UnpublishFails` | `UnpublishLocalTrackAsync` with its catch |
| `Negotiate`, `CreateOffer`, `SendOffer`, `ApplyAnswer`, `RefuseAnswer`, `RetryTimer`, `Complete` | `NegotiatePublisherAsync`, `ExecuteNegotiatePublisher`, `HandleAnswerSignal`, `CompleteNegotiation` |
| `BreakLink`, `NoticeClose`, `StartReconnect` ... `CommitResume` | the Close handler and the resume of `AttemptReconnect`, `RecordPublishedTracks`, `RestartIceConnections` |
| `Restart`, `GiveUp`, `Rejoin`, `Republish`, `RestartFails`, `CommitRestart` | the full restart, `TakePendingOperationsLocked`, `RepublishLocalTracks` |

- `CreateOffer` and `SetLocalDescription` may fail (`OfferFails`, `SetLocalFails`,
  room.cpp:6859-6884). `OnNegotiationFailed` then fails everyone who waits and resets
  the negotiation to Idle: nobody asks for another round, also not for the one that was
  queued behind, and the connection is stable. `missed` is an observation: what an offer
  that failed left the server without, until the next offer is made of all senders or
  the connection is given up.
- A sender and the publication made of it have the number of the transaction that
  installed the sender. An offer and an answer are the set of senders they speak of.
- A round of negotiation serves whoever waits when its answer comes. A request made
  during a round turns `InProgress` into `PendingRetry`, and the answer then begins
  another round and completes nobody: `CommitsAreNegotiated` is about this.
- `Timeout` is every wait of the two coroutines (`WaitAwaitable`), and the refusal of
  a scalability mode after the negotiation, which takes the same way out.
- `RecoveryEnds` of `RoomLifecycle` is what the recovery here is cut from: one
  coroutine, its attempts and deadline, a resume that may fail at any step.
- `removed` and `calm` are observations: the transaction has found its sender gone,
  and no recovery was active when it committed (a publish) or began (an unpublish).

### Whiteboard

`WhiteboardDocument` is a pure module: a document is a value and `Apply` gives a
status and the next document. `Whiteboard` adds the authority, which orders the
commands, and its replicas. One action is one call of the `Runtime`, which the
strand of the session runs to its end. Messages go through a FIFO link in each
direction with a bounded buffer; what does not fit is dropped and the sender is
told.

| Definitions | Code |
|---|---|
| `Apply`, `AddObject` ... `SelectPage`, `Content`, `Restore` | `whiteboard_document.cpp` |
| `ProposeLocally`, `ProposeRemotely`, `SetLocked`, `SetWriters` | `propose`, `setLocked`, `setWriters` |
| `AuthoritySyncs`, `AuthorityRepeats`, `AuthorityCommits`, `AuthorityRejects`, `Recovery` | `receive` of the authority, `commitProposal`, `sendRecovery`, `sendSnapshot` |
| `ReplicaDescriptor` ... `ReplicaReject`, `ApplyEntry` | `receive` of a replica, `applyEntry`, `receiveSnapshot` |
| `Heartbeat`, `Retry`, `AuthoritySilent` | `tick` |
| `Join`, `Leave`, `AuthorityLeaves`, `PeerLeft`, `Interrupted`, `*Reconnected` | `start`, `retire`, `peerLeft`, `setTransportReady` |

- The program always leaves the set of writers empty (`setWriters` is called with
  an empty set or a wildcard), so that who may write is one Boolean.
- The code has no throttle on `requestSync`; every message a replica cannot use
  makes it ask again.
- `commits` and `past` are observations; `builtAt` marks the sequence a command
  was built on and is not part of the message.

### How they fit together

`DrainGate` is the abstract specification both sides meet at. `ExecutorGate`
implements it: the code of the gate admits nothing after `Close` and reports the
drain only when nothing is inside. `RoomLifecycle` uses the gate by its promise
(a call is inside from its admission to its end; `RetireDrained` needs the inside
to be empty) and is itself shown to implement `DrainGate`, with "inside" being
every connect, reconnector and Close handler of the room. `ShutdownService` is
the thread on which `Retire` runs; its composition with the room is planned.
`SignalClient` and `SubscriptionSync` each look at one resume of `RoomLifecycle`
in detail: the first at what happens to requests and events, the second at what
happens to the subscriptions; `LocalPublication` looks at what a resume and a
restart do to the other direction. They meet in two assumptions that one makes and
another shows: a Close while the room is Reconnecting is ignored, and a room may
be Connected over a dead signal. The whiteboard uses the reliable data channel of
the room and nothing else of it.

## 3. Runs, bounds and what they show

| Run | Instance | States | Shows |
|---|---|---|---|
| `RoomLifecycle` | 2 connects (interchangeable), 1 reconnector with 2 attempts, 1 transport close, 1 LeaveRequest, 1 Disconnect, Retire | 2.04 M | Ownership: `StateOwnsSession`, `StaleBundleHasOwner`, `NoOrphanSignal`, `DrainedIsQuiet`, `NoReconnectedAfterDisconnected`, and `RetiresLikeAGate` (refinement of `DrainGate`) |
| `RoomRecovery` | 1 connect, 2 reconnectors with 2 attempts, 2 transport closes, 1 LeaveRequest, Retire; fair | 0.41 M | `OneReconnector`, `ServerLeaveIsFinal`, `RecoveryEnds`, `RetireDrains` |
| `RoomStuckRecovery` | 1 connect, 2 reconnectors with the 5 attempts of the code, 2 closes; fair | - | `RecoveryConcludes` is violated: finding 1 |
| `ExecutorGate` | 1 posted callback, 2 completions, 1 wait; fair | 0.49 M | `CloseCancelsAll`, `DrainedIsFinal`, `CompletesOnce`, `LateAnswersAreUndone`, `IsDrainGate`, `CloseDrains` |
| `ShutdownService` | 1 job, 2 cleanups, 1 drain, 2 stops; fair | 0.08 M | `StoppedIsLast`, `ShutdownCompletes`, `DrainCompletes` |
| `SignalClient` | 3 requests, 2 events, 2 links that die, 2 candidates; fair | 0.33 M | `RequestsInOrder`, `QueuedOnlyWhileDown`, `EventsInOrder`, `DeathIsNoticed` |
| `SignalDead` | 1 request, 2 links that die; fair | - | violation: finding 3 |
| `SubscriptionSync` | a camera and a microphone, 2 revisions, 2 faults; fair | 0.61 M | `ServerFollowsOrOvertaken`, `SyncBeforeUpdates`, `UpdatesDrain` |
| `LocalPublication` | 2 tracks, 2 publishes, 1 unpublish, 1 fault, 2 attempts of a recovery, two peer connections; fair | 0.36 M | `CommitsAreNegotiated`, `SendersAreOwned`, `ServerReconciled`, `RemovedStaysRemoved`, `PublicationsSurvive`, `NegotiationSettles` |
| `Whiteboard` | host and guest, 1 command of the host (an object or a new page) and 3 of the guest, no locks and no faults, log, proposal table and delta of one entry, links of 2 messages, eager timers | 0.21 M | `Agreement`, `CommittedOnce`, `BarrierRespected` |
| `WhiteboardRecovery` | host and guest, 1 command each, 1 change of permissions, 2 joins, 1 interruption or silence; fair | 0.07 M | `ProposalEnds`, `CatchesUpOrIsStuck` |
| `WhiteboardLateJoiner` | host with 3 commands, a guest that joins late; fair | - | violation: finding 2 |

`SignalClient`, `LocalPublication` and `Whiteboard` also check their `TypeOK`. What
is proved for every instance is not run once more where the run would say nothing
else: the type invariants of `RoomLifecycle`, `ExecutorGate` and `ShutdownService`,
and `ConnectingHasDriver`, `NativeBelongsToBundle`, `InFlightIsExact`,
`PendingIsExact` and `ExitedIsEmpty`, are stated by theorems only (section 5).

Why the bounds are enough for what the runs ask:

- Two connects give a call that is overtaken and the one that overtakes it. Two
  reconnectors are the two a quick pair of Closes spawns. Two attempts give a
  resume and a full restart in one recovery (the code's limit is larger, and a
  third attempt does what the second does). One Disconnect and one LeaveRequest
  meet every other action. The proofs lift the safety properties to any number.
- `DrainedIsQuiet` says what `Retire` may rely on when `WaitForDrain` has returned: the
  room is down, no attempt and no callback is under way, and each client still open
  was taken by a teardown that `Retire` found already under way. That one may still be
  closing it, so that "nothing is open" would be false. The contract of `Retire`
  (room.h:217-220) makes the owner "release its work guard and join the naturally
  drained I/O runner before releasing context", which waits for the finalizer of a
  leave; a `Disconnect` on another thread is for its caller to wait for.
  `RetireDrains` adds that in the end nothing is open.
- `NoReconnectedAfterDisconnected` is about the admissions, whoever makes them, and
  about what the listener hears after an `OnDisconnected` of the executor. An
  `OnReconnected` that was admitted first may arrive after the `OnDisconnected` that
  `Disconnect` delivers on its own thread.
- `RecoveryEnds` asks that again and again no reconnector runs and the room is then not
  Reconnecting, unless a recovery that has ended still owns it. That exception is
  finding 1, and `RoomStuckRecovery` asks for the rest: every Reconnecting room gets out
  of it. Its run has the five attempts of `kMaxReconnectAttempts`, so that the recovery is
  not ended by their number.
- `ServerLeaveIsFinal` speaks of a room nobody has called Disconnect on, and its run
  has no Disconnects. After one it need not hold: the rebuild that passes for a fresh
  connect after a Disconnect (the first note of section 6) may join again after a
  leave of the session that followed.
- For the gate, two completions let `Close` hold a batch with one cancelled and
  one still racing; one wait has two wakers (native code, `Close`) and a timer.
- For the service, two cleanups give one that fails and one that does not, and
  two stops give one before and one after the worker has left.

- For the signal client, two links that die give one that dies under a session
  and one that dies during the resume of the first. Three requests give one that
  is queued, one that is being flushed and one made meanwhile; the two candidates
  give a signaling thread that flushes before and after `Restart`.
- For the subscriptions, a video and an audio track are the two kinds the code
  tells apart (only video has settings), and two tracks give an order of phases.
  Two revisions give a change that overtakes one being sent. The two faults are
  two breaks, or one and an ICE connection.
- For the publications, two tracks give two publishes that share a round, and a
  publish that shares one with an unpublish. One fault is one broken link, one offer
  that fails or one refused answer; with the two attempts of the recovery after it, it gives a resume
  that fails, a restart that fails and a restart that succeeds. The tracks are
  interchangeable in the module, and the constraint `FirstTrack` of the `.cfg` keeps
  the executions in which the first transaction is about the first track; no
  property names a track, so that what it leaves out is the same with the tracks
  exchanged (a symmetry set would not be sound for `NegotiationSettles`).
- For the whiteboard, bounds of one entry on the log, the proposals and the delta
  make every command meet a full table: the guest falls off the log at once and
  recovers by snapshot, in two chunks. Two messages in a buffer make it overflow
  in the middle of an answer; without eager timers the buffer holds what can be in
  flight, because liveness needs an answer to fit. In the program an answer that
  never fits exists too: a document of more than the 256 KiB high-water mark whose
  snapshot starts at chunk 0 each time (the limit of a snapshot is 8 MiB,
  whiteboard_transport.h:21); the model does not look at it. `CatchesUpOrIsStuck`
  exempts the gap of finding 2, which needs two commands of the host before the
  join and so does not occur in its run, and a snapshot that cannot be encoded,
  which plain text does not give: in the run neither exemption is used.

`EagerTimers` tells the two whiteboard instances apart: with it, a period may be
shorter than a round trip, which is a strictly larger set of behaviours and used
for safety; without it, periodic messages wait for the answers, and the liveness
properties do not depend on a retry flood being outrun. One command of the host is
enough for what the safety run asks: its `Add` pushes a proposal of the guest out of
the table, its `AddImagePage` is the barrier a proposal must not cross. `Clear` is
the host's command in the recovery run. No permission changes in the safety run
(`MaxControls` is 0): that a lock, an unlock or a `Clear` is a barrier rests there on the
theorem `BarriersRespected`, for every instance. A change of the selected page, which resets
the same state as a new page, is left to larger instances.

The bounds `MaxTransportFaults`, `MaxLeaves` and `MaxDisconnects` are constants
that only guard the environment's actions. `ExecutorGate` and `ShutdownService`
legitimately end (drained; stopped), as do `SignalClient`, `SubscriptionSync`,
`LocalPublication` and `Whiteboard` (the session ended, or the bounds are used up),
so that their runs do not look for deadlocks; the runs of the room do.

## 4. Fairness

- Room: weak fairness for the executor (it runs what is ready: coroutines that have
  started, each of whose awaits carries a timeout, and handlers), for what has left the
  mutex and is bound to end (a teardown closes what it took, the listener returns),
  and for the worker that runs `Retire`. The executor's condition is one for all it
  runs, not one for each coroutine. None for the application's calls, for the network or for the
  server. A call that has not been made need not ever be made.
- Gate: for what a call that is inside does next, the posted completions, the
  timer of a wait (deadlines expire) and `Close` once it has begun. None for
  native code, so that `CloseDrains` does not depend on it.
- Service: for the worker thread and for the Qt event loop, which the class
  requires to be alive until the stopped callback. None for callers.

- Signal client: for what the io thread has ready (coroutines of `Send`, incoming
  messages, the steps of a resume, each of which has a timeout), for the signaling
  thread inside `Send`, for the heartbeat's timeout, and for noticing a link that
  was *reset*. A silent link is noticed only by the heartbeat. None for requests,
  the server or the network. If the io thread is blocked (`stuck`) nothing of it
  is enabled any more.
- Subscriptions: for the drain only. Recovery need not end here; that is
  `RecoveryEnds`.
- Publications: for the recovery (its waits have deadlines, the executor runs what is
  ready), and for the executor, the signaling thread, the answers of the server and the
  deadlines of the transactions taken together: a transaction that nothing else ends is
  ended by its deadline, which matters when an offer has failed with the task of a
  removal still to come. None for the application, for a break, for an offer that fails
  or for a refused answer.
- Whiteboard: weak fairness for handlers and for the transport's return, strong
  fairness for the heartbeat and the retries: their guards ask for an idle link,
  which may come and go, and a periodic timer fires whenever its link is idle
  again and again.

## 5. Proofs

All statements hold for every value of the constants that satisfies the named
assumptions (`ConstantsAssumption`, `KindsAssumption`, `JobsAssumption`,
`PublicationAssumption`, `SubscriptionAssumption`, `SignalAssumption`,
`BoardAssumption` with `DocumentBounds`).

**`RoomLifecycle_proofs`.** `SessionInv` is the inductive invariant. The safety
properties alone are not inductive, because a section of the code commits on
the word of a check made earlier. What it adds: two live attempts never have
the same generation (`AttemptsDistinct`); a reconnector that waits for its inner
`ConnectAsync` waits for a frame of that generation (`NestedCallAwaited`); a
room that is Connecting has an attempt that has not yet committed
(`ConnectingHasWorker`); a call that has committed holds no client of its own
(`CommittedOwnsNothing`); after its disconnect a retired room stays down
(`RetiredStaysDown`). From it follow `ConnectedOwnsItsSession`, `StaleBundlesAreOwned`, `ConnectingIsDriven`,
`NativeFollowsBundle`, `SignalClientsAreOwned`, and `RoomImplementsGate`: the refinement
of `DrainGate`, step by step. `HoldingInv` adds what happens outside the mutex: the types
of those variables, and (`TeardownInv`) that what a teardown holds is of an earlier
session, that after the drain `Retire` holds nothing itself, and that no callback is
under way (results `TypeCorrect`, `HoldingInvariant`, `DrainedRoomsAreQuiet`). That a
`Disconnect` begun before is the only other holder of an open client comes from
`NoOrphanSignal`, which counts `detached` among the owners.

`RecoveryInv` strengthens it with what a generation can still become.
`GenerationsAccounted`: under a generation without a session (`NoSession`: no bundle,
not Connecting) no call, client or event of it is left. `FramesWellFormed`: the
generations a reconnector remembers are those its connect got. `ClaimsExclusive`: a
restart claims, besides the generation it drives, the one its `ConnectAsync` gets and
the one the rollback of that connect leaves; a claim is what `reconnect_active_` stands
for, and only one reconnector has one. `PhasesAgree`: what the phase of a recovery says
of the room while the room is the recovery's. `OneReconnector` alone is not inductive:
the generation moves under a restart, and a second reconnector would be spawned under
the new one if the flag did not belong to the first. Result: `ReconnectorsExclusive`.

`ListenerInv` adds what the listener knows: an `OnDisconnected` of the current generation
that is still queued means that the session is over and that nobody owns a recovery
(`FarewellsFinal`), and once it was delivered no recovery that may still succeed is left
(`DisconnectedIsLast`). That settles the order of the admissions. For what the listener
hears, `CallsInOrder` says that the executor is in one callback at a time, that its
`OnDisconnected` is one whose admission was the last word, and that with it heard no
`OnReconnected` is on its way. Results: `ListenerCalledInOrder` and `NoRevivalAnnounced`,
an action property.

`ServerInv` is `ListenerInv` with what keeps a LeaveRequest final while nobody has called
Disconnect. The leave sets `reconnect_disabled_`, and every commit of a recovery reads it;
the one thing that clears it is a `ConnectAsync` that takes itself for a fresh connect. A
restart whose recovery no longer owns the room makes such a call, so it must not exist:
from its teardown until its `ConnectAsync` is admitted nothing happens to the room
(`RecoveriesUndisturbed`). No leave is accepted, as the room is Disconnected and no client
of its generation is open; no finalizer of an earlier leave is left (`LeaveAccounted`); and
the application does not connect anew, as it was told of the session and not of its end.
That it was told needs the other half of `RecoveriesUndisturbed`, since an announcement is
delivered late and dropped when it is stale: whoever owns a recovery, or could come to
own one, was announced, or follows a recovery that was; and what was announced has
been heard or is being told (`ToldIsHeard`), as the application acts on what it heard.
Results: `ListenersAreTold`, `ServerInvariant` and `LeavesAreFinal`, an action property.

**`ExecutorGate_proofs`.** `TypesHold` and `GateInv`: the second says which stages a completion and a wait
can be in together (`CompletionStages`, `WaitStages`), and that until it is
complete, `Close` can still reach whatever waits for native code
(`CloseReaches`). `InFlightIsExact` compares a counter with the cardinality of
two sets and needs the calls to be finite, which is an assumption of the module.
Results: `InFlightCounts`, `CloseIsComplete`, `DrainIsFinal`,
`CompletionsRunOnce`, `NoAnswerIsLost`, `GateImplementsDrainGate`.

**`ShutdownService_proofs`.** `ServiceInv` locates every accepted job: in the
queue, in the worker's hand, in an event of the Qt queue, or delivered
(`JobsAreAccountedFor`, `CompletionsAreOwed`), and says that no completion is
queued behind the event that ends the service (`StopsFollowCompletions`). Four
lemmas state what an append to, and a removal from, the two queues does to their
indices. The set of jobs need not be finite: only the failed ones are counted.
Results: `PendingCounts`, `WorkerLeavesNothing`, `StoppedComesLast`.

**`LocalPublication_proofs`.** `SendersAreOwned` is a statement about calls in
every stage, so its invariant `IInv` says first where calls can be: one offer is
made, given or answered at a time (`OneOffer`), only calls that negotiate wait for
it (`WaitersWait`), a publication is a publish that has ended well
(`PublishedDone`), and a removal is of such a publication and has stages of its own
(`RemovalsOfDone`). `Owned` is the property itself; it is not inductive without
`RemovedAway`: a removal past the signaling thread has taken the sender away, so
that what it ends leaves nothing behind. Results: `TypeCorrect`, `NoSenderIsLeft`.

**`PublicationCommits_proofs`** continues it with three groups, `JInv`. *Tracks*
(`OneOfATrack`): no track has two publications or publishes of this session, and
what a restart has still to publish nobody else publishes. *Removals* (`RInv`): the
tasks on the signaling thread are in the order of the removals that posted them, a
removal that still waits for its task has none of the same publication behind it
(`TasksInOrder`), and one past it has none left (`NoTaskLeft`); otherwise the task of
a removal that has timed out could take the sender of a later publication. *Rounds*
(`NInv`): a round that nobody has asked to be followed by another has the changes of
all who wait for it (`RoundServes`), and what was once answered is in every later
offer (`Answered`), what was removed in none (`Gone`). Results: `BothHold`,
`NoCommitIsEarly`.

`SInv` is about what the server has yet to be told. `View` is what it has answered, or
will answer to the offer under way. When that differs from the senders and answers
can still come (`InStep`), a round that will offer the senders is asked for, or a
transaction of this session *owes* one (`Owes`): it has changed the senders and will
ask, or it is a removal that gave up before its task, which is the exception in
`ServerReconciled`. The mark `removed` tells that removal from one that timed out after
it (`MarkedRemovals`). An offer that fails before it is sent ends all that would have told
the server; what differs then is `missed`, and `InStep` allows it until the next offer
(`Unaware` names the difference between `View` and the senders). Results:
`SendersInvariant`, `ServerIsReconciled`.

`HInv` is about the past of a track. The two properties speak of transactions that
ended long ago, and are made inductive by what each phase of a recovery holds of them.
`InOrder`: sessions never go back in the order of transactions, and a publication
begins when all others of its track have ended. `RemovalsHeld`: the intent of an
uncertain removal is kept, and no two removals that have not failed share one.
`RecoveryOwns`: what is published again belongs to the running recovery, one
transaction at a time. `RemovedStays`: a removal that has taken the sender away or may
still do so (`Standing`) is followed by a publication of the application or its track is
in no record and no turn (`KeptAway`). `PublishedSurvive`: a publication that was not
removed has a current publication, a record, a turn or a transaction, whichever the
phase relies on (`Survives`). Steps that begin no transaction are handled by one relation
(`Continues`), those that begin one by another (`Begins`). The hard step is
`StartReconnect`, where the books are written: it needs that a publication being removed
is the last of its track, and that an intent is given up only by a removal that has
removed nothing. Results: `HistoryInvariant`, `RemovedTracksStayRemoved`,
`PublicationsAreKept`.

**`SignalClient_proofs`.** `IInv` has three parts. `FlagsFollow` ties the flags to the
place of the resume: ready for events is the opposite of reconnecting, the client
is reconnecting from Restart to the SyncState, and a connected link that is not the
stream is the one the resume waits for. Without it a message could be dropped by the
handler of the reconnection, and `QueuedOnlyWhileDown` would break when the new stream
is put in. `EventsAccounted` says that what has come has been delivered or is buffered
behind it. `RequestsOrdered` is `RequestsInOrder` told pair by pair over the server, the
coroutines and the queue; four lemmas say what a request, a flush, a frame sent and a
frame lost do to it, and joined sequences appear only at the end. Results:
`TypesHold`, `NoRequestIsLeft`, `RequestsKeepOrder`, `EventsKeepOrder`.

**`SubscriptionSync_proofs`.** Two invariants. `SyncInv` ties the open link of a
session to its join or SyncState, and says that no drain is behind the link of a
resume; `NoUpdateIsEarly` follows. `FollowInv` is about the agreement with the server:
what is pending is a function of the intents (`PendingIsOwed`), a connected room has
at most one drain and it is the current one (`OneDrain`), what a drain or a SyncState
carries was the intent of its revision (`InFlight`, `SnapshotIsOfIntents`), until a
session is there all is owed (`AllIsOwed`), and a session does what is not owed
(`ServerHasTheRest`). All changes of intents go through one lemma, `ChangeFollows`:
they are either of a later revision or the same with more to send (`Follows`), and
what differs from before is marked (`Honest`). Results: `NoUpdateIsEarly`,
`TypesHold`, `QuietServerFollows`.

**`Whiteboard_proofs`.** The invariant `IInv` is about a chain of boards, one for each
sequence: the authority's board is the end of the chain, and each board comes from the
one before it by the entry committed between them (`IsChain`). `Agreement` is not
inductive, because it speaks of what a board shows and not of its history, on which
the next undo depends. `Following` says the rest: a replica has the content of a board
of the chain and *a recent part* of its undo list, its redo list and its accepted
commands (`Follows`), as it may have been restored from a snapshot, which has none.
`ApplyFollows` shows that this is enough: when a command is applied to both boards the
results are so related again, because an undo that finds an entry in the shorter list
finds the same one in the longer. Where the replica finds nothing the authority may
find more, which is finding 2: the replica then fails and does not diverge. `Logs`,
`Messages` and `Assemblies` say that everything stored or on its way repeats the
commits, and so does the result of applying the entries of a delta (`ApplyEntriesTracks`).
`Commands` follows the commands that are pending, on their way or committed: an
identifier names one of them, and each carries the interaction epoch of the board it
was built on. Epochs never decrease along the chain and increase at every barrier
(`EpochsGrow`); inside an epoch the accepted commands only grow. From this follow
`ProposalsCommittedOnce`, although the table of proposals forgets, and
`BarriersRespected`. The lemmas before it say what `Apply`, the lists of history and the
folds (`Keep`, `ApplyEntries`, the units of a snapshot) do to sequences of any length;
a fold is proved by following the values it takes one entry after another
(`KeepSteps`, `EntriesSteps`), with `SetInduction` on a set of numbers that is given.
Results: `BoardInvariant`, `TypeCorrect`, `BoardsAgree`, `ProposalsCommittedOnce`,
`BarriersRespected`.

**Only model-checked.** All liveness properties (`RecoveryEnds`,
`RetireDrains`, `CloseDrains`, `ShutdownCompletes`, `DrainCompletes`,
`DeathIsNoticed`, `UpdatesDrain`, `NegotiationSettles`, `ProposalEnds`,
`CatchesUpOrIsStuck`): TLAPS proves neither liveness under fairness nor facts about
ENABLED. And the violations, which are counterexamples.

## 6. Findings

1. **A recovery can be left without a coroutine** (`RoomStuckRecovery`,
   room.cpp:9861). When the inner connect of a full restart has committed the room is
   Connected, and a Close sets it Reconnecting and spawns a second reconnector. The
   first one finds at its next check (9857-9862, 9917-9922 or 9972-9974) that the room
   is not Connected and returns without releasing `reconnect_active_`; the second finds
   the flag set and returns too (9537-9542). The trace of the run ends there: the room is
   Reconnecting for ever, with no coroutine, however many attempts were left. In the
   run the Close may fall between any two sections, also just before the check at 9857;
   with the io thread alone it has the awaits of the publication of the tracks (9849) and
   of the data channel to fall into, before the checks that follow them.
2. **A late joiner can stay behind** (`WhiteboardLateJoiner`,
   whiteboard_runtime.cpp:363). A snapshot carries no undo history. When the next
   committed command undoes one older than the snapshot, the joiner cannot apply
   it, asks for the same delta again and fails again, until the log has dropped
   the entry and a snapshot is sent instead.
3. **A resume can commit over a dead signal** (`SignalDead`, room.cpp:9687). The
   new stream may close before the resume commits; the Close stops the heartbeat
   and is ignored because the room is Reconnecting, and the commit does not look
   at the signal. `DeathIsNoticed` shows that this is the only way for a dead link
   to go unnoticed.

Seen while modelling, without a run of their own:

- A user's leave can be undone by a full restart. `ConnectAsync` recognises that it
  belongs to a restart by `reconnect_active_` (room.cpp:1671). A Disconnect between
  the restart's teardown (9721-9799) and that test (9801) clears the flag; the call
  passes for a fresh connect, resets `reconnect_disabled_` and joins again after
  `OnDisconnected`. The comment at room.cpp:1668-1670 says a rebuild must never do
  so. On a single io thread with `Disconnect` called on it the window closes; `Room`
  promises nothing of the kind.
- A Disconnect during a full restart leaves `suppress_next_connected_event_` set,
  which then silences `OnConnected` of the next connect (room.cpp:2066); the
  comment at 2003-2005 relies on that callback coming first.
- `DeliverDrains` looks only at `pending` (session_shutdown_service.h:295): an
  event posted by an earlier, idle `DrainAsync`, or by the worker itself, answers
  a later one while a completion is still in the Qt queue, which the comment at
  215-216 rules out.
- An update recorded by a replaced drain is lost (room.cpp:4571-4611). A Close
  during its hop queues everything anew with the same revision; the drain then
  records the frame the dying socket took as sent, and clears the flags of the
  new update. After a resume the settings, after a restart into the same room
  also an unsubscribe, stay unknown to the server. `overtaken` marks these tracks:
  `ServerFollowsOrOvertaken` shows that they are the only ones, and
  `ServerFollowsIntent`, without the exemption, does not hold. The scenarios of
  tests/remediation/test_participant_snapshot_remediation.cpp:3569-3600 ask for
  what is lost here, in an order without the Close.
- After a send has thrown, nothing schedules a drain (room.cpp:4612-4640); the
  update waits for the next change or recovery.
- A track whose publish commits while a recovery is active is not among the records,
  which are taken once when the recovery begins (room.cpp:9551); the commit asks for
  the generation and not for a connected room. A later full restart of the same
  recovery loses it. `calm` in `PublicationsSurvive` is this exemption.
- An unpublish accepted while a restart is publishing, whose attempt then fails, is
  forgotten: the next attempt clears `pending_local_unpublishes_` (room.cpp:9754)
  while the record is still there, and publishes the track again. The comment at
  room.h:853-855 wants a removal to survive a failed renegotiation. `calm` in
  `RemovedStaysRemoved` is this exemption.
- An unpublish that times out before the signaling thread has run its task drops its
  intent, while the task still removes the sender: the track stays listed as
  published and is not sent (`TakenAway` in `CommitsAreNegotiated`).
- An offer that cannot be created or set (room.cpp:6859-6884) fails every waiter and
  leaves the negotiation Idle, also when another round was queued. The rollback of a
  publish and the removal of an unpublish have then changed the senders, the server is
  not told, and nobody asks for a round. The log of the unpublish says "Local sender
  removed without SDP Answer; recovery will reconcile with server state" (room.cpp:6718), but no
  recovery is begun: the connection is up and stable. `ServerReconciled` shows that this
  is what an offer that failed left out (`missed`) and no more, and that the next offer,
  whoever asks for it, tells it.
- An unpublish that ends uncertain keeps its entry in `pending_local_unpublishes_`
  after a resume, so that the application cannot ask again; only a restart ends it.
- An offer that is outstanding when the link dies makes the negotiation of the resume
  wait for an answer that never comes: such a resume always ends in a full restart.
  An answer that is refused leaves the connection unstable in the same way, without a
  recovery; the 50 ms timer waits for an answer that will not come
  (`NegotiationSettles` says that these are the only cases).
- The rollback of a batch erases `pending_track_publishes_` by cid without comparing
  the waiter (room.cpp:6168 and 6292), which the rollback of one track does (5866).
- `Restart` holds `stream_mutex_` across `co_await stream_->Close(false)`
  (signal_client.cpp:322-334). A `SendAsync` on the same thread, or a `Send` that
  waits for `queue_mutex_` while the signaling thread holds it in `FlushQueue` and
  waits for `stream_mutex_`, blocks the io thread for good (`stuck`).
- A frame given to a disconnected socket is dropped and its `SendAsync` completes
  (see `SignalClient` above).
- `sendSnapshot` cuts the document at a byte and the encoder throws when the cut is
  inside a character (whiteboard_runtime.cpp:565); the coordinator swallows the
  exception (meeting_coordinator.cpp:3335-3338) and no snapshot of that document
  can be sent. The comment at whiteboard_document.cpp:50-51 wants every accepted
  document to be serializable. `TextKinds` lets the model reach it.
- A delta of more than 64 entries is refused by its receiver
  (whiteboard_protocol.cpp:321), and assets of images that were never placed stay
  cached (`MaxAssets`, 8); neither is in the model.

## 7. What is not modelled

- Media, capture, rendering, encryption and telemetry: platform I/O and
  per-frame computation, no part of the session protocol.
- Generated sources (`ui/tdesktop/gen`, protobuf) and widgets.
- Inside the room: participants, RPC and data streams, for now (see the plan). In
  `RoomLifecycle` their effect on the lifecycle is that a
  step of a connect or a recovery may throw.
- Local publications: the publication of a batch, mute and layer updates, codecs and
  simulcast, errors of native calls other than those of the negotiation and of the
  installation of a sender, a LeaveRequest
  and a Disconnect in the middle of a transaction (they end the generation as a
  restart's teardown does and start nothing after it).
- Signal client: the first `Connect` with its fallback between regions, the
  parsing of messages, a LeaveRequest that the waiting handler of a reconnection
  swallows after the reconnect response.
- Subscriptions: publications that come and go, the binding of media to them, the
  rejection of stale plans and of controls with an older request.
- Whiteboard: rate limits, the simplification of strokes and all geometry, the
  transfer of images, an authority that joins again, a board that is opened after
  the host has left, more than one document.
- Time: a deadline may expire at any step after it is armed; the backoff and the
  total deadline are choices. Memory-model effects: all shared state of the
  modelled parts is under a mutex or in a sequentially used atomic.

## 8. Plan

Done: the room's lifecycle, the gate, the shutdown service; then the signal
client, the subscriptions, the local publications and the whiteboard, and theorems
for every safety property the passing runs check. Left, in this order:

1. `SessionTeardown`: the cleanup job (`core/meeting_coordinator.cpp:3633-3690`)
   with the io strand, `Retire` and the gate. Properties: the waits have no
   cycle, the io thread is joined after the drain, native state is reused only
   after teardown. Composes `ShutdownService` and `DrainGate`.
2. `LocalPublication`: the batch publish, and the abstract specification it and the
   single publish implement, an atomic publish.
3. `DataStreams`: chunk assembly with limits and duplicates.
4. `ScreenShare` and the start-up transaction; the video demand policy as
   operators against a reference definition.
