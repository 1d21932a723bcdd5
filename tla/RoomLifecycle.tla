---------------------------- MODULE RoomLifecycle ----------------------------
(***************************************************************************)
(* The connection lifecycle of livekit::Room (src/src/core/room.cpp):      *)
(* ConnectAsync, Disconnect, the server's LeaveRequest, the Close event of *)
(* the signal transport, the AttemptReconnect coroutine and Retire.        *)
(*                                                                         *)
(* One action is one critical section of room_mutex_ (or one await of a    *)
(* coroutine).  What the coroutines wait for (the signal join, ICE, the    *)
(* reliable data channel) is abstracted to "it succeeds" or "it throws".   *)
(* A generation is a number; 0 in installed and native means "none".       *)
(*                                                                         *)
(* Threads: the coroutines, the handlers and their calls of the listener   *)
(* run on the executor, one at a time; Disconnect and Retire run on threads *)
(* of their own.  What is done outside the mutex by somebody Retire does   *)
(* not wait for (closing a detached bundle, calling the listener) is a step *)
(* of its own; an admitted coroutine that detaches a bundle closes it      *)
(* before it goes on, and the two are one step.                            *)
(***************************************************************************)
EXTENDS Naturals, FiniteSets

CONSTANTS Connects,               \* calls of ConnectAsync by the application
          Reconnects,             \* AttemptReconnect coroutines
          kMaxReconnectAttempts,  \* the code's limit, twice used: see below
          MaxTransportFaults,     \* bound: closes of the signal transport
          MaxLeaves,              \* bound: LeaveRequests the server sends
          MaxDisconnects          \* bound: effective Disconnect calls

ASSUME ConstantsAssumption ==
  /\ Connects \cap Reconnects = {}
  /\ kMaxReconnectAttempts \in Nat
  /\ MaxTransportFaults \in Nat
  /\ MaxLeaves \in Nat
  /\ MaxDisconnects \in Nat

Tasks == Connects \cup Reconnects

ConnectionState == {"Disconnected", "Connecting", "Connected", "Reconnecting"}

VARIABLES
  connection_state,
  session_generation,          \* session_generation_
  installed,                   \* installed_session_generation_
  native,                      \* generation that owns publisher_pc_ and the DCs
  reconnect_active,
  reconnect_disabled,
  finalizing,                  \* server_disconnect_finalizing_
  reconnect_attempts,
  suppress,                    \* suppress_next_connected_event_
  call,                        \* ConnectAsync frame of each task
  rec,                         \* AttemptReconnect frame of each reconnector
  open,                        \* generations whose SignalClient is not Close()d
  dead,                        \* those whose transport has closed
  detached,                    \* bundles a teardown has yet to close, outside the lock
  events,                      \* signal events raised and not yet handled
  closing,                     \* Close handlers before their last section
  finalizers,                  \* spawned FinalizeServerDisconnectAsync
  farewells,                   \* OnDisconnected deliveries not yet made
  goodbyes,                    \* those a Disconnect makes, on its own thread
  told,                        \* last lifecycle callback admitted
  calls,                       \* callbacks admitted, under way in the listener
  heard,                       \* history: last callback the listener got
  retire,                      \* progress of Retire on the shutdown worker
  ended,                       \* history: who ended the session
  faults, leaves, disconnects  \* counters for the bounds

roomVars == <<connection_state, session_generation, installed, native>>
recoveryVars == <<reconnect_active, reconnect_disabled, finalizing,
                  reconnect_attempts, suppress>>
signalVars == <<open, dead, detached, events, faults, leaves>>
userVars == <<retire, ended, disconnects>>
noticeVars == <<closing, finalizers, farewells, goodbyes, told, calls, heard>>
vars == <<roomVars, recoveryVars, signalVars, noticeVars,
          call, rec, userVars>>

-----------------------------------------------------------------------------
(* Frames.                                                                 *)

CallPc == {"idle", "ready", "signal", "joined", "setup", "media", "rollback",
           "committed", "ok", "threw"}
CallFrame == [pc: CallPc, gen: Nat, restart: BOOLEAN, notify: BOOLEAN]

RecPc == {"off", "announce", "spawned", "loop", "delay", "resume", "restarting",
          "sync", "ice", "teardown", "restart", "connecting", "republish",
          "channel", "catch", "exhausted", "giveup", "reconnected",
          "disconnected", "done"}
\* rg: reconnect_generation, cg: restart_connect_generation, tries: attempts,
\* full: full_restart.
RecFrame == [pc: RecPc, rg: Nat, cg: Nat, tries: Nat, full: BOOLEAN]

CallLive(t) == call[t].pc \in {"signal", "joined", "setup", "media", "rollback",
                               "committed"}
RecLive(r) == rec[r].pc \notin {"off", "done"}

\* A call of the listener keeps the admission of the coroutine that makes it, or
\* one of its own.
Ticket == {"call", "rec", "listener"} \X (Tasks \cup Nat)
ListenerCall == [kind : {"Connected", "Reconnecting", "Reconnected", "Disconnected",
                         "UserLeave"}, ticket : Ticket]

\* The executor is inside the listener; only Disconnect calls it elsewhere.
ExecutorBusy == \E c \in calls : c.kind # "UserLeave"

\* Whatever holds an admission of the room's callback_gate_: connect attempts,
\* reconnectors (a spawned one has yet to enter), handlers of a Close, calls of the
\* listener.  Disconnect and the finalizer of a leave hold none.
Admitted ==
  {<<"call", t>> : t \in {u \in Tasks : CallLive(u)}}
    \cup {<<"rec", r>> : r \in {q \in Reconnects : RecLive(q) /\ rec[q].pc # "spawned"}}
    \cup {<<"handler", g>> : g \in closing}
    \cup {c.ticket : c \in calls}

Retired == retire # "no"

\* Faulty variant: retirement does not make the session stale.
IsSignalGenerationCurrentRetired(g) == g = session_generation

\* Room::IsSignalGenerationCurrentLocked; generation 0 is for tests only.
IsSignalGenerationCurrent(g) == ~Retired /\ g = session_generation

\* Room::IsNativeGenerationCurrentLocked.
IsNativeGenerationCurrent(g) ==
  ~Retired /\ g = session_generation /\ g = installed

\* Faulty variant: any session in the required state hears the event.
AdmitListenerAnySession(g, s) == ~Retired /\ connection_state = s

\* Room::AdmitListener for a lifecycle event: generation g, required state s.
AdmitListener(g, s) ==
  ~Retired /\ g = session_generation /\ connection_state = s

\* DeliverLifecycleListenerEvent, up to the admission of DeliverListener: callback
\* kind is about to be made, or dropped because the room has moved on.
Deliver(kind, g, s, ticket) ==
  IF AdmitListener(g, s)
  THEN /\ told' = IF kind = "UserLeave" THEN "Disconnected" ELSE kind
       /\ calls' = calls \cup {[kind |-> kind, ticket |-> ticket]}
  ELSE UNCHANGED <<told, calls>>

\* The rest of DeliverListener: the callback runs, outside the lock and whatever
\* the room has become, and the admission is given back.
ListenerCalled(c) ==
  /\ c \in calls
  /\ calls' = calls \ {c}
  /\ heard' = c.kind
  /\ UNCHANGED <<roomVars, recoveryVars, signalVars, closing, finalizers, farewells,
                 goodbyes, told, call, rec, userVars>>

\* event_ready_ of the SignalClient of generation g: messages (not closes)
\* are buffered until the owner of the connection calls SetEventReady.
EventReady(g) ==
  /\ \A t \in Tasks :
        call[t].gen = g => call[t].pc \notin {"signal", "joined", "setup"}
  /\ \A r \in Reconnects :
        rec[r].rg = g => rec[r].pc \notin {"restarting", "sync"}

CallGoto(t, pc) == call' = [call EXCEPT ![t].pc = pc]
RecGoto(r, pc) == rec' = [rec EXCEPT ![r].pc = pc]

Init ==
  /\ connection_state = "Disconnected"
  /\ session_generation = 0
  /\ installed = 0
  /\ native = 0
  /\ reconnect_active = FALSE
  /\ reconnect_disabled = FALSE
  /\ finalizing = FALSE
  /\ reconnect_attempts = 0
  /\ suppress = FALSE
  /\ call = [t \in Tasks |-> [pc |-> IF t \in Connects THEN "ready" ELSE "idle",
                              gen |-> 0, restart |-> FALSE, notify |-> FALSE]]
  /\ rec = [r \in Reconnects |-> [pc |-> "off", rg |-> 0, cg |-> 0,
                                  tries |-> 0, full |-> FALSE]]
  /\ open = {}
  /\ dead = {}
  /\ detached = {}
  /\ events = {}
  /\ closing = {}
  /\ finalizers = {}
  /\ farewells = {}
  /\ goodbyes = {}
  /\ told = "None"
  /\ calls = {}
  /\ heard = "None"
  /\ retire = "no"
  /\ ended = "no"
  /\ faults = 0
  /\ leaves = 0
  /\ disconnects = 0

-----------------------------------------------------------------------------
(* ConnectAsync, called by the application (t \in Connects) or by the full *)
(* restart of a reconnector (t \in Reconnects).                            *)

\* Faulty variant: a retired room is not refused.
ConnectAdmittedRetired ==
  /\ connection_state = "Disconnected"
  /\ installed = 0
  /\ ~(reconnect_active /\ reconnect_disabled)

\* The admission checks of the first critical section.
ConnectAdmitted ==
  /\ ~Retired
  /\ connection_state = "Disconnected"
  /\ installed = 0
  /\ ~(reconnect_active /\ reconnect_disabled)

\* The application connects a room it has not connected yet, or whose session
\* it knows to be over; a reconnector calls whenever it gets there.
Calls(t) ==
  /\ call[t].pc = "ready"
  /\ t \in Connects => heard \in {"None", "Disconnected", "UserLeave"} \/ ended # "no"

ConnectRefused(t) ==
  /\ Calls(t)
  /\ ~ConnectAdmitted
  /\ CallGoto(t, "threw")
  /\ UNCHANGED <<roomVars, recoveryVars, signalVars, noticeVars, rec, userVars>>

\* An active reconnect owns its flags: only a fresh Connect resets them.
ConnectStart(t) ==
  /\ Calls(t)
  /\ ConnectAdmitted
  /\ connection_state' = "Connecting"
  /\ session_generation' = session_generation + 1
  /\ IF reconnect_active
     THEN UNCHANGED <<reconnect_disabled, finalizing>>
     ELSE reconnect_disabled' = FALSE /\ finalizing' = FALSE
  /\ call' = [call EXCEPT ![t] = [pc |-> "signal", gen |-> session_generation + 1,
                                  restart |-> reconnect_active, notify |-> FALSE]]
  /\ ended' = IF t \in Connects THEN "no" ELSE ended
  /\ UNCHANGED <<installed, native, reconnect_active, reconnect_attempts, suppress,
                 signalVars, noticeVars, rec, retire, disconnects>>

\* SignalClient::Connect returns a client with its JoinResponse.
SignalJoined(t) ==
  /\ call[t].pc = "signal"
  /\ open' = open \cup {call[t].gen}
  /\ CallGoto(t, "joined")
  /\ UNCHANGED <<roomVars, recoveryVars, dead, detached, events, faults, leaves,
                 noticeVars, rec, userVars>>

\* join_commit: the client becomes signal_client_ of the room.
JoinCommit(t) ==
  /\ call[t].pc = "joined"
  /\ call[t].gen = session_generation
  /\ connection_state = "Connecting"
  /\ installed = 0
  /\ installed' = call[t].gen
  /\ CallGoto(t, "setup")
  /\ UNCHANGED <<connection_state, session_generation, native, recoveryVars,
                 signalVars, noticeVars, rec, userVars>>

\* native_commit: the peer connections created outside the lock are installed.
NativeCommit(t) ==
  /\ call[t].pc = "setup"
  /\ IsNativeGenerationCurrent(call[t].gen)
  /\ native' = call[t].gen
  /\ CallGoto(t, "media")
  /\ UNCHANGED <<connection_state, session_generation, installed, recoveryVars,
                 signalVars, noticeVars, rec, userVars>>

\* Faulty variant: the commit trusts the checks made before the media wait.
ConnectCommitUnchecked(t) ==
  /\ call[t].pc = "media"
  /\ connection_state' = "Connected"
  /\ call' = [call EXCEPT ![t].pc = "committed", ![t].notify = ~suppress]
  /\ suppress' = FALSE
  /\ UNCHANGED <<session_generation, installed, native, reconnect_active,
                 reconnect_disabled, finalizing, reconnect_attempts, signalVars,
                 noticeVars, rec, userVars>>

\* connect_commit, once the primary peer connection is up.
ConnectCommit(t) ==
  /\ call[t].pc = "media"
  /\ call[t].gen = session_generation
  /\ connection_state = "Connecting"
  /\ installed = call[t].gen
  /\ connection_state' = "Connected"
  /\ call' = [call EXCEPT ![t].pc = "committed", ![t].notify = ~suppress]
  /\ suppress' = FALSE
  /\ UNCHANGED <<session_generation, installed, native, reconnect_active,
                 reconnect_disabled, finalizing, reconnect_attempts, signalVars,
                 noticeVars, rec, userVars>>

\* OnConnected is delivered and ConnectAsync returns.
ConnectReturn(t) ==
  /\ call[t].pc = "committed"
  /\ IF call[t].notify
     THEN Deliver("Connected", call[t].gen, "Connected", <<"call", t>>)
     ELSE UNCHANGED <<told, calls>>
  /\ CallGoto(t, "ok")
  /\ UNCHANGED <<roomVars, recoveryVars, signalVars, closing, finalizers, farewells,
                 goodbyes, heard, rec, userVars>>

\* A failed wait, a timeout or a failed commit check throws into the handler.
ConnectThrows(t) ==
  /\ call[t].pc \in {"signal", "joined", "setup", "media"}
  /\ CallGoto(t, "rollback")
  /\ UNCHANGED <<roomVars, recoveryVars, signalVars, noticeVars, rec, userVars>>

\* What every rollback leaves alone.
RollbackFrame ==
  UNCHANGED <<reconnect_active, reconnect_disabled, finalizing, reconnect_attempts,
              detached, events, faults, leaves, noticeVars, rec, userVars>>

\* Faulty variant: only a current attempt releases the bundle it installed.
ConnectRollbackCurrentOnly(t) ==
  LET g == call[t].gen IN
  /\ call[t].pc = "rollback"
  /\ IF g = session_generation
     THEN /\ session_generation' = session_generation + 1
          /\ connection_state' = "Disconnected" /\ suppress' = FALSE
          /\ installed' = 0 /\ native' = 0
     ELSE UNCHANGED <<roomVars, suppress>>
  /\ open' = open \ {g}
  /\ dead' = dead \ {g}
  /\ CallGoto(t, "threw")
  /\ RollbackFrame

\* Faulty variant: the client of an attempt that was never installed is kept.
ConnectRollbackKeepsClient(t) ==
  LET g == call[t].gen IN
  /\ call[t].pc = "rollback"
  /\ session_generation' = IF g = session_generation THEN session_generation + 1
                                                      ELSE session_generation
  /\ installed' = IF g = installed THEN 0 ELSE installed
  /\ native' = IF g = installed THEN 0 ELSE native
  /\ IF g \in {session_generation, installed}
     THEN connection_state' = "Disconnected" /\ suppress' = FALSE
     ELSE UNCHANGED <<connection_state, suppress>>
  /\ open' = IF g = installed THEN open \ {g} ELSE open
  /\ dead' = dead \ {g}
  /\ CallGoto(t, "threw")
  /\ RollbackFrame

\* The handler: a current attempt invalidates its generation, the owner of the
\* installed bundle releases it, and the attempt's own client is closed.
ConnectRollback(t) ==
  LET g == call[t].gen IN
  /\ call[t].pc = "rollback"
  /\ session_generation' = IF g = session_generation THEN session_generation + 1
                                                      ELSE session_generation
  /\ installed' = IF g = installed THEN 0 ELSE installed
  /\ native' = IF g = installed THEN 0 ELSE native
  /\ IF g \in {session_generation, installed}
     THEN connection_state' = "Disconnected" /\ suppress' = FALSE
     ELSE UNCHANGED <<connection_state, suppress>>
  /\ open' = open \ {g}
  /\ dead' = dead \ {g}
  /\ CallGoto(t, "threw")
  /\ RollbackFrame

ConnectStep(t) ==
  \/ ConnectRefused(t) \/ ConnectStart(t)
  \/ SignalJoined(t) \/ JoinCommit(t) \/ NativeCommit(t) \/ ConnectCommit(t)
  \/ ConnectReturn(t) \/ ConnectThrows(t) \/ ConnectRollback(t)

-----------------------------------------------------------------------------
(* The user's Disconnect / DisconnectAsync.                                *)

RoomIsDown ==
  connection_state = "Disconnected" /\ installed = 0 /\ ~reconnect_active

\* The critical section Disconnect, DisconnectAsync and Retire share: the bundle
\* is detached, to be closed by the same thread (by names the teardown by the
\* generation it made, 0 for Retire's) before it delivers OnDisconnected(UserLeave).
TearDownForUser(by) ==
  /\ connection_state' = "Disconnected"
  /\ reconnect_disabled' = TRUE
  /\ reconnect_active' = FALSE
  /\ session_generation' = session_generation + 1
  /\ installed' = 0
  /\ native' = 0
  /\ detached' = detached \cup {[bundle |-> g, by |-> by] : g \in {installed} \ {0}}
  /\ farewells' = farewells \cup {session_generation + 1}
  /\ goodbyes' = goodbyes \cup {session_generation + 1}
  /\ ended' = "user"
  /\ UNCHANGED <<finalizing, reconnect_attempts, suppress, open, dead, events, faults,
                 leaves, closing, finalizers, told, calls, heard, call, rec>>

Disconnect ==
  \/ RoomIsDown /\ UNCHANGED vars
  \/ /\ ~RoomIsDown
     /\ disconnects < MaxDisconnects
     /\ disconnects' = disconnects + 1
     /\ TearDownForUser(session_generation + 1)
     /\ UNCHANGED retire

\* The teardown closes the signal client and the peer connections it detached.
CloseDetached(d) ==
  /\ d \in detached
  /\ detached' = detached \ {d}
  /\ open' = open \ {d.bundle}
  /\ dead' = dead \ {d.bundle}
  /\ UNCHANGED <<roomVars, recoveryVars, events, faults, leaves, noticeVars, call, rec,
                 userVars>>

\* The OnDisconnected callback of the teardown that made generation g, once what it
\* detached is closed.
DeliverDisconnected(g, kind) ==
  /\ g \in farewells
  /\ \A d \in detached : d.by # g
  /\ farewells' = farewells \ {g}
  /\ goodbyes' = goodbyes \ {g}
  /\ Deliver(kind, g, "Disconnected", <<"listener", g>>)
  /\ UNCHANGED <<roomVars, recoveryVars, signalVars, closing, finalizers, heard, call,
                 rec, userVars>>

-----------------------------------------------------------------------------
(* The signal connection of generation g and its events.                   *)

\* The transport closes; SignalClient::HandleClose copies the room's handler.
TransportCloses(g) ==
  /\ g \in open \ dead
  /\ faults < MaxTransportFaults
  /\ faults' = faults + 1
  /\ dead' = dead \cup {g}
  /\ events' = events \cup {[type |-> "Close", gen |-> g]}
  /\ UNCHANGED <<roomVars, recoveryVars, open, detached, leaves, noticeVars, call, rec,
                 userVars>>

\* The server sends a LeaveRequest that is terminal for the client.
ServerSendsLeave(g) ==
  /\ g \in open \ dead
  /\ leaves < MaxLeaves
  /\ leaves' = leaves + 1
  /\ events' = events \cup {[type |-> "Leave", gen |-> g]}
  /\ UNCHANGED <<roomVars, recoveryVars, open, dead, detached, faults, noticeVars, call,
                 rec, userVars>>

\* HandleSignalEvent drops the events of a replaced session.
DropStaleEvent(e) ==
  /\ e \in events
  /\ ~IsSignalGenerationCurrent(e.gen)
  /\ events' = events \ {e}
  /\ UNCHANGED <<roomVars, recoveryVars, open, dead, detached, faults, leaves,
                 noticeVars, call, rec, userVars>>

ClosePending(g) ==
  /\ [type |-> "Close", gen |-> g] \in events
  /\ IsSignalGenerationCurrent(g)
  /\ events' = events \ {[type |-> "Close", gen |-> g]}
  /\ UNCHANGED <<open, dead, detached, faults, leaves, userVars>>

\* Close of a healthy session: enter Reconnecting and start a reconnector.
CloseStartsReconnect(g, r) ==
  /\ ClosePending(g)
  /\ ~finalizing
  /\ ~reconnect_disabled
  /\ connection_state = "Connected"
  /\ reconnect_attempts < kMaxReconnectAttempts
  /\ rec[r].pc = "off"
  /\ connection_state' = "Reconnecting"
  /\ reconnect_attempts' = reconnect_attempts + 1
  /\ rec' = [rec EXCEPT ![r].pc = "announce", ![r].rg = session_generation]
  /\ UNCHANGED <<session_generation, installed, native, reconnect_active,
                 reconnect_disabled, finalizing, suppress, noticeVars, call>>

\* Close during Connecting: the attempt is invalidated and its waits fail.
CloseFailsConnect(g) ==
  /\ ClosePending(g)
  /\ ~finalizing
  /\ connection_state = "Connecting"
  /\ connection_state' = "Disconnected"
  /\ session_generation' = session_generation + 1
  /\ UNCHANGED <<installed, native, recoveryVars, noticeVars, call, rec>>

\* Any other Close; while a server leave is being finalized it is ignored.
CloseElsewhere(g) ==
  /\ ClosePending(g)
  /\ \/ finalizing
     \/ connection_state \in {"Disconnected", "Reconnecting"}
     \/ /\ connection_state = "Connected"
        /\ reconnect_disabled \/ reconnect_attempts >= kMaxReconnectAttempts
  /\ closing' = IF finalizing THEN closing ELSE closing \cup {g}
  /\ UNCHANGED <<roomVars, recoveryVars, finalizers, farewells, goodbyes, told, calls,
                 heard, call, rec>>

\* Its last critical section, which looks at the state afresh.
CloseDisconnects(g) ==
  /\ g \in closing
  /\ closing' = closing \ {g}
  /\ IF /\ IsSignalGenerationCurrent(g)
        /\ connection_state \notin {"Disconnected", "Reconnecting"}
     THEN /\ connection_state' = "Disconnected"
          /\ farewells' = farewells \cup {session_generation}
     ELSE UNCHANGED <<connection_state, farewells>>
  /\ UNCHANGED <<session_generation, installed, native, recoveryVars, signalVars,
                 finalizers, goodbyes, told, calls, heard, call, rec, userVars>>

-----------------------------------------------------------------------------
(* The server's LeaveRequest.                                              *)

LeavePending(g) ==
  /\ [type |-> "Leave", gen |-> g] \in events
  /\ IsSignalGenerationCurrent(g)
  /\ EventReady(g)
  /\ events' = events \ {[type |-> "Leave", gen |-> g]}
  /\ UNCHANGED <<open, dead, detached, faults, leaves, retire, disconnects, roomVars,
                 reconnect_active, reconnect_attempts, suppress, closing, farewells,
                 goodbyes, told, calls, heard, call, rec>>

BeginServerDisconnect(g) ==
  /\ LeavePending(g)
  /\ connection_state # "Disconnected"
  /\ ~finalizing
  /\ reconnect_disabled' = TRUE
  /\ finalizing' = TRUE
  /\ finalizers' = finalizers \cup {g}
  /\ ended' = "server"

IgnoreLeave(g) ==
  /\ LeavePending(g)
  /\ connection_state = "Disconnected" \/ finalizing
  /\ UNCHANGED <<reconnect_disabled, finalizing, finalizers, ended>>

\* A coroutine without an admission: it detaches the bundle and closes it later.
FinalizeServerDisconnect(g) ==
  /\ g \in finalizers
  /\ finalizers' = finalizers \ {g}
  /\ \/ /\ ~IsSignalGenerationCurrent(g)
        /\ UNCHANGED <<roomVars, recoveryVars, detached, farewells>>
     \/ /\ IsSignalGenerationCurrent(g)
        /\ connection_state = "Disconnected" /\ installed = 0
        /\ finalizing' = FALSE
        /\ UNCHANGED <<roomVars, reconnect_active, reconnect_disabled,
                       reconnect_attempts, suppress, detached, farewells>>
     \/ /\ IsSignalGenerationCurrent(g)
        /\ ~(connection_state = "Disconnected" /\ installed = 0)
        /\ connection_state' = "Disconnected"
        /\ reconnect_attempts' = 0
        /\ reconnect_active' = FALSE
        /\ finalizing' = FALSE
        /\ suppress' = FALSE
        /\ session_generation' = session_generation + 1
        /\ installed' = 0
        /\ native' = 0
        /\ detached' = detached \cup {[bundle |-> b, by |-> session_generation + 1] :
                                         b \in {installed} \ {0}}
        /\ farewells' = farewells \cup {session_generation + 1}
        /\ UNCHANGED reconnect_disabled
  /\ UNCHANGED <<open, dead, events, faults, leaves, closing, goodbyes, told, calls, heard,
                 call, rec, userVars>>

-----------------------------------------------------------------------------
(* AttemptReconnect, coroutine r.                                          *)

recFrameOnly == <<roomVars, recoveryVars, signalVars, noticeVars, call, userVars>>

\* HandleSignalEvent delivers OnReconnecting, then spawns the coroutine.
AnnounceReconnecting(r) ==
  /\ rec[r].pc = "announce"
  /\ Deliver("Reconnecting", rec[r].rg, "Reconnecting", <<"rec", r>>)
  /\ RecGoto(r, "spawned")
  /\ UNCHANGED <<roomVars, recoveryVars, signalVars, closing, finalizers, farewells,
                 goodbyes, heard, call, userVars>>

\* Faulty variant: a second reconnector starts beside the first.
ReconnectBeginsTwice(r) ==
  /\ rec[r].pc = "spawned"
  /\ IF /\ IsSignalGenerationCurrent(rec[r].rg)
        /\ installed = rec[r].rg
        /\ connection_state = "Reconnecting"
        /\ ~reconnect_disabled
     THEN /\ reconnect_active' = TRUE
          /\ \E full \in BOOLEAN :
               rec' = [rec EXCEPT ![r].pc = "loop", ![r].full = full]
     ELSE RecGoto(r, "done") /\ UNCHANGED reconnect_active
  /\ UNCHANGED <<roomVars, reconnect_disabled, finalizing, reconnect_attempts, suppress,
                 signalVars, noticeVars, call, userVars>>

\* Entry: take ownership of the recovery, or leave it to whoever has it.  The
\* server's configuration decides whether a resume may be tried at all.
ReconnectBegins(r) ==
  /\ rec[r].pc = "spawned"
  /\ IF /\ IsSignalGenerationCurrent(rec[r].rg)
        /\ installed = rec[r].rg
        /\ connection_state = "Reconnecting"
        /\ ~reconnect_active /\ ~reconnect_disabled
     THEN /\ reconnect_active' = TRUE
          /\ \E full \in BOOLEAN :
               rec' = [rec EXCEPT ![r].pc = "loop", ![r].full = full]
     ELSE RecGoto(r, "done") /\ UNCHANGED reconnect_active
  /\ UNCHANGED <<roomVars, reconnect_disabled, finalizing, reconnect_attempts, suppress,
                 signalVars, noticeVars, call, userVars>>

NextAttempt(r) ==
  /\ rec[r].pc = "loop"
  /\ rec[r].tries < kMaxReconnectAttempts
  /\ rec' = [rec EXCEPT ![r].pc = "delay", ![r].tries = @ + 1]
  /\ UNCHANGED recFrameOnly

\* The bundle, if there is one, belongs to the generation the coroutine drives.
StillOwner(r) ==
  IsSignalGenerationCurrent(rec[r].rg) /\ installed \in {0, rec[r].rg}

\* A coroutine that lost its session just ends; one that was told to stop
\* releases the recovery first.
StopIf(r, stop) ==
  /\ RecGoto(r, "done")
  /\ \/ ~StillOwner(r) /\ UNCHANGED reconnect_active
     \/ StillOwner(r) /\ stop /\ reconnect_active' = FALSE
  /\ UNCHANGED <<roomVars, reconnect_disabled, finalizing, reconnect_attempts, suppress,
                 signalVars, noticeVars, call, userVars>>

ToldToStop(r) ==
  reconnect_disabled \/ (connection_state = "Disconnected" /\ ~rec[r].full)

DelayOver(r) ==
  /\ rec[r].pc = "delay"
  /\ \/ StopIf(r, ToldToStop(r))
     \/ /\ StillOwner(r)
        /\ ~ToldToStop(r)
        /\ RecGoto(r, IF rec[r].full THEN "teardown" ELSE "resume")
        /\ UNCHANGED recFrameOnly

\* The deadline passes at the loop head or during the delay, or no attempt is left.
AttemptsExhausted(r) ==
  /\ \/ rec[r].pc = "loop"
     \/ rec[r].pc = "delay" /\ StillOwner(r) /\ ~ToldToStop(r)
  /\ rec[r].tries > 0 \/ kMaxReconnectAttempts = 0
  /\ RecGoto(r, "exhausted")
  /\ UNCHANGED recFrameOnly

-----------------------------------------------------------------------------
(* Resume: the same session on a new transport.                            *)

ResumeBegins(r) ==
  /\ rec[r].pc = "resume"
  /\ RecGoto(r, IF IsSignalGenerationCurrent(rec[r].rg) /\ installed = rec[r].rg
                THEN "restarting" ELSE "done")
  /\ UNCHANGED recFrameOnly

\* SignalClient::Restart connects a new transport for the same client.
SignalRestarts(r) ==
  /\ rec[r].pc = "restarting"
  /\ dead' = dead \ {rec[r].rg}
  /\ RecGoto(r, "sync")
  /\ UNCHANGED <<roomVars, recoveryVars, open, detached, events, faults, leaves,
                 noticeVars, call, userVars>>

\* SyncState is sent (SendAsync throws on a dead transport), then events flow.
SyncStateSent(r) ==
  /\ rec[r].pc = "sync"
  /\ IsSignalGenerationCurrent(rec[r].rg)
  /\ installed = rec[r].rg
  /\ rec[r].rg \notin dead
  /\ RecGoto(r, "ice")
  /\ UNCHANGED recFrameOnly

\* Faulty variant: the commit overlooks a server leave.
ResumeCommitAfterLeave(r) ==
  /\ rec[r].pc = "ice"
  /\ IsSignalGenerationCurrent(rec[r].rg)
  /\ installed = rec[r].rg
  /\ connection_state = "Reconnecting"
  /\ connection_state' = "Connected"
  /\ reconnect_attempts' = 0
  /\ reconnect_active' = FALSE
  /\ RecGoto(r, "reconnected")
  /\ UNCHANGED <<session_generation, installed, native, reconnect_disabled, finalizing,
                 suppress, signalVars, noticeVars, call, userVars>>

\* RestartIceConnections has brought media back: resume_commit.
ResumeCommit(r) ==
  /\ rec[r].pc = "ice"
  /\ IsSignalGenerationCurrent(rec[r].rg)
  /\ installed = rec[r].rg
  /\ connection_state = "Reconnecting"
  /\ ~reconnect_disabled
  /\ connection_state' = "Connected"
  /\ reconnect_attempts' = 0
  /\ reconnect_active' = FALSE
  /\ RecGoto(r, "reconnected")
  /\ UNCHANGED <<session_generation, installed, native, reconnect_disabled, finalizing,
                 suppress, signalVars, noticeVars, call, userVars>>

\* Faulty variant: the wait for ICE has no timeout.
ResumeThrowsBeforeIce(r) ==
  /\ rec[r].pc \in {"restarting", "sync"}
  /\ rec' = [rec EXCEPT ![r].pc = "teardown", ![r].full = TRUE]
  /\ UNCHANGED recFrameOnly

\* Any failure on the way, a failed check or the attempt's budget included.
ResumeThrows(r) ==
  /\ rec[r].pc \in {"restarting", "sync", "ice"}
  /\ rec' = [rec EXCEPT ![r].pc = "teardown", ![r].full = TRUE]
  /\ UNCHANGED recFrameOnly

-----------------------------------------------------------------------------
(* Full restart: the bundle is replaced through a nested ConnectAsync.     *)

FullRestartTeardown(r) ==
  /\ rec[r].pc = "teardown"
  /\ \/ StopIf(r, reconnect_disabled)
     \/ /\ StillOwner(r)
        /\ ~reconnect_disabled
        /\ open' = open \ {installed}
        /\ dead' = dead \ {installed}
        /\ installed' = 0
        /\ native' = 0
        /\ connection_state' = "Disconnected"
        /\ suppress' = TRUE
        /\ session_generation' = session_generation + 1
        /\ rec' = [rec EXCEPT ![r].pc = "restart", ![r].rg = session_generation + 1,
                              ![r].cg = 0]
        /\ UNCHANGED <<reconnect_active, reconnect_disabled, finalizing,
                       reconnect_attempts, detached, events, faults, leaves, noticeVars,
                       call, userVars>>

\* The old connections are closed outside the lock, then ConnectAsync is called.
RestartConnects(r) ==
  /\ rec[r].pc = "restart"
  /\ rec' = [rec EXCEPT ![r].pc = "connecting", ![r].cg = rec[r].rg + 1]
  /\ CallGoto(r, "ready")
  /\ UNCHANGED <<roomVars, recoveryVars, signalVars, noticeVars, userVars>>

\* The generation g is connected and this recovery still owns the room.
RestartHolds(g) ==
  /\ IsNativeGenerationCurrent(g)
  /\ connection_state = "Connected"
  /\ reconnect_active
  /\ ~reconnect_disabled

\* Faulty variant: a nested connect that throws is never reported back.
RestartConnectedOnly(r) ==
  /\ rec[r].pc = "connecting"
  /\ call[r].pc = "ok"
  /\ CallGoto(r, "idle")
  /\ rec' = IF RestartHolds(rec[r].cg)
            THEN [rec EXCEPT ![r].pc = "republish", ![r].rg = rec[r].cg]
            ELSE [rec EXCEPT ![r].pc = "catch"]
  /\ UNCHANGED <<roomVars, recoveryVars, signalVars, noticeVars, userVars>>

\* full_restart_commit, or the exception of ConnectAsync.
RestartConnected(r) ==
  /\ rec[r].pc = "connecting"
  /\ call[r].pc \in {"ok", "threw"}
  /\ CallGoto(r, "idle")
  /\ rec' = IF call[r].pc = "ok" /\ RestartHolds(rec[r].cg)
            THEN [rec EXCEPT ![r].pc = "republish", ![r].rg = rec[r].cg]
            ELSE [rec EXCEPT ![r].pc = "catch"]
  /\ UNCHANGED <<roomVars, recoveryVars, signalVars, noticeVars, userVars>>

\* RepublishLocalTracks returned; a recovery that lost the room ends here.
Republished(r) ==
  /\ rec[r].pc = "republish"
  /\ RecGoto(r, IF RestartHolds(rec[r].rg) THEN "channel" ELSE "done")
  /\ UNCHANGED recFrameOnly

\* The reliable data channel is open: the final commit of the restart.
RestartCommit(r) ==
  /\ rec[r].pc = "channel"
  /\ \/ /\ RestartHolds(rec[r].rg)
        /\ reconnect_attempts' = 0
        /\ reconnect_active' = FALSE
        /\ RecGoto(r, "reconnected")
     \/ /\ ~RestartHolds(rec[r].rg)
        /\ RecGoto(r, "done")
        /\ UNCHANGED <<reconnect_attempts, reconnect_active>>
  /\ UNCHANGED <<roomVars, reconnect_disabled, finalizing, suppress, signalVars,
                 noticeVars, call, userVars>>

RestartThrows(r) ==
  /\ rec[r].pc \in {"republish", "channel"}
  /\ RecGoto(r, "catch")
  /\ UNCHANGED recFrameOnly

\* The handler works out from the generations how far the restart had come:
\* connected, rolled back by ConnectAsync, or Reconnecting under someone else.
RestartFailed(r) ==
  LET cg == rec[r].cg
      mine == ~reconnect_disabled /\ reconnect_active
      connected == /\ session_generation = cg /\ installed = cg
                   /\ connection_state = "Connected" /\ mine
      rolledBack == /\ session_generation = cg + 1 /\ installed = 0
                    /\ connection_state = "Disconnected" /\ mine
      waiting == /\ connection_state = "Reconnecting"
                 /\ IsSignalGenerationCurrent(rec[r].rg)
  IN
  /\ rec[r].pc = "catch"
  /\ \/ /\ connected \/ rolledBack
        /\ connection_state' = "Reconnecting"
        /\ suppress' = FALSE
        /\ rec' = [rec EXCEPT ![r].pc = "loop", ![r].rg = session_generation]
     \/ /\ ~(connected \/ rolledBack)
        /\ waiting
        /\ suppress' = FALSE
        /\ RecGoto(r, "loop")
        /\ UNCHANGED connection_state
     \/ /\ ~(connected \/ rolledBack \/ waiting)
        /\ RecGoto(r, "done")
        /\ UNCHANGED <<connection_state, suppress>>
  /\ UNCHANGED <<session_generation, installed, native, reconnect_active,
                 reconnect_disabled, finalizing, reconnect_attempts, signalVars,
                 noticeVars, call, userVars>>

-----------------------------------------------------------------------------
(* Giving up, and the last callback of the coroutine.                      *)

GiveUpBegins(r) ==
  /\ rec[r].pc = "exhausted"
  /\ \/ StopIf(r, reconnect_disabled)
     \/ /\ StillOwner(r)
        /\ ~reconnect_disabled
        /\ RecGoto(r, "giveup")
        /\ UNCHANGED recFrameOnly

GiveUp(r) ==
  /\ rec[r].pc = "giveup"
  /\ \/ StopIf(r, FALSE)
     \/ /\ StillOwner(r)
        /\ open' = open \ {installed}
        /\ dead' = dead \ {installed}
        /\ installed' = 0
        /\ native' = 0
        /\ connection_state' = "Disconnected"
        /\ reconnect_active' = FALSE
        /\ suppress' = FALSE
        /\ session_generation' = session_generation + 1
        /\ rec' = [rec EXCEPT ![r].pc = "disconnected",
                              ![r].rg = session_generation + 1]
        /\ UNCHANGED <<reconnect_disabled, finalizing, reconnect_attempts, detached,
                       events, faults, leaves, noticeVars, call, userVars>>

AnnounceOutcome(r) ==
  /\ \/ /\ rec[r].pc = "reconnected"
        /\ Deliver("Reconnected", rec[r].rg, "Connected", <<"rec", r>>)
     \/ /\ rec[r].pc = "disconnected"
        /\ Deliver("Disconnected", rec[r].rg, "Disconnected", <<"rec", r>>)
  /\ RecGoto(r, "done")
  /\ UNCHANGED <<roomVars, recoveryVars, signalVars, closing, finalizers, farewells,
                 goodbyes, heard, call, userVars>>

ReconnectStep(r) ==
  \/ AnnounceReconnecting(r) \/ ReconnectBegins(r)
  \/ NextAttempt(r) \/ AttemptsExhausted(r) \/ DelayOver(r)
  \/ ResumeBegins(r) \/ SignalRestarts(r) \/ SyncStateSent(r)
  \/ ResumeCommit(r) \/ ResumeThrows(r)
  \/ FullRestartTeardown(r) \/ RestartConnects(r) \/ RestartConnected(r)
  \/ Republished(r) \/ RestartCommit(r) \/ RestartThrows(r) \/ RestartFailed(r)
  \/ GiveUpBegins(r) \/ GiveUp(r) \/ AnnounceOutcome(r)

-----------------------------------------------------------------------------
(* Retire, on the shutdown worker: close the callback gate, disconnect,    *)
(* and wait until every admitted operation has left the room.  A teardown  *)
(* another thread has begun is not admitted, and is not waited for.        *)

RetireBegins ==
  /\ retire = "no"
  /\ retire' = "closed"
  /\ UNCHANGED <<roomVars, recoveryVars, signalVars, noticeVars, call, rec, ended,
                 disconnects>>

RetireDisconnects ==
  /\ retire = "closed"
  /\ retire' = "draining"
  /\ \/ RoomIsDown
        /\ UNCHANGED <<roomVars, recoveryVars, signalVars, noticeVars, call, rec, ended,
                 disconnects>>
     \/ ~RoomIsDown /\ TearDownForUser(0) /\ UNCHANGED disconnects

\* callback_gate_->WaitForDrain, after the Disconnect of Retire has returned.
RetireDrained ==
  /\ retire = "draining"
  /\ \A d \in detached : d.by # 0
  /\ Admitted = {}
  /\ retire' = "drained"
  /\ UNCHANGED <<roomVars, recoveryVars, signalVars, noticeVars, call, rec, ended,
                 disconnects>>

-----------------------------------------------------------------------------

Generations == open \cup closing \cup finalizers \cup farewells
                 \cup {e.gen : e \in events}

\* The handlers of events already raised.
HandlerStep(g) ==
  \/ \E r \in Reconnects : CloseStartsReconnect(g, r)
  \/ CloseFailsConnect(g) \/ CloseElsewhere(g) \/ CloseDisconnects(g)
  \/ BeginServerDisconnect(g) \/ IgnoreLeave(g) \/ FinalizeServerDisconnect(g)
  \/ g \notin goodbyes /\ DeliverDisconnected(g, "Disconnected")

HandlersStep ==
  \/ \E e \in events : DropStaleEvent(e)
  \/ \E g \in Generations : HandlerStep(g)

\* What a teardown does after its critical section, and the listener.
TeardownEnds ==
  \/ \E d \in detached : CloseDetached(d)
  \/ \E g \in goodbyes : DeliverDisconnected(g, "UserLeave")

ListenerRuns == \E c \in calls : ListenerCalled(c)

Environment ==
  \/ Disconnect
  \/ \E g \in Generations : TransportCloses(g) \/ ServerSendsLeave(g)
  \/ RetireBegins

Next ==
  \/ /\ ~ExecutorBusy
     /\ \/ \E t \in Tasks : ConnectStep(t)
        \/ \E r \in Reconnects : ReconnectStep(r)
        \/ HandlersStep
  \/ TeardownEnds \/ ListenerRuns
  \/ RetireDisconnects \/ RetireDrained
  \/ Environment

Spec == Init /\ [][Next]_vars

\* What is ready on the executor; a call the application has yet to make is not.
ExecutorStep ==
  \/ \E c \in Connects : call[c].pc # "ready" /\ ConnectStep(c)
  \/ \E r \in Reconnects : ConnectStep(r) \/ ReconnectStep(r)
  \/ HandlersStep

\* Every wait of a coroutine has a timeout and the executor runs what is ready, in
\* some order; a teardown that has begun ends and the listener returns; Retire runs
\* on its thread.  The application's calls, the network and the server promise
\* nothing.
Fairness ==
  /\ WF_vars(~ExecutorBusy /\ ExecutorStep)
  /\ WF_vars(TeardownEnds \/ ListenerRuns)
  /\ WF_vars(RetireDisconnects \/ RetireDrained)

FairSpec == Spec /\ Fairness

-----------------------------------------------------------------------------
(* Properties.                                                             *)

RoomTypes ==
  /\ connection_state \in ConnectionState
  /\ session_generation \in Nat /\ installed \in Nat /\ native \in Nat
  /\ reconnect_active \in BOOLEAN /\ reconnect_disabled \in BOOLEAN
  /\ finalizing \in BOOLEAN /\ suppress \in BOOLEAN
  /\ reconnect_attempts \in Nat
  /\ call \in [Tasks -> CallFrame]
  /\ rec \in [Reconnects -> RecFrame]
  /\ open \subseteq Nat /\ dead \subseteq open
  /\ events \subseteq [type : {"Close", "Leave"}, gen : Nat]
  /\ closing \subseteq Nat /\ finalizers \subseteq Nat /\ farewells \subseteq Nat
  /\ told \in {"None", "Connected", "Reconnecting", "Reconnected", "Disconnected"}
  /\ retire \in {"no", "closed", "draining", "drained"}
  /\ ended \in {"no", "user", "server"}
  /\ faults \in Nat /\ leaves \in Nat /\ disconnects \in Nat

OutsideTypes ==
  /\ detached \subseteq [bundle : Nat, by : Nat]
  /\ goodbyes \subseteq farewells
  /\ calls \subseteq ListenerCall
  /\ heard \in {"None", "Connected", "Reconnecting", "Reconnected", "Disconnected",
                "UserLeave"}

\* Types of all variables, those of the steps outside the lock last.
TypeOK == RoomTypes /\ OutsideTypes

\* A room that says Connected owns the bundle of its current generation, and
\* one that is Reconnecting or Connecting owns that bundle or none: no
\* interleaving of a connect, a restart, a close and a leave commits on top of
\* resources of another session.
StateOwnsSession ==
  /\ connection_state = "Connected" => installed = session_generation
  /\ connection_state \in {"Reconnecting", "Connecting"} =>
       installed \in {0, session_generation}

\* A bundle whose generation was invalidated (by a Close during Connecting)
\* still has the connect attempt that installed it, which will release it.
StaleBundleHasOwner ==
  installed \notin {0, session_generation} =>
    \E t \in Tasks : CallLive(t) /\ call[t].gen = installed

\* The room is Connecting only on behalf of a live attempt of the current
\* generation, so somebody is left to commit it or to roll it back.
ConnectingHasDriver ==
  connection_state = "Connecting" =>
    \E t \in Tasks : CallLive(t) /\ call[t].gen = session_generation

\* The peer connections never outlive, or belong to another session than, the
\* signal client they were negotiated with.
NativeBelongsToBundle == native \in {0, installed}

\* The open signal clients that no teardown has taken.
Held == open \ {d.bundle : d \in detached}

\* Every signal client that is not closed is the room's, or belongs to a live
\* connect attempt, or to a teardown that has yet to close it: a stale attempt leaks
\* no connection to the server.
NoOrphanSignal ==
  \A g \in Held :
    \/ g = installed
    \/ \E t \in Tasks : CallLive(t) /\ call[t].gen = g

\* At most one reconnector past its entry drives the current generation.
OneReconnector ==
  \A r, q \in Reconnects :
    (/\ RecLive(r) /\ rec[r].pc \notin {"announce", "spawned", "reconnected"}
     /\ RecLive(q) /\ rec[q].pc \notin {"announce", "spawned", "reconnected"}
     /\ rec[r].rg = session_generation /\ rec[q].rg = session_generation)
    => r = q

\* Once Retire has drained, the room is down and empty, no attempt and no callback
\* is under way, and what is still connected is in the hands of a teardown that
\* detached it before Retire came: a Disconnect of another thread or the finalizer
\* of a leave, which hold no admission and which Retire does not wait for.
DrainedIsQuiet ==
  retire = "drained" =>
    /\ RoomIsDown
    /\ native = 0
    /\ \A t \in Tasks : ~CallLive(t)
    /\ calls = {}
    /\ \A g \in open : \E d \in detached : d.bundle = g /\ d.by # 0

\* After the server's LeaveRequest was accepted no recovery brings the room
\* back: it only goes down, except that a Connect already under way commits
\* before the finalizer takes it down.  (Of a room nobody calls Disconnect on: a
\* Disconnect during a restart lets its ConnectAsync pass for a fresh one.)
ServerLeaveIsFinal ==
  [][disconnects' = 0 /\ ended = "server" /\ ended' = "server" =>
       \/ connection_state' \in {connection_state, "Disconnected"}
       \/ connection_state = "Connecting" /\ connection_state' = "Connected"]_vars

\* No OnReconnected is admitted after an OnDisconnected, whoever delivers them and
\* however late they run.  An admitted call may still be overtaken on its way to the
\* listener, but only by the OnDisconnected that Disconnect delivers on its own
\* thread: after one that came from the executor the listener hears no OnReconnected.
NoReconnectedAfterDisconnected ==
  [][/\ told' = "Reconnected" => told # "Disconnected"
     /\ heard' = "Reconnected" => heard # "Disconnected"]_vars

\* Recovery ends: again and again no reconnector is running, and the room is then
\* not Reconnecting, unless a recovery that has ended still owns it (which the run
\* of RecoveryConcludes shows can happen).
RecoveryEnds ==
  []<>(/\ \A r \in Reconnects : ~RecLive(r)
       /\ connection_state = "Reconnecting" => reconnect_active)

\* Retire always drains, and in the end nothing of the room is connected.
RetireDrains == (retire = "closed") ~> (retire = "drained" /\ detached = {} /\ open = {})

\* A room that is Reconnecting becomes Connected or Disconnected.
RecoveryConcludes == connection_state = "Reconnecting" ~> connection_state # "Reconnecting"

\* Retirement is orderly: seen from outside, the room is the gate DrainGate
\* specifies.  No connect, reconnect or handler begins once Retire has closed
\* the gate, and Retire returns only when all that began before have ended.
Gate == INSTANCE DrainGate WITH
  phase <- CASE retire = "no" -> "open" [] retire = "drained" -> "drained"
             [] OTHER -> "closed",
  inside <- Admitted

RetiresLikeAGate == Gate!Spec

-----------------------------------------------------------------------------
(* The inductive invariant behind the safety properties.                   *)

\* An attempt that still has work to do before its commit or rollback.
CallWorking(t) == CallLive(t) /\ call[t].pc # "committed"

\* Generations are handed out once: an attempt's is not in the future and no
\* two live attempts share one.
AttemptsDistinct ==
  /\ installed <= session_generation
  /\ 0 \notin Held
  /\ \A t \in Tasks : CallLive(t) => call[t].gen \in 1 .. session_generation
  /\ \A t, u \in Tasks :
        CallLive(t) /\ CallLive(u) /\ call[t].gen = call[u].gen => t = u

\* The nested ConnectAsync of a reconnector runs only while it is awaited.
NestedCallAwaited ==
  \A r \in Reconnects : rec[r].pc # "connecting" => call[r].pc = "idle"

\* ConnectingHasDriver, by an attempt that has not committed.
ConnectingHasWorker ==
  connection_state = "Connecting" =>
    \E t \in Tasks : CallWorking(t) /\ call[t].gen = session_generation

\* A committed attempt owns neither a stale bundle nor a client of its own.
CommittedOwnsNothing ==
  \A t \in Tasks : call[t].pc = "committed" =>
    /\ call[t].gen = installed => installed = session_generation
    /\ call[t].gen \in Held => call[t].gen = installed

\* After the disconnect of Retire the room stays down.
RetiredStaysDown ==
  /\ retire \in {"draining", "drained"} => RoomIsDown
  /\ retire = "drained" => \A t \in Tasks : ~CallLive(t)

SessionInv ==
  /\ RoomTypes
  /\ AttemptsDistinct /\ NestedCallAwaited
  /\ StateOwnsSession /\ NativeBelongsToBundle
  /\ ConnectingHasWorker /\ CommittedOwnsNothing
  /\ StaleBundleHasOwner /\ NoOrphanSignal
  /\ RetiredStaysDown

\* A detached bundle is not of the current generation, nor of a later one; once
\* Retire has drained, no callback is under way and what is still to be closed is
\* in other hands.
TeardownInv ==
  /\ \A d \in detached : d.bundle < session_generation
  /\ retire = "drained" => calls = {} /\ \A d \in detached : d.by # 0

(* What a generation can still become, and who may drive it: the inductive *)
(* invariant behind OneReconnector.                                        *)

\* Nobody connects under the current generation and no bundle belongs to it:
\* the generation a teardown or a failed attempt left behind.
NoSession == installed # session_generation /\ connection_state # "Connecting"

\* What refers to a generation refers to one that was handed out; under a
\* generation without a session nothing of it is left, and an attempt is at work
\* exactly while the room is Connecting.
GenerationsAccounted ==
  /\ \A g \in closing : g <= session_generation
  /\ \A e \in events : e.gen <= session_generation
  /\ \A t \in Tasks :
        CallWorking(t) /\ call[t].gen = session_generation => connection_state = "Connecting"
  /\ connection_state = "Connecting" => session_generation \notin closing
  /\ NoSession =>
       /\ \A t \in Tasks : CallLive(t) => call[t].gen # session_generation
       /\ session_generation \notin open \cup closing
       /\ \A e \in events : e.gen # session_generation

\* In the loop of attempts, resuming, or about to restart or give up.
Recovering(r) ==
  rec[r].pc \in {"loop", "delay", "resume", "restarting", "sync", "ice", "teardown",
                 "exhausted", "giveup"}

\* In a full restart, before full_restart_commit.
Restarting(r) ==
  \/ rec[r].pc \in {"restart", "connecting"}
  \/ rec[r].pc = "catch" /\ rec[r].cg = rec[r].rg + 1

\* In a full restart, after full_restart_commit.
Republishing(r) ==
  \/ rec[r].pc \in {"republish", "channel"}
  \/ rec[r].pc = "catch" /\ rec[r].cg = rec[r].rg

\* Reconnector r drives the current generation, or would take it over: a restart
\* claims the generation its connect gets and the one its rollback leaves.
Claims(r) ==
  \/ /\ Recovering(r) \/ Restarting(r) \/ Republishing(r) \/ rec[r].pc = "disconnected"
     /\ rec[r].rg = session_generation
  \/ /\ Restarting(r) /\ reconnect_active
     /\ \/ session_generation = rec[r].rg + 1
        \/ session_generation = rec[r].rg + 2 /\ NoSession

\* What the generations a reconnector remembers are.
FrameWellFormed(r) ==
  /\ rec[r].rg <= session_generation
  /\ rec[r].pc = "connecting" => rec[r].cg = rec[r].rg + 1
  /\ rec[r].pc \in {"republish", "channel"} => rec[r].cg = rec[r].rg
  /\ rec[r].pc = "catch" => rec[r].cg \in {rec[r].rg, rec[r].rg + 1}
  /\ Restarting(r) \/ Republishing(r) => rec[r].rg > 0
  /\ connection_state = "Connecting" /\ rec[r].rg = session_generation
        => rec[r].pc = "off"

FramesWellFormed == \A r \in Reconnects : FrameWellFormed(r)

\* A claim is the ownership reconnect_active_ stands for, and is exclusive.
ClaimsExclusive ==
  /\ \A r \in Reconnects : Claims(r) /\ rec[r].pc # "disconnected" => reconnect_active
  /\ \A r, q \in Reconnects : Claims(r) /\ Claims(q) => r = q

\* What the phase of a recovery says of the room, while it is the recovery's.
PhaseAgrees(r) ==
  /\ Recovering(r) /\ rec[r].rg = session_generation => connection_state = "Reconnecting"
  /\ Restarting(r) /\ session_generation = rec[r].rg => NoSession
  /\ Restarting(r) /\ session_generation = rec[r].rg + 1 =>
       (reconnect_active <=> ~NoSession)
  /\ Republishing(r) /\ session_generation = rec[r].rg =>
       installed = session_generation /\ connection_state # "Connecting"
  /\ Republishing(r) /\ session_generation = rec[r].rg + 1 =>
       NoSession /\ ~reconnect_active
  /\ rec[r].pc = "disconnected" /\ rec[r].rg = session_generation =>
       NoSession /\ ~reconnect_active

PhasesAgree == \A r \in Reconnects : PhaseAgrees(r)

RecoveryInv ==
  /\ SessionInv
  /\ GenerationsAccounted /\ FramesWellFormed /\ ClaimsExclusive /\ PhasesAgree

\* The room was disconnected by the Close of a session it still holds: nothing
\* but a teardown leaves this state.
DownForGood == connection_state = "Disconnected" /\ installed = session_generation

\* A queued OnDisconnected of the current generation means that the session is
\* over and that no recovery owns the room.
FarewellsFinal ==
  /\ \A g \in farewells : g <= session_generation
  /\ session_generation \in farewells =>
       DownForGood \/ (NoSession /\ ~reconnect_active)

\* Reconnector r has nothing left to report but an end: whatever made the room
\* Connected or Reconnecting again has been announced, and no recovery succeeds.
NotReviving(r) ==
  /\ rec[r].rg = session_generation =>
       /\ connection_state = "Connected" =>
            rec[r].pc \notin {"announce", "spawned", "reconnected"}
       /\ connection_state = "Reconnecting" => rec[r].pc \notin {"spawned", "reconnected"}
  /\ Claims(r) /\ rec[r].pc # "disconnected" => DownForGood

\* OnDisconnected was the last word of the sessions so far.
DisconnectedIsLast ==
  ~Retired /\ told = "Disconnected" => \A r \in Reconnects : NotReviving(r)

ListenerInv == RecoveryInv /\ FarewellsFinal /\ DisconnectedIsLast

\* The executor makes one call of the listener at a time, its OnDisconnected follows
\* the admission of one, and with it heard no OnReconnected is on its way any more.
CallsInOrder ==
  /\ \A c, d \in calls : c.kind # "UserLeave" /\ d.kind # "UserLeave" => c = d
  /\ \A c \in calls : c.kind = "Disconnected" => told = "Disconnected"
  /\ heard = "Disconnected" =>
       /\ \A c \in calls : c.kind # "Reconnected"
       /\ told = "Disconnected" \/ ExecutorBusy

(* Why a server's leave is final, of a room nobody has called Disconnect   *)
(* on: the inductive invariant behind ServerLeaveIsFinal.                  *)

\* The full restart of reconnector r has yet to enter ConnectAsync, which takes it
\* for a fresh connect unless the recovery still owns the room.
RestartWaits(r) ==
  \/ rec[r].pc = "restart"
  \/ rec[r].pc = "connecting" /\ call[r].pc = "ready"

\* Nothing has happened since the teardown of r: no leave, no other connect.
RestartUndisturbed(r) ==
  /\ rec[r].rg = session_generation
  /\ connection_state = "Disconnected" /\ installed = 0
  /\ reconnect_active
  /\ ended = "no"

\* A reconnector that drives the session, or whose announcement is past or was
\* overtaken by the recovery of another one.
Announced(r) ==
  \/ Claims(r)
  \/ /\ rec[r].rg = session_generation
     /\ \/ rec[r].pc = "spawned" /\ connection_state \in {"Connected", "Reconnecting"}
        \/ rec[r].pc = "announce" /\ connection_state = "Connected"

\* Until Retire, a restart is undisturbed while it waits, and the listener of a
\* recovering room has heard something: the application that waits to be told
\* does not connect anew.
RecoveriesUndisturbed ==
  ~Retired => \A r \in Reconnects :
    /\ RestartWaits(r) => RestartUndisturbed(r)
    /\ Announced(r) => told # "None"

\* The leave disables recovery, and its finalizer runs against a session that the
\* leave has ended.
LeaveAccounted ==
  /\ ended = "server" => reconnect_disabled
  /\ ended = "user" => Retired
  /\ \A g \in finalizers : g <= session_generation
  /\ session_generation \in finalizers => ended # "no"

ServerInv ==
  /\ ListenerInv
  /\ disconnects = 0 => RecoveriesUndisturbed /\ LeaveAccounted

\* What was admitted has been heard, or is being heard on the executor, and nobody
\* said goodbye.
ToldIsHeard ==
  disconnects = 0 /\ ~Retired =>
    /\ goodbyes = {} /\ heard # "UserLeave" /\ \A c \in calls : c.kind # "UserLeave"
    /\ told = "None" \/ heard # "None" \/ ExecutorBusy

=============================================================================
