------------------------ MODULE RoomLifecycle_proofs ------------------------
(* Proofs about RoomLifecycle, for any number of connect attempts and      *)
(* reconnectors and any number of faults.                                  *)
EXTENDS RoomLifecycle, TLAPS

LEMMA TypeInit == Init => RoomTypes
<1> SUFFICES ASSUME Init PROVE RoomTypes
  OBVIOUS
<1>1. call \in [Tasks -> CallFrame]
  BY DEF Init, CallFrame, CallPc
<1>2. rec \in [Reconnects -> RecFrame]
  BY DEF Init, RecFrame, RecPc
<1> QED BY <1>1, <1>2 DEF Init, RoomTypes, ConnectionState

\* Every step of ConnectAsync keeps the types.
LEMMA TypeConnect ==
  ASSUME RoomTypes, NEW t \in Tasks, ConnectStep(t)
  PROVE  RoomTypes'
<1> USE DEF RoomTypes, ConnectionState, roomVars, recoveryVars, signalVars,
            noticeVars, userVars, CallGoto
<1>f. /\ call[t] \in CallFrame
      /\ call[t].gen \in Nat
  BY DEF CallFrame
<1>p. ASSUME NEW pc \in CallPc, CallGoto(t, pc)
      PROVE  call' \in [Tasks -> CallFrame]
  BY <1>p DEF CallFrame
<1>1. CASE ConnectRefused(t)
  <2>1. call' \in [Tasks -> CallFrame]
    BY <1>1, <1>p DEF ConnectRefused, CallPc
  <2> QED BY <1>1, <2>1 DEF ConnectRefused
<1>2. CASE ConnectStart(t)
  <2>1. call' \in [Tasks -> CallFrame]
    BY <1>2 DEF ConnectStart, CallFrame, CallPc
  <2>2. reconnect_disabled' \in BOOLEAN /\ finalizing' \in BOOLEAN
    BY <1>2 DEF ConnectStart
  <2>3. ended' \in {"no", "user", "server"}
    BY <1>2 DEF ConnectStart
  <2> QED BY <1>2, <2>1, <2>2, <2>3 DEF ConnectStart
<1>3. CASE SignalJoined(t)
  <2>1. call' \in [Tasks -> CallFrame]
    BY <1>3, <1>p DEF SignalJoined, CallPc
  <2> QED BY <1>3, <1>f, <2>1 DEF SignalJoined
<1>4. CASE JoinCommit(t)
  <2>1. call' \in [Tasks -> CallFrame]
    BY <1>4, <1>p DEF JoinCommit, CallPc
  <2> QED BY <1>4, <1>f, <2>1 DEF JoinCommit
<1>5. CASE NativeCommit(t)
  <2>1. call' \in [Tasks -> CallFrame]
    BY <1>5, <1>p DEF NativeCommit, CallPc
  <2> QED BY <1>5, <1>f, <2>1 DEF NativeCommit
<1>6. CASE ConnectCommit(t)
  <2>1. call' \in [Tasks -> CallFrame]
    BY ZenonT(30), <1>6 DEF ConnectCommit, CallFrame, CallPc
  <2> QED BY <1>6, <2>1 DEF ConnectCommit
<1>7. CASE ConnectReturn(t)
  <2>1. call' \in [Tasks -> CallFrame]
    BY <1>7, <1>p DEF ConnectReturn, CallPc
  <2> QED BY <1>7, <2>1 DEF ConnectReturn, Deliver
<1>8. CASE ConnectThrows(t)
  <2>1. call' \in [Tasks -> CallFrame]
    BY <1>8, <1>p DEF ConnectThrows, CallPc
  <2> QED BY <1>8, <2>1 DEF ConnectThrows
<1>9. CASE ConnectRollback(t)
  <2>1. call' \in [Tasks -> CallFrame]
    BY <1>9, <1>p DEF ConnectRollback, CallPc
  <2>2. /\ session_generation' \in Nat /\ installed' \in Nat /\ native' \in Nat
        /\ connection_state' \in ConnectionState
    BY <1>9 DEF ConnectRollback
  <2>3. suppress' \in BOOLEAN
    BY <1>9 DEF ConnectRollback
  <2>4. open' \subseteq Nat /\ dead' \subseteq open'
    BY <1>9 DEF ConnectRollback
  <2> QED BY <1>9, <2>1, <2>2, <2>3, <2>4 DEF ConnectRollback, RollbackFrame
<1> QED
  BY <1>1, <1>2, <1>3, <1>4, <1>5, <1>6, <1>7, <1>8, <1>9 DEF ConnectStep

\* The updates of a reconnector's frame the code makes keep its type.
LEMMA RecFrameUpdates ==
  ASSUME rec \in [Reconnects -> RecFrame], NEW r \in Reconnects, NEW pc \in RecPc
  PROVE  /\ [rec EXCEPT ![r].pc = pc] \in [Reconnects -> RecFrame]
         /\ [rec EXCEPT ![r].pc = pc, ![r].tries = @ + 1] \in [Reconnects -> RecFrame]
         /\ \A full \in BOOLEAN :
              [rec EXCEPT ![r].pc = pc, ![r].full = full] \in [Reconnects -> RecFrame]
         /\ \A g \in Nat :
              /\ [rec EXCEPT ![r].pc = pc, ![r].rg = g] \in [Reconnects -> RecFrame]
              /\ [rec EXCEPT ![r].pc = pc, ![r].cg = g] \in [Reconnects -> RecFrame]
              /\ [rec EXCEPT ![r].pc = pc, ![r].rg = g, ![r].cg = 0]
                   \in [Reconnects -> RecFrame]
<1>1. rec[r] \in RecFrame /\ rec[r].tries \in Nat
  BY DEF RecFrame
<1>2. rec[r].tries + 1 \in Nat
  BY <1>1
<1>3. [rec EXCEPT ![r].pc = pc, ![r].tries = @ + 1] \in [Reconnects -> RecFrame]
  BY <1>2 DEF RecFrame
<1>4. [rec EXCEPT ![r].pc = pc] \in [Reconnects -> RecFrame]
  BY DEF RecFrame
<1>5. \A full \in BOOLEAN :
        [rec EXCEPT ![r].pc = pc, ![r].full = full] \in [Reconnects -> RecFrame]
  BY DEF RecFrame
<1>6. \A g \in Nat :
        /\ [rec EXCEPT ![r].pc = pc, ![r].rg = g] \in [Reconnects -> RecFrame]
        /\ [rec EXCEPT ![r].pc = pc, ![r].cg = g] \in [Reconnects -> RecFrame]
        /\ [rec EXCEPT ![r].pc = pc, ![r].rg = g, ![r].cg = 0]
             \in [Reconnects -> RecFrame]
  BY DEF RecFrame
<1> QED BY <1>3, <1>4, <1>5, <1>6

\* The teardown of Disconnect and Retire keeps the types.
LEMMA TypeTearDown ==
  ASSUME RoomTypes, NEW by, TearDownForUser(by),
         retire' \in {"no", "closed", "draining", "drained"}, disconnects' \in Nat
  PROVE  RoomTypes'
<1>1. farewells' \subseteq Nat
  BY DEF RoomTypes, TearDownForUser
<1> QED
  BY <1>1 DEF RoomTypes, TearDownForUser, ConnectionState

\* Whatever the network, the server, the application and Retire do keeps them.
LEMMA TypeOutside ==
  ASSUME RoomTypes, Environment \/ RetireDisconnects \/ RetireDrained
  PROVE  RoomTypes'
<1> USE DEF RoomTypes, ConnectionState, roomVars, recoveryVars, signalVars,
            noticeVars, userVars, vars
<1>g. Generations \subseteq Nat
  BY DEF Generations
<1>1. CASE Disconnect
  <2>1. CASE UNCHANGED vars
    BY <2>1
  <2>2. CASE /\ disconnects' = disconnects + 1 /\ UNCHANGED retire
             /\ TearDownForUser(session_generation + 1)
    BY <2>2, TypeTearDown
  <2> QED BY <1>1, <2>1, <2>2 DEF Disconnect
<1>2. ASSUME NEW g \in Generations, TransportCloses(g)
      PROVE  RoomTypes'
  BY <1>2, <1>g DEF TransportCloses
<1>3. ASSUME NEW g \in Generations, ServerSendsLeave(g)
      PROVE  RoomTypes'
  BY <1>3, <1>g DEF ServerSendsLeave
<1>4. CASE RetireBegins
  BY <1>4 DEF RetireBegins
<1>5. CASE RetireDisconnects
  <2>1. CASE TearDownForUser(0)
    BY <1>5, <2>1, TypeTearDown DEF RetireDisconnects
  <2>2. CASE ~TearDownForUser(0)
    BY <1>5, <2>2 DEF RetireDisconnects
  <2> QED BY <2>1, <2>2
<1>6. CASE RetireDrained
  BY <1>6 DEF RetireDrained
<1> QED
  BY <1>1, <1>2, <1>3, <1>4, <1>5, <1>6 DEF Environment

\* The handlers of the signal events, the ends of a teardown and the listener keep
\* the types.
LEMMA TypeHandlers ==
  ASSUME RoomTypes, HandlersStep \/ TeardownEnds \/ ListenerRuns
  PROVE  RoomTypes'
<1> USE DEF RoomTypes, ConnectionState, roomVars, recoveryVars, signalVars,
            noticeVars, userVars, ClosePending, LeavePending
<1>g. Generations \subseteq Nat
  BY DEF Generations
<1>1. ASSUME NEW e \in events, DropStaleEvent(e)
      PROVE  RoomTypes'
  BY <1>1 DEF DropStaleEvent
<1>2. ASSUME NEW g \in Generations, NEW r \in Reconnects, CloseStartsReconnect(g, r)
      PROVE  RoomTypes'
  <2>1. rec' = [rec EXCEPT ![r].pc = "announce", ![r].rg = session_generation]
    BY <1>2 DEF CloseStartsReconnect
  <2>2. rec' \in [Reconnects -> RecFrame]
    BY ZenonT(30), <2>1, RecFrameUpdates DEF RecPc
  <2> QED BY <1>2, <2>2 DEF CloseStartsReconnect
<1>3. ASSUME NEW g \in Generations, CloseFailsConnect(g)
      PROVE  RoomTypes'
  BY <1>3 DEF CloseFailsConnect
<1>4. ASSUME NEW g \in Generations, CloseElsewhere(g)
      PROVE  RoomTypes'
  <2>1. closing' \subseteq Nat
    BY <1>4, <1>g DEF CloseElsewhere
  <2> QED BY <1>4, <2>1 DEF CloseElsewhere
<1>5. ASSUME NEW g \in Generations, CloseDisconnects(g)
      PROVE  RoomTypes'
  <2>1. connection_state' \in ConnectionState /\ farewells' \subseteq Nat
    BY <1>5 DEF CloseDisconnects
  <2> QED BY <1>5, <2>1 DEF CloseDisconnects
<1>6. ASSUME NEW g \in Generations, BeginServerDisconnect(g)
      PROVE  RoomTypes'
  BY <1>6, <1>g DEF BeginServerDisconnect
<1>7. ASSUME NEW g \in Generations, IgnoreLeave(g)
      PROVE  RoomTypes'
  BY <1>7 DEF IgnoreLeave
<1>8. ASSUME NEW g \in Generations, FinalizeServerDisconnect(g)
      PROVE  RoomTypes'
  <2>0. /\ finalizers' \subseteq Nat
        /\ UNCHANGED <<open, dead, events, faults, leaves, closing, told, call, rec,
                       userVars>>
    BY <1>8 DEF FinalizeServerDisconnect
  <2>1. CASE ~IsSignalGenerationCurrent(g)
    <3>1. UNCHANGED <<roomVars, recoveryVars, farewells>>
      BY <1>8, <2>1 DEF FinalizeServerDisconnect
    <3> QED BY <2>0, <3>1
  <2>2. CASE /\ IsSignalGenerationCurrent(g)
             /\ connection_state = "Disconnected" /\ installed = 0
    <3>1. /\ UNCHANGED <<roomVars, reconnect_active, reconnect_disabled,
                         reconnect_attempts, suppress, farewells>>
          /\ finalizing' \in BOOLEAN
      BY <1>8, <2>2 DEF FinalizeServerDisconnect
    <3> QED BY <2>0, <3>1
  <2>3. CASE /\ IsSignalGenerationCurrent(g)
             /\ ~(connection_state = "Disconnected" /\ installed = 0)
    <3>1. /\ connection_state' = "Disconnected" /\ reconnect_attempts' = 0
          /\ reconnect_active' = FALSE /\ finalizing' = FALSE /\ suppress' = FALSE
          /\ session_generation' = session_generation + 1
          /\ installed' = 0 /\ native' = 0
          /\ farewells' = farewells \cup {session_generation + 1}
          /\ UNCHANGED reconnect_disabled
      BY <1>8, <2>3 DEF FinalizeServerDisconnect
    <3>2. farewells' \subseteq Nat
      BY <3>1
    <3> QED BY <2>0, <3>1, <3>2
  <2> QED BY <2>1, <2>2, <2>3
<1>9. ASSUME NEW g, NEW kind \in {"Disconnected", "UserLeave"},
             DeliverDisconnected(g, kind)
      PROVE  RoomTypes'
  <2>1. told' \in {"None", "Connected", "Reconnecting", "Reconnected", "Disconnected"}
    BY <1>9 DEF DeliverDisconnected, Deliver
  <2> QED BY <1>9, <2>1 DEF DeliverDisconnected
<1>10. ASSUME NEW d \in detached, CloseDetached(d)
       PROVE  RoomTypes'
  <2>1. open' \subseteq Nat /\ dead' \subseteq open'
    BY <1>10 DEF CloseDetached
  <2> QED BY <1>10, <2>1 DEF CloseDetached
<1>11. ASSUME NEW c \in calls, ListenerCalled(c)
       PROVE  RoomTypes'
  BY <1>11 DEF ListenerCalled
<1> QED
  BY <1>1, <1>2, <1>3, <1>4, <1>5, <1>6, <1>7, <1>8, <1>9, <1>10, <1>11
  DEF HandlersStep, HandlerStep, TeardownEnds, ListenerRuns

\* A coroutine that stops keeps the types.
LEMMA TypeStop ==
  ASSUME RoomTypes, NEW r \in Reconnects, NEW stop \in BOOLEAN, StopIf(r, stop)
  PROVE  RoomTypes'
<1>1. rec' \in [Reconnects -> RecFrame]
  BY RecFrameUpdates DEF RoomTypes, StopIf, RecGoto, RecPc
<1>2. reconnect_active' \in BOOLEAN
  BY DEF RoomTypes, StopIf
<1> QED
  BY <1>1, <1>2 DEF RoomTypes, StopIf, roomVars, signalVars, noticeVars, userVars

\* Every step of AttemptReconnect keeps the types.
LEMMA TypeReconnect ==
  ASSUME RoomTypes, NEW r \in Reconnects, ReconnectStep(r)
  PROVE  RoomTypes'
<1> USE DEF ConnectionState, roomVars, recoveryVars, signalVars,
            noticeVars, userVars, recFrameOnly
<1>f. /\ rec \in [Reconnects -> RecFrame] /\ session_generation \in Nat
      /\ rec[r].rg \in Nat /\ rec[r].cg \in Nat /\ r \in Tasks
      /\ session_generation + 1 \in Nat /\ rec[r].rg + 1 \in Nat
  BY DEF RoomTypes, RecFrame, Tasks
<1>p. ASSUME NEW pc \in RecPc, RecGoto(r, pc)
      PROVE  rec' \in [Reconnects -> RecFrame]
  BY <1>f, <1>p, RecFrameUpdates DEF RecGoto
<1>o. ASSUME recFrameOnly' = recFrameOnly, rec' \in [Reconnects -> RecFrame]
      PROVE  RoomTypes'
  <2>1. /\ UNCHANGED <<connection_state, session_generation, installed, native>>
        /\ UNCHANGED <<reconnect_active, reconnect_disabled, finalizing,
                       reconnect_attempts, suppress>>
        /\ UNCHANGED <<open, dead, events, faults, leaves>>
        /\ UNCHANGED <<closing, finalizers, farewells, told>>
        /\ UNCHANGED <<call, retire, ended, disconnects>>
    BY <1>o
  <2> QED BY <1>o, <2>1 DEF RoomTypes
<1>1. CASE AnnounceReconnecting(r)
  <2>1. rec' \in [Reconnects -> RecFrame]
    BY <1>1, <1>p DEF AnnounceReconnecting, RecPc
  <2>2. told' \in {"None", "Connected", "Reconnecting", "Reconnected", "Disconnected"}
    BY <1>1 DEF AnnounceReconnecting, Deliver, RoomTypes
  <2> QED BY <1>1, <2>1, <2>2 DEF AnnounceReconnecting, RoomTypes
<1>2. CASE ReconnectBegins(r)
  <2>1. rec' \in [Reconnects -> RecFrame]
    <3>1. \A full \in BOOLEAN : [rec EXCEPT ![r].pc = "loop", ![r].full = full]
                                  \in [Reconnects -> RecFrame]
      BY <1>f, RecFrameUpdates DEF RecPc
    <3>2. \/ \E full \in BOOLEAN : rec' = [rec EXCEPT ![r].pc = "loop", ![r].full = full]
          \/ RecGoto(r, "done")
      BY <1>2 DEF ReconnectBegins
    <3> QED BY <3>1, <3>2, <1>p DEF RecPc
  <2>2. reconnect_active' \in BOOLEAN
    BY <1>2 DEF ReconnectBegins, RoomTypes
  <2> QED BY <1>2, <2>1, <2>2 DEF ReconnectBegins, RoomTypes
<1>3. CASE NextAttempt(r)
  BY <1>3, <1>f, <1>o, RecFrameUpdates DEF NextAttempt, RecPc
<1>4. CASE AttemptsExhausted(r)
  BY <1>4, <1>p, <1>o DEF AttemptsExhausted, RecPc
<1>5. CASE DelayOver(r)
  <2>1. CASE StopIf(r, ToldToStop(r))
    BY <2>1, TypeStop DEF StopIf
  <2>2. CASE ~StopIf(r, ToldToStop(r))
    BY <1>5, <2>2, <1>p, <1>o DEF DelayOver, RecPc
  <2> QED BY <2>1, <2>2
<1>6. CASE ResumeBegins(r)
  BY <1>6, <1>p, <1>o DEF ResumeBegins, RecPc
<1>7. CASE SignalRestarts(r)
  <2>1. rec' \in [Reconnects -> RecFrame]
    BY <1>7, <1>p DEF SignalRestarts, RecPc
  <2>2. dead' \subseteq open'
    BY <1>7 DEF SignalRestarts, RoomTypes
  <2> QED BY <1>7, <2>1, <2>2 DEF SignalRestarts, RoomTypes
<1>8. CASE SyncStateSent(r)
  BY <1>8, <1>p, <1>o DEF SyncStateSent, RecPc
<1>9. CASE ResumeCommit(r)
  <2>1. rec' \in [Reconnects -> RecFrame]
    BY <1>9, <1>p DEF ResumeCommit, RecPc
  <2> QED BY <1>9, <2>1 DEF ResumeCommit, RoomTypes
<1>10. CASE ResumeThrows(r)
  BY <1>10, <1>f, <1>o, RecFrameUpdates DEF ResumeThrows, RecPc
<1>11. CASE FullRestartTeardown(r)
  <2>1. CASE StopIf(r, reconnect_disabled)
    BY <2>1, TypeStop DEF RoomTypes
  <2>2. CASE ~StopIf(r, reconnect_disabled)
    <3>1. /\ rec' = [rec EXCEPT ![r].pc = "restart",
                             ![r].rg = session_generation + 1, ![r].cg = 0]
          /\ open' = open \ {installed} /\ dead' = dead \ {installed}
          /\ installed' = 0 /\ native' = 0 /\ connection_state' = "Disconnected"
          /\ session_generation' = session_generation + 1
          /\ suppress' \in BOOLEAN /\ reconnect_active' \in {reconnect_active, FALSE}
          /\ UNCHANGED <<reconnect_disabled, finalizing, reconnect_attempts, events,
                         faults, leaves, noticeVars, call, userVars>>
      BY <1>11, <2>2 DEF FullRestartTeardown
    <3>g. \A g \in Nat : [rec EXCEPT ![r].pc = "restart", ![r].rg = g, ![r].cg = 0]
                           \in [Reconnects -> RecFrame]
      BY <1>f, RecFrameUpdates DEF RecPc
    <3>2. rec' \in [Reconnects -> RecFrame]
      BY <3>1, <3>g, <1>f
    <3>3. open' \subseteq Nat /\ dead' \subseteq open'
      BY <3>1 DEF RoomTypes
    <3>4. reconnect_active' \in BOOLEAN
      BY <3>1 DEF RoomTypes
    <3> QED BY <3>1, <3>2, <3>3, <3>4 DEF RoomTypes
  <2> QED BY <2>1, <2>2
<1>12. CASE RestartConnects(r)
  <2>1. rec' \in [Reconnects -> RecFrame]
    <3>1. rec' = [rec EXCEPT ![r].pc = "connecting", ![r].cg = rec[r].rg + 1]
      BY <1>12 DEF RestartConnects
    <3>2. \A g \in Nat : [rec EXCEPT ![r].pc = "connecting", ![r].cg = g]
                           \in [Reconnects -> RecFrame]
      BY <1>f, RecFrameUpdates DEF RecPc
    <3> QED BY <3>1, <3>2, <1>f
  <2>2. call' \in [Tasks -> CallFrame]
    BY <1>12, <1>f DEF RestartConnects, CallGoto, CallFrame, CallPc, RoomTypes
  <2> QED BY <1>12, <2>1, <2>2 DEF RestartConnects, RoomTypes
<1>13. CASE RestartConnected(r)
  <2>1. rec' \in [Reconnects -> RecFrame]
    <3>1. \/ rec' = [rec EXCEPT ![r].pc = "republish", ![r].rg = rec[r].cg]
          \/ rec' = [rec EXCEPT ![r].pc = "catch"]
      BY <1>13 DEF RestartConnected
    <3>2. /\ \A g \in Nat : [rec EXCEPT ![r].pc = "republish", ![r].rg = g]
                              \in [Reconnects -> RecFrame]
          /\ [rec EXCEPT ![r].pc = "catch"] \in [Reconnects -> RecFrame]
      BY <1>f, RecFrameUpdates DEF RecPc
    <3> QED BY <3>1, <3>2, <1>f
  <2>2. call' \in [Tasks -> CallFrame]
    BY <1>13, <1>f DEF RestartConnected, CallGoto, CallFrame, CallPc, RoomTypes
  <2> QED BY <1>13, <2>1, <2>2 DEF RestartConnected, RoomTypes
<1>14. CASE Republished(r)
  BY <1>14, <1>p, <1>o DEF Republished, RecPc
<1>15. CASE RestartCommit(r)
  <2>1. rec' \in [Reconnects -> RecFrame]
    BY <1>15, <1>p DEF RestartCommit, RecPc
  <2>2. reconnect_attempts' \in Nat
    BY <1>15 DEF RestartCommit, RoomTypes
  <2>3. reconnect_active' \in BOOLEAN
    BY <1>15 DEF RestartCommit, RoomTypes
  <2> QED BY <1>15, <2>1, <2>2, <2>3 DEF RestartCommit, RoomTypes
<1>16. CASE RestartThrows(r)
  BY <1>16, <1>p, <1>o DEF RestartThrows, RecPc
<1>17. CASE RestartFailed(r)
  <2>1. rec' \in [Reconnects -> RecFrame]
    <3>1. \/ rec' = [rec EXCEPT ![r].pc = "loop", ![r].rg = session_generation]
          \/ RecGoto(r, "loop")
          \/ RecGoto(r, "done")
      BY <1>17 DEF RestartFailed
    <3>2. \A g \in Nat : [rec EXCEPT ![r].pc = "loop", ![r].rg = g]
                           \in [Reconnects -> RecFrame]
      BY <1>f, RecFrameUpdates DEF RecPc
    <3> QED BY <3>1, <3>2, <1>f, <1>p DEF RecPc
  <2>2. connection_state' \in ConnectionState /\ suppress' \in BOOLEAN
    BY <1>17 DEF RestartFailed, RoomTypes
  <2> QED BY <1>17, <2>1, <2>2 DEF RestartFailed, RoomTypes
<1>18. CASE GiveUpBegins(r)
  <2>1. CASE StopIf(r, reconnect_disabled)
    BY <2>1, TypeStop DEF RoomTypes
  <2>2. CASE ~StopIf(r, reconnect_disabled)
    BY <1>18, <2>2, <1>p, <1>o DEF GiveUpBegins, RecPc
  <2> QED BY <2>1, <2>2
<1>19. CASE GiveUp(r)
  <2>1. CASE StopIf(r, FALSE)
    BY <2>1, TypeStop DEF RoomTypes
  <2>2. CASE ~StopIf(r, FALSE)
    <3>1. /\ rec' = [rec EXCEPT ![r].pc = "disconnected",
                             ![r].rg = session_generation + 1]
          /\ open' = open \ {installed} /\ dead' = dead \ {installed}
          /\ installed' = 0 /\ native' = 0 /\ connection_state' = "Disconnected"
          /\ session_generation' = session_generation + 1
          /\ suppress' \in BOOLEAN /\ reconnect_active' \in {reconnect_active, FALSE}
          /\ UNCHANGED <<reconnect_disabled, finalizing, reconnect_attempts, events,
                         faults, leaves, noticeVars, call, userVars>>
      BY <1>19, <2>2 DEF GiveUp
    <3>2. rec' \in [Reconnects -> RecFrame]
      BY ZenonT(30), <3>1, <1>f, RecFrameUpdates DEF RecPc
    <3>3. open' \subseteq Nat /\ dead' \subseteq open'
      BY <3>1 DEF RoomTypes
    <3>4. reconnect_active' \in BOOLEAN
      BY <3>1 DEF RoomTypes
    <3> QED BY <3>1, <3>2, <3>3, <3>4 DEF RoomTypes
  <2> QED BY <2>1, <2>2
<1>20. CASE AnnounceOutcome(r)
  <2>1. rec' \in [Reconnects -> RecFrame]
    BY <1>20, <1>p DEF AnnounceOutcome, RecPc
  <2>2. told' \in {"None", "Connected", "Reconnecting", "Reconnected", "Disconnected"}
    BY <1>20 DEF AnnounceOutcome, Deliver, RoomTypes
  <2> QED BY <1>20, <2>1, <2>2 DEF AnnounceOutcome, RoomTypes
<1> QED
  BY <1>1, <1>2, <1>3, <1>4, <1>5, <1>6, <1>7, <1>8, <1>9, <1>10, <1>11,
     <1>12, <1>13, <1>14, <1>15, <1>16, <1>17, <1>18, <1>19, <1>20
  DEF ReconnectStep

\* Every step keeps the types.
LEMMA TypeNext == RoomTypes /\ [Next]_vars => RoomTypes'
<1> SUFFICES ASSUME RoomTypes, [Next]_vars PROVE RoomTypes'
  OBVIOUS
<1>1. CASE UNCHANGED vars
  BY <1>1 DEF RoomTypes, vars, roomVars, recoveryVars, signalVars, noticeVars, userVars
<1>2. CASE Next
  BY <1>2, TypeConnect, TypeReconnect, TypeHandlers, TypeOutside DEF Next
<1> QED BY <1>1, <1>2

\* What a step may do to the listener: nothing; the executor, while no call of its own
\* is under way, admits one; a Disconnect admits its own; or a call is made and ends.
Executors == {"Connected", "Reconnecting", "Reconnected", "Disconnected"}

ExecutorAdmits ==
  /\ ~ExecutorBusy /\ ~Retired /\ UNCHANGED <<heard, retire, detached>>
  /\ \E kind \in Executors, ticket \in Ticket :
       told' = kind /\ calls' = calls \cup {[kind |-> kind, ticket |-> ticket]}

DisconnectAdmits ==
  \E g \in goodbyes :
    /\ ~Retired /\ UNCHANGED <<heard, retire, detached>>
    /\ told' = "Disconnected"
    /\ calls' = calls \cup {[kind |-> "UserLeave", ticket |-> <<"listener", g>>]}

CallEnds == \E c \in calls : ListenerCalled(c)

LEMMA Admissions ==
  ASSUME ~ExecutorBusy, NEW kind \in Executors, NEW ticket \in Ticket, NEW g, NEW s,
         Deliver(kind, g, s, ticket), UNCHANGED <<heard, retire, detached>>
  PROVE  UNCHANGED <<told, calls, heard>> \/ ExecutorAdmits
<1>1. CASE AdmitListener(g, s)
  BY <1>1 DEF Deliver, AdmitListener, ExecutorAdmits, Executors
<1>2. CASE ~AdmitListener(g, s)
  BY <1>2 DEF Deliver
<1> QED BY <1>1, <1>2

LEMMA Deliveries ==
  ASSUME RoomTypes, goodbyes \subseteq farewells, [Next]_vars
  PROVE  UNCHANGED <<told, calls, heard>> \/ ExecutorAdmits \/ DisconnectAdmits \/ CallEnds
<1> USE DEF roomVars, recoveryVars, signalVars, noticeVars, userVars
<1>0. CASE UNCHANGED vars
  BY <1>0 DEF vars
<1>1. ASSUME ~ExecutorBusy, NEW t \in Tasks, ConnectStep(t)
      PROVE  UNCHANGED <<told, calls, heard>> \/ ExecutorAdmits
  <2>1. CASE ConnectReturn(t) /\ call[t].notify
    <3>1. /\ Deliver("Connected", call[t].gen, "Connected", <<"call", t>>)
          /\ UNCHANGED <<heard, retire, detached>>
      BY <2>1 DEF ConnectReturn
    <3>2. "Connected" \in Executors /\ <<"call", t>> \in Ticket
      BY DEF Executors, Ticket
    <3> QED BY <1>1, <3>1, <3>2, Admissions
  <2>2. CASE ~(ConnectReturn(t) /\ call[t].notify)
    BY <1>1, <2>2
    DEF ConnectStep, ConnectRefused, ConnectStart, SignalJoined, JoinCommit, NativeCommit,
        ConnectCommit, ConnectReturn, ConnectThrows, ConnectRollback, RollbackFrame
  <2> QED BY <2>1, <2>2
<1>2. ASSUME ~ExecutorBusy, NEW r \in Reconnects, ReconnectStep(r)
      PROVE  UNCHANGED <<told, calls, heard>> \/ ExecutorAdmits
  <2>0. <<"rec", r>> \in Ticket /\ Executors = Executors
    BY DEF Ticket, Tasks
  <2>1. CASE AnnounceReconnecting(r)
    <3>1. /\ Deliver("Reconnecting", rec[r].rg, "Reconnecting", <<"rec", r>>)
          /\ UNCHANGED <<heard, retire, detached>> /\ "Reconnecting" \in Executors
      BY <2>1 DEF AnnounceReconnecting, Executors
    <3> QED BY <1>2, <2>0, <3>1, Admissions
  <2>2. CASE AnnounceOutcome(r)
    <3>1. /\ \/ Deliver("Reconnected", rec[r].rg, "Connected", <<"rec", r>>)
             \/ Deliver("Disconnected", rec[r].rg, "Disconnected", <<"rec", r>>)
          /\ UNCHANGED <<heard, retire, detached>>
          /\ "Reconnected" \in Executors /\ "Disconnected" \in Executors
      BY <2>2 DEF AnnounceOutcome, Executors
    <3> QED BY <1>2, <2>0, <3>1, Admissions
  <2>3. CASE ~AnnounceReconnecting(r) /\ ~AnnounceOutcome(r)
    <3>1. UNCHANGED noticeVars
      BY <1>2, <2>3
      DEF ReconnectStep, ReconnectBegins, NextAttempt, AttemptsExhausted, DelayOver,
          ResumeBegins, SignalRestarts, SyncStateSent, ResumeCommit, ResumeThrows,
          FullRestartTeardown, RestartConnects, RestartConnected, Republished,
          RestartCommit, RestartThrows, RestartFailed, GiveUpBegins, GiveUp, StopIf,
          recFrameOnly
    <3> QED BY <3>1
  <2> QED BY <2>1, <2>2, <2>3
<1>3. ASSUME ~ExecutorBusy, HandlersStep
      PROVE  UNCHANGED <<told, calls, heard>> \/ ExecutorAdmits
  <2>1. ASSUME NEW g, DeliverDisconnected(g, "Disconnected")
        PROVE  UNCHANGED <<told, calls, heard>> \/ ExecutorAdmits
    <3>1. /\ Deliver("Disconnected", g, "Disconnected", <<"listener", g>>)
          /\ UNCHANGED <<heard, retire, detached>>
      BY <2>1 DEF DeliverDisconnected
    <3>2. "Disconnected" \in Executors /\ <<"listener", g>> \in Ticket
      BY <2>1 DEF Executors, Ticket, DeliverDisconnected, RoomTypes
    <3> QED BY <1>3, <3>1, <3>2, Admissions
  <2>2. ASSUME NEW e \in events, DropStaleEvent(e)
        PROVE  UNCHANGED <<told, calls, heard>>
    BY <2>2 DEF DropStaleEvent
  <2>3. ASSUME NEW g, HandlerStep(g), ~DeliverDisconnected(g, "Disconnected")
        PROVE  UNCHANGED <<told, calls, heard>>
    BY <2>3
    DEF HandlerStep, CloseStartsReconnect, CloseFailsConnect, CloseElsewhere,
        CloseDisconnects, BeginServerDisconnect, IgnoreLeave, LeavePending, ClosePending,
        FinalizeServerDisconnect
  <2> QED BY <1>3, <2>1, <2>2, <2>3 DEF HandlersStep
<1>4. ASSUME TeardownEnds
      PROVE  UNCHANGED <<told, calls, heard>> \/ DisconnectAdmits
  <2>1. ASSUME NEW d \in detached, CloseDetached(d)
        PROVE  UNCHANGED <<told, calls, heard>>
    BY <2>1 DEF CloseDetached
  <2>2. ASSUME NEW g \in goodbyes, DeliverDisconnected(g, "UserLeave")
        PROVE  UNCHANGED <<told, calls, heard>> \/ DisconnectAdmits
    <3>1. /\ Deliver("UserLeave", g, "Disconnected", <<"listener", g>>)
          /\ UNCHANGED <<heard, retire, detached>>
      BY <2>2 DEF DeliverDisconnected
    <3>2. CASE AdmitListener(g, "Disconnected")
      BY <3>1, <3>2 DEF Deliver, AdmitListener, DisconnectAdmits
    <3>3. CASE ~AdmitListener(g, "Disconnected")
      BY <3>1, <3>3 DEF Deliver
    <3> QED BY <3>2, <3>3
  <2> QED BY <1>4, <2>1, <2>2 DEF TeardownEnds
<1>5. CASE ListenerRuns
  BY <1>5 DEF ListenerRuns, CallEnds
<1>6. CASE RetireDisconnects \/ RetireDrained \/ Environment
  BY <1>6
  DEF RetireDisconnects, RetireDrained, Environment, Disconnect, TransportCloses,
      ServerSendsLeave, RetireBegins, TearDownForUser, vars
<1> QED
  BY <1>0, <1>1, <1>2, <1>3, <1>4, <1>5, <1>6 DEF Next

\* A step that detaches the installed bundle, and how a step retires the room.
Detaches(by) ==
  /\ session_generation' = session_generation + 1
  /\ detached' = detached \cup {[bundle |-> g, by |-> by] : g \in {installed} \ {0}}

LEMMA Detachments ==
  ASSUME RoomTypes, [Next]_vars
  PROVE  /\ session_generation' \in {session_generation, session_generation + 1}
         /\ \/ detached' \subseteq detached
            \/ Detaches(session_generation + 1)
            \/ Detaches(0) /\ retire' = "draining"
         /\ goodbyes \subseteq farewells => goodbyes' \subseteq farewells'
         /\ retire' = "drained" => retire = "drained" \/ RetireDrained
<1> USE DEF roomVars, recoveryVars, signalVars, noticeVars, userVars
<1> DEFINE Q == /\ session_generation' \in {session_generation, session_generation + 1}
                /\ UNCHANGED <<detached, retire>>
                /\ \/ UNCHANGED <<farewells, goodbyes>>
                   \/ \E g : farewells' = farewells \cup {g} /\ UNCHANGED goodbyes
                   \/ \E g : farewells' = farewells \ {g} /\ goodbyes' = goodbyes \ {g}
<1> DEFINE F == /\ Detaches(session_generation + 1) /\ UNCHANGED <<retire, goodbyes>>
                /\ farewells' = farewells \cup {session_generation + 1}
<1> DEFINE G == /\ session_generation' \in {session_generation, session_generation + 1}
                /\ \/ detached' \subseteq detached
                   \/ Detaches(session_generation + 1)
                   \/ Detaches(0) /\ retire' = "draining"
                /\ goodbyes \subseteq farewells => goodbyes' \subseteq farewells'
                /\ retire' = "drained" => retire = "drained" \/ RetireDrained
<1>q. Q \/ F => G
  BY DEF Detaches
<1>0. ASSUME UNCHANGED vars
      PROVE  G
  BY <1>0 DEF vars
<1>1. ASSUME NEW t \in Tasks, ConnectStep(t)
      PROVE  Q
  BY <1>1
  DEF ConnectStep, ConnectRefused, ConnectStart, SignalJoined, JoinCommit, NativeCommit,
      ConnectCommit, ConnectReturn, ConnectThrows, ConnectRollback, RollbackFrame
<1>2. ASSUME NEW r \in Reconnects, ReconnectStep(r)
      PROVE  Q
  BY <1>2
  DEF ReconnectStep, AnnounceReconnecting, ReconnectBegins, NextAttempt, AttemptsExhausted,
      DelayOver, ResumeBegins, SignalRestarts, SyncStateSent, ResumeCommit, ResumeThrows,
      FullRestartTeardown, RestartConnects, RestartConnected, Republished,
      RestartCommit, RestartThrows, RestartFailed, GiveUpBegins, GiveUp, AnnounceOutcome,
      StopIf, recFrameOnly
<1>3. ASSUME HandlersStep
      PROVE  Q \/ F
  <2>1. ASSUME NEW e \in events, DropStaleEvent(e)
        PROVE  Q
    BY <2>1 DEF DropStaleEvent
  <2>2. ASSUME NEW g, FinalizeServerDisconnect(g)
        PROVE  Q \/ F
    BY <2>2 DEF FinalizeServerDisconnect, Detaches
  <2>3. ASSUME NEW g, HandlerStep(g), ~FinalizeServerDisconnect(g)
        PROVE  Q
    BY <2>3
    DEF HandlerStep, CloseStartsReconnect, CloseFailsConnect, CloseElsewhere,
        CloseDisconnects, BeginServerDisconnect, IgnoreLeave, LeavePending, ClosePending,
        DeliverDisconnected
  <2> QED BY <1>3, <2>1, <2>2, <2>3 DEF HandlersStep
<1>4. ASSUME TeardownEnds
      PROVE  G
  <2>1. ASSUME NEW d \in detached, CloseDetached(d)
        PROVE  /\ UNCHANGED <<session_generation, farewells, goodbyes, retire>>
               /\ detached' \subseteq detached
    BY <2>1 DEF CloseDetached
  <2>2. ASSUME NEW g \in goodbyes, DeliverDisconnected(g, "UserLeave")
        PROVE  Q
    BY <2>2 DEF DeliverDisconnected
  <2> QED BY <1>4, <1>q, <2>1, <2>2 DEF TeardownEnds
<1>5. ASSUME ListenerRuns
      PROVE  G
  BY <1>5 DEF ListenerRuns, ListenerCalled
<1>6. ASSUME Disconnect
      PROVE  G
  BY <1>6 DEF Disconnect, TearDownForUser, Detaches, vars
<1>7. ASSUME RetireDisconnects
      PROVE  G
  BY <1>7 DEF RetireDisconnects, TearDownForUser, Detaches
<1>8. ASSUME RetireDrained
      PROVE  G
  BY <1>8 DEF RetireDrained
<1>9. ASSUME Environment /\ ~Disconnect
      PROVE  G
  BY <1>9 DEF Environment, TransportCloses, ServerSendsLeave, RetireBegins
<1> HIDE DEF Q, F, G
<1>10. G
  BY <1>q, <1>0, <1>1, <1>2, <1>3, <1>4, <1>5, <1>6, <1>7, <1>8, <1>9
  DEF Next, Environment
<1> QED BY <1>10 DEF G

LEMMA OutsideNext ==
  ASSUME RoomTypes, OutsideTypes, [Next]_vars
  PROVE  OutsideTypes'
<1>1. detached' \subseteq [bundle : Nat, by : Nat]
  <2>1. session_generation \in Nat /\ installed \in Nat
    BY DEF RoomTypes
  <2>2. detached \subseteq [bundle : Nat, by : Nat]
    BY DEF OutsideTypes
  <2>3. ASSUME NEW by \in Nat, Detaches(by)
        PROVE  detached' \subseteq [bundle : Nat, by : Nat]
    BY <2>1, <2>2, <2>3 DEF Detaches
  <2> QED BY <2>1, <2>2, <2>3, Detachments
<1>2. goodbyes' \subseteq farewells'
  BY Detachments DEF OutsideTypes
<1>3. /\ calls' \subseteq ListenerCall
      /\ heard' \in {"None", "Connected", "Reconnecting", "Reconnected", "Disconnected",
                     "UserLeave"}
  <2>1. CASE UNCHANGED <<told, calls, heard>>
    BY <2>1 DEF OutsideTypes
  <2>2. CASE ExecutorAdmits
    BY <2>2 DEF ExecutorAdmits, Executors, OutsideTypes, ListenerCall
  <2>3. CASE DisconnectAdmits
    <3>1. PICK g \in goodbyes : /\ UNCHANGED heard
                                /\ calls' = calls \cup {[kind |-> "UserLeave",
                                                         ticket |-> <<"listener", g>>]}
      BY <2>3 DEF DisconnectAdmits
    <3>2. <<"listener", g>> \in Ticket
      BY DEF OutsideTypes, RoomTypes, Ticket
    <3> QED BY <3>1, <3>2 DEF OutsideTypes, ListenerCall
  <2>4. CASE CallEnds
    BY <2>4 DEF CallEnds, ListenerCalled, OutsideTypes, ListenerCall
  <2> QED BY <2>1, <2>2, <2>3, <2>4, Deliveries DEF OutsideTypes
<1> QED BY <1>1, <1>2, <1>3 DEF OutsideTypes

LEMMA TypeOKInit == Init => TypeOK
  BY TypeInit DEF Init, TypeOK, OutsideTypes

LEMMA TypeOKNext == TypeOK /\ [Next]_vars => TypeOK'
  BY TypeNext, OutsideNext DEF TypeOK

\* The variables keep their types, however often the room is connected.
THEOREM TypeCorrect == Spec => []TypeOK
  BY TypeOKInit, TypeOKNext, PTL DEF Spec

-----------------------------------------------------------------------------
(* SessionInv is inductive.  Most steps fall into one of three kinds, each *)
(* with a lemma: steps that leave the session and the attempts alone,      *)
(* teardowns, and steps of calls that are not live.                        *)

LEMMA SessionInit == Init => SessionInv
<1> SUFFICES ASSUME Init PROVE SessionInv
  OBVIOUS
<1>1. \A t \in Tasks : ~CallLive(t) /\ call[t].pc \in {"ready", "idle"}
  BY DEF Init, CallLive
<1>2. NestedCallAwaited
  BY ConstantsAssumption DEF Init, NestedCallAwaited, Tasks
<1>3. Held = {}
  BY DEF Init, Held
<1> QED
  BY <1>1, <1>2, <1>3, TypeInit
  DEF Init, SessionInv, AttemptsDistinct, StateOwnsSession, NativeBelongsToBundle,
      ConnectingHasWorker, CommittedOwnsNothing, StaleBundleHasOwner,
      NoOrphanSignal, RetiredStaysDown

\* What the teardowns and closes of a step make of the clients that are held.
LEMMA HeldKept == UNCHANGED <<open, detached>> => Held' = Held
  BY DEF Held

LEMMA HeldCloses ==
  ASSUME NEW g, open' = open \ {g}, UNCHANGED detached
  PROVE  Held' = Held \ {g}
  BY DEF Held

LEMMA HeldDetaches ==
  ASSUME NEW by, Detaches(by), UNCHANGED open, 0 \notin Held
  PROVE  Held' = Held \ {installed}
<1> DEFINE D == {[bundle |-> g, by |-> by] : g \in {installed} \ {0}}
<1>0. detached' = detached \cup D
  BY DEF Detaches
<1>2. \A d \in D : d.bundle = installed /\ installed # 0
  OBVIOUS
<1>3. installed # 0 => \E d \in D : d.bundle = installed
  <2>1. installed # 0 => [bundle |-> installed, by |-> by] \in D
    OBVIOUS
  <2> QED BY <2>1
<1> HIDE DEF D
<1>1. {d.bundle : d \in detached'} = {d.bundle : d \in detached} \cup ({installed} \ {0})
  BY <1>0, <1>2, <1>3
<1> QED BY <1>1 DEF Held

\* A step that changes neither the session's resources nor an attempt, and
\* does not enter Connecting.
LEMMA QuietStep ==
  ASSUME SessionInv, RoomTypes',
         UNCHANGED <<session_generation, installed, native, Held, call>>,
         connection_state' = "Connecting" => connection_state = "Connecting",
         NestedCallAwaited', StateOwnsSession', RetiredStaysDown'
  PROVE  SessionInv'
<1>1. \A t \in Tasks : (CallLive(t)' <=> CallLive(t)) /\ (CallWorking(t)' <=> CallWorking(t))
  BY DEF CallLive, CallWorking
<1> QED
  BY <1>1
  DEF SessionInv, AttemptsDistinct, NativeBelongsToBundle, ConnectingHasWorker,
      CommittedOwnsNothing, StaleBundleHasOwner, NoOrphanSignal

\* A step that detaches the bundle, which the room then holds no more, and retires
\* the generation, leaving the room Disconnected.
LEMMA TeardownStep ==
  ASSUME SessionInv, RoomTypes', UNCHANGED call, connection_state' = "Disconnected",
         session_generation' = session_generation + 1,
         installed' = 0, native' = 0, Held' = Held \ {installed},
         NestedCallAwaited', RetiredStaysDown'
  PROVE  SessionInv'
<1>1. \A t \in Tasks : (CallLive(t)' <=> CallLive(t)) /\ call'[t] = call[t]
  BY DEF CallLive
<1>2. session_generation \in Nat /\ installed \in Nat
      /\ \A t \in Tasks : call[t].gen \in Nat
  BY DEF SessionInv, RoomTypes, CallFrame
<1>3. AttemptsDistinct'
  BY <1>1, <1>2 DEF SessionInv, AttemptsDistinct
<1>4. CommittedOwnsNothing'
  <2> SUFFICES ASSUME NEW t \in Tasks, call[t].pc = "committed"
               PROVE  call[t].gen # 0 /\ call[t].gen \notin Held \ {installed}
    BY <1>1 DEF CommittedOwnsNothing
  <2>1. CallLive(t)
    BY DEF CallLive
  <2> QED BY <1>2, <2>1 DEF SessionInv, AttemptsDistinct, CommittedOwnsNothing
<1>5. NoOrphanSignal'
  BY <1>1 DEF SessionInv, NoOrphanSignal
<1> QED
  BY <1>3, <1>4, <1>5
  DEF SessionInv, StateOwnsSession, NativeBelongsToBundle, ConnectingHasWorker,
      StaleBundleHasOwner

\* A step of a call that is not live and stays so.
LEMMA IdleCallStep ==
  ASSUME SessionInv, RoomTypes', NEW t \in Tasks, ~CallLive(t),
         NEW pc \in {"idle", "ready", "ok", "threw"}, CallGoto(t, pc),
         UNCHANGED <<connection_state, session_generation, installed, native, Held,
                     reconnect_active, retire>>,
         NestedCallAwaited'
  PROVE  SessionInv'
<1>1. call \in [Tasks -> CallFrame]
  BY DEF SessionInv, RoomTypes
<1>2. \A u \in Tasks : /\ CallLive(u)' <=> CallLive(u)
                       /\ CallWorking(u)' <=> CallWorking(u)
                       /\ call'[u].pc = "committed" <=> call[u].pc = "committed"
                       /\ call'[u].gen = call[u].gen
  BY <1>1 DEF CallGoto, CallLive, CallWorking, CallFrame
<1>3. RoomIsDown' <=> RoomIsDown
  BY DEF RoomIsDown
<1> QED
  BY <1>2, <1>3
  DEF SessionInv, AttemptsDistinct, StateOwnsSession, NativeBelongsToBundle,
      ConnectingHasWorker, CommittedOwnsNothing, StaleBundleHasOwner,
      NoOrphanSignal, RetiredStaysDown

\* A live attempt that moves on without touching the session or its client.
LEMMA ProgressStep ==
  ASSUME SessionInv, RoomTypes', NEW t \in Tasks, CallWorking(t),
         NEW pc \in {"joined", "setup", "media", "rollback"}, CallGoto(t, pc),
         UNCHANGED <<connection_state, session_generation, installed,
                     reconnect_active, retire, rec>>,
         native' \in {native, installed},
         Held' \in {Held, Held \cup {call[t].gen}}
  PROVE  SessionInv'
<1>1. call \in [Tasks -> CallFrame]
  BY DEF SessionInv, RoomTypes
<1>2. \A u \in Tasks : /\ CallLive(u)' <=> CallLive(u)
                       /\ CallWorking(u)' <=> CallWorking(u)
                       /\ call'[u].pc = "committed" <=> call[u].pc = "committed"
                       /\ call'[u].pc = "idle" <=> call[u].pc = "idle"
                       /\ call'[u].gen = call[u].gen
  BY <1>1 DEF CallGoto, CallLive, CallWorking, CallFrame
<1>3. call[t].gen # 0 /\ CallLive(t) /\ retire # "drained"
  BY DEF SessionInv, AttemptsDistinct, CallWorking, RetiredStaysDown
<1>4. AttemptsDistinct'
  BY <1>2, <1>3 DEF SessionInv, AttemptsDistinct
<1>5. CommittedOwnsNothing'
  <2> SUFFICES ASSUME NEW u \in Tasks, call[u].pc = "committed"
               PROVE  call[u].gen # call[t].gen
    BY <1>2 DEF SessionInv, CommittedOwnsNothing
  <2>1. CallLive(u) /\ u # t
    BY DEF CallLive, CallWorking
  <2> QED BY <1>3, <2>1 DEF SessionInv, AttemptsDistinct
<1>6. NoOrphanSignal'
  BY <1>2, <1>3 DEF SessionInv, NoOrphanSignal
<1>7. RoomIsDown' <=> RoomIsDown
  BY DEF RoomIsDown
<1>8. NestedCallAwaited'
  BY <1>2, ConstantsAssumption DEF SessionInv, NestedCallAwaited, Tasks
<1> QED
  BY <1>2, <1>3, <1>4, <1>5, <1>6, <1>7, <1>8
  DEF SessionInv, StateOwnsSession, NativeBelongsToBundle,
      ConnectingHasWorker, StaleBundleHasOwner, RetiredStaysDown

\* Every step of ConnectAsync keeps SessionInv.
LEMMA SessionConnect ==
  ASSUME SessionInv, NEW t \in Tasks, ConnectStep(t)
  PROVE  SessionInv'
<1> USE DEF roomVars, recoveryVars, signalVars, noticeVars, userVars
<1>t. RoomTypes'
  BY TypeConnect DEF SessionInv
<1>f. /\ call \in [Tasks -> CallFrame] /\ call[t].gen \in Nat
      /\ session_generation \in Nat /\ installed \in Nat
      /\ \A u \in Tasks : call[u].gen \in Nat
  BY DEF SessionInv, RoomTypes, CallFrame
<1>1. CASE ConnectRefused(t)
  <2>1. NestedCallAwaited'
    BY <1>1, <1>f DEF ConnectRefused, CallGoto, Calls, SessionInv, NestedCallAwaited
  <2> QED BY <1>1, <1>t, <2>1, HeldKept, IdleCallStep DEF ConnectRefused, Calls, CallLive
<1>2. CASE ConnectStart(t)
  <2>1. /\ ~CallLive(t) /\ installed = 0 /\ retire = "no" /\ retire' = "no"
        /\ connection_state' = "Connecting" /\ Held' = Held
        /\ session_generation' = session_generation + 1
        /\ UNCHANGED <<installed, native, rec>>
    BY <1>2, HeldKept DEF ConnectStart, Calls, CallLive, ConnectAdmitted, Retired
  <2>2. /\ \A u \in Tasks \ {t} : call'[u] = call[u]
        /\ call'[t].pc = "signal" /\ call'[t].gen = session_generation + 1
    BY <1>2, <1>f DEF ConnectStart
  <2>3. /\ CallWorking(t)'
        /\ \A u \in Tasks \ {t} : CallLive(u)' <=> CallLive(u)
        /\ CallLive(t)'
    BY <2>2 DEF CallWorking, CallLive
  <2>4. AttemptsDistinct'
    BY <1>f, <2>1, <2>2, <2>3 DEF SessionInv, AttemptsDistinct
  <2>5. NestedCallAwaited'
    BY <1>2, <2>1, <2>2 DEF SessionInv, NestedCallAwaited, ConnectStart, Calls
  <2>6. CommittedOwnsNothing'
    <3> SUFFICES ASSUME NEW u \in Tasks \ {t}, call[u].pc = "committed"
                 PROVE  call[u].gen # 0 /\ (call[u].gen \in Held => call[u].gen = 0)
      BY <2>1, <2>2 DEF CommittedOwnsNothing
    <3>1. CallLive(u)
      BY DEF CallLive
    <3> QED BY <1>f, <2>1, <3>1 DEF SessionInv, AttemptsDistinct, CommittedOwnsNothing
  <2>7. NoOrphanSignal'
    BY <2>1, <2>2, <2>3 DEF SessionInv, NoOrphanSignal
  <2> QED
    BY <1>t, <2>1, <2>2, <2>3, <2>4, <2>5, <2>6, <2>7
    DEF SessionInv, StateOwnsSession, NativeBelongsToBundle, ConnectingHasWorker,
        StaleBundleHasOwner, RetiredStaysDown
<1>3. CASE SignalJoined(t)
  <2>1. Held' \in {Held, Held \cup {call[t].gen}}
    BY <1>3 DEF SignalJoined, Held
  <2> QED BY <1>3, <1>t, <2>1, ProgressStep DEF SignalJoined, CallWorking, CallLive
<1>4. CASE JoinCommit(t)
  <2>1. /\ installed = 0 /\ installed' = call[t].gen /\ call[t].gen = session_generation
        /\ connection_state = "Connecting" /\ CallWorking(t) /\ CallLive(t)
        /\ UNCHANGED <<connection_state, session_generation, native, Held, rec, retire,
                       reconnect_active>>
    BY <1>4, HeldKept DEF JoinCommit, CallWorking, CallLive
  <2>2. \A u \in Tasks : /\ CallLive(u)' <=> CallLive(u)
                         /\ CallWorking(u)' <=> CallWorking(u)
                         /\ call'[u].pc = "committed" <=> call[u].pc = "committed"
                         /\ call'[u].pc = "idle" <=> call[u].pc = "idle"
                         /\ call'[u].gen = call[u].gen
    BY <1>4, <1>f DEF JoinCommit, CallGoto, CallLive, CallWorking, CallFrame
  <2>3. AttemptsDistinct'
    BY <1>f, <2>1, <2>2 DEF SessionInv, AttemptsDistinct
  <2>4. CommittedOwnsNothing'
    <3> SUFFICES ASSUME NEW u \in Tasks, call[u].pc = "committed"
                 PROVE  call[u].gen \notin Held
      BY <2>1, <2>2 DEF CommittedOwnsNothing
    <3>1. CallLive(u)
      BY DEF CallLive
    <3> QED BY <1>f, <2>1, <3>1 DEF SessionInv, AttemptsDistinct, CommittedOwnsNothing
  <2>5. NoOrphanSignal'
    BY <2>1, <2>2 DEF SessionInv, NoOrphanSignal, AttemptsDistinct
  <2>6. NestedCallAwaited'
    BY <2>1, <2>2, ConstantsAssumption DEF SessionInv, NestedCallAwaited, Tasks
  <2>7. RetiredStaysDown'
    BY <2>1 DEF SessionInv, RetiredStaysDown, RoomIsDown
  <2> QED
    BY <1>t, <2>1, <2>2, <2>3, <2>4, <2>5, <2>6, <2>7
    DEF SessionInv, StateOwnsSession, NativeBelongsToBundle, ConnectingHasWorker,
        StaleBundleHasOwner
<1>5. CASE NativeCommit(t)
  BY <1>5, <1>t, HeldKept, ProgressStep
  DEF NativeCommit, CallWorking, CallLive, IsNativeGenerationCurrent
<1>6. CASE ConnectCommit(t)
  <2>1. /\ connection_state = "Connecting" /\ connection_state' = "Connected"
        /\ call[t].gen = session_generation /\ installed = call[t].gen /\ CallLive(t)
        /\ UNCHANGED <<session_generation, installed, native, Held, rec, retire,
                       reconnect_active>>
    BY <1>6, HeldKept DEF ConnectCommit, CallLive
  <2>2. \A u \in Tasks : /\ CallLive(u)' <=> CallLive(u)
                         /\ call'[u].pc = "committed" => u = t \/ call[u].pc = "committed"
                         /\ call'[u].pc = "idle" <=> call[u].pc = "idle"
                         /\ call'[u].gen = call[u].gen
    BY <1>6, <1>f DEF ConnectCommit, CallLive, CallFrame
  <2>3. AttemptsDistinct'
    BY <2>1, <2>2 DEF SessionInv, AttemptsDistinct
  <2>4. CommittedOwnsNothing'
    BY <2>1, <2>2 DEF SessionInv, CommittedOwnsNothing
  <2>5. NestedCallAwaited'
    BY <2>1, <2>2, ConstantsAssumption DEF SessionInv, NestedCallAwaited, Tasks
  <2>6. RetiredStaysDown'
    BY <2>1 DEF SessionInv, RetiredStaysDown, RoomIsDown
  <2> QED
    BY <1>t, <2>1, <2>2, <2>3, <2>4, <2>5, <2>6
    DEF SessionInv, StateOwnsSession, NativeBelongsToBundle, ConnectingHasWorker,
        StaleBundleHasOwner, NoOrphanSignal
<1>7. CASE ConnectReturn(t)
  <2>1. /\ call[t].pc = "committed" /\ CallLive(t) /\ ~CallWorking(t)
        /\ UNCHANGED <<connection_state, session_generation, installed, native, Held,
                       rec, retire, reconnect_active>>
    BY <1>7, HeldKept DEF ConnectReturn, CallLive, CallWorking
  <2>2. \A u \in Tasks : /\ CallLive(u)' <=> CallLive(u) /\ u # t
                         /\ CallWorking(u)' <=> CallWorking(u)
                         /\ call'[u].pc = "committed" => call[u].pc = "committed"
                         /\ call'[u].pc = "idle" <=> call[u].pc = "idle"
                         /\ call'[u].gen = call[u].gen
    BY <1>7, <1>f, <2>1 DEF ConnectReturn, CallGoto, CallLive, CallWorking, CallFrame
  <2>3. AttemptsDistinct'
    BY <2>1, <2>2 DEF SessionInv, AttemptsDistinct
  <2>4. StaleBundleHasOwner' /\ NoOrphanSignal'
    BY <2>1, <2>2 DEF SessionInv, StaleBundleHasOwner, NoOrphanSignal, CommittedOwnsNothing
  <2>5. NestedCallAwaited'
    BY <2>1, <2>2, ConstantsAssumption DEF SessionInv, NestedCallAwaited, Tasks
  <2>6. RetiredStaysDown'
    BY <2>1, <2>2 DEF SessionInv, RetiredStaysDown, RoomIsDown
  <2> QED
    BY <1>t, <2>1, <2>2, <2>3, <2>4, <2>5, <2>6
    DEF SessionInv, StateOwnsSession, NativeBelongsToBundle, ConnectingHasWorker,
        CommittedOwnsNothing
<1>8. CASE ConnectThrows(t)
  BY <1>8, <1>t, HeldKept, ProgressStep DEF ConnectThrows, CallWorking, CallLive
<1>9. CASE ConnectRollback(t)
  <2> DEFINE g == call[t].gen
  <2>1. /\ call[t].pc = "rollback" /\ CallLive(t) /\ g # 0
        /\ session_generation' = IF g = session_generation THEN session_generation + 1
                                                            ELSE session_generation
        /\ installed' = IF g = installed THEN 0 ELSE installed
        /\ native' = IF g = installed THEN 0 ELSE native
        /\ connection_state' = IF g \in {session_generation, installed}
                               THEN "Disconnected" ELSE connection_state
        /\ open' = open \ {g} /\ UNCHANGED detached
        /\ UNCHANGED <<rec, retire, reconnect_active>>
    BY <1>9 DEF ConnectRollback, RollbackFrame, CallLive, SessionInv, AttemptsDistinct
  <2>h. Held' = Held \ {g}
    BY <2>1 DEF Held
  <2>2. \A u \in Tasks : /\ CallLive(u)' <=> CallLive(u) /\ u # t
                         /\ CallWorking(u)' <=> CallWorking(u) /\ u # t
                         /\ call'[u].pc = "committed" => u # t /\ call[u].pc = "committed"
                         /\ call'[u].pc = "idle" <=> call[u].pc = "idle"
                         /\ call'[u].gen = call[u].gen
    BY <1>9, <1>f DEF ConnectRollback, CallGoto, CallLive, CallWorking, CallFrame
  <2>3. \A u \in Tasks : CallLive(u) /\ u # t => call[u].gen # g /\ call[u].gen # 0
    BY <1>f, <2>1 DEF SessionInv, AttemptsDistinct
  <2>4. AttemptsDistinct'
    BY <1>f, <2>1, <2>h, <2>2 DEF SessionInv, AttemptsDistinct
  <2>5. CommittedOwnsNothing'
    <3> SUFFICES ASSUME NEW u \in Tasks, call'[u].pc = "committed"
                 PROVE  /\ call[u].gen = installed' => installed' = session_generation'
                        /\ call[u].gen \in Held' => call[u].gen = installed'
      BY <2>2 DEF CommittedOwnsNothing
    <3>1. u # t /\ call[u].pc = "committed" /\ CallLive(u)
      BY <2>2 DEF CallLive
    <3> QED BY <2>1, <2>h, <2>3, <3>1 DEF SessionInv, CommittedOwnsNothing
  <2>6. StaleBundleHasOwner'
    BY <2>1, <2>2 DEF SessionInv, StaleBundleHasOwner
  <2>7. NoOrphanSignal'
    BY <2>1, <2>h, <2>2 DEF SessionInv, NoOrphanSignal
  <2>8. ConnectingHasWorker'
    BY <2>1, <2>2 DEF SessionInv, ConnectingHasWorker
  <2>9. NestedCallAwaited'
    BY <2>1, <2>2, ConstantsAssumption DEF SessionInv, NestedCallAwaited, Tasks
  <2>10. RetiredStaysDown'
    BY <2>1, <2>2 DEF SessionInv, RetiredStaysDown, RoomIsDown
  <2>11. StateOwnsSession' /\ NativeBelongsToBundle'
    BY <2>1 DEF SessionInv, StateOwnsSession, NativeBelongsToBundle
  <2> QED
    BY <1>t, <2>4, <2>5, <2>6, <2>7, <2>8, <2>9, <2>10, <2>11 DEF SessionInv
<1> QED
  BY <1>1, <1>2, <1>3, <1>4, <1>5, <1>6, <1>7, <1>8, <1>9 DEF ConnectStep

\* A reconnector that is not waiting for its nested call may move anywhere.
LEMMA RecMoves ==
  ASSUME NestedCallAwaited, NEW r \in Reconnects, rec[r].pc # "connecting",
         UNCHANGED call, \A q \in Reconnects \ {r} : rec'[q] = rec[q]
  PROVE  NestedCallAwaited'
  BY DEF NestedCallAwaited

\* A reconnector that stops leaves the session as it is.
LEMMA SessionStop ==
  ASSUME SessionInv, RoomTypes', NEW r \in Reconnects, NEW stop, StopIf(r, stop),
         rec[r].pc # "connecting"
  PROVE  SessionInv'
<1>1. /\ UNCHANGED <<connection_state, session_generation, installed, native, Held,
                     call, retire>>
      /\ ~reconnect_active => ~reconnect_active'
  BY HeldKept DEF StopIf, roomVars, signalVars, noticeVars, userVars
<1>2. NestedCallAwaited'
  BY <1>1, RecMoves DEF SessionInv, RoomTypes, StopIf, RecGoto
<1>3. StateOwnsSession'
  BY <1>1 DEF SessionInv, StateOwnsSession
<1>4. /\ RoomIsDown => RoomIsDown'
      /\ \A t \in Tasks : CallLive(t)' <=> CallLive(t)
  BY <1>1 DEF RoomIsDown, CallLive
<1>5. RetiredStaysDown'
  BY <1>1, <1>4 DEF SessionInv, RetiredStaysDown
<1> QED BY <1>1, <1>2, <1>3, <1>5, QuietStep

\* Every step of AttemptReconnect keeps SessionInv.
LEMMA SessionReconnect ==
  ASSUME SessionInv, NEW r \in Reconnects, ReconnectStep(r)
  PROVE  SessionInv'
<1> USE DEF roomVars, recoveryVars, signalVars, noticeVars, userVars, recFrameOnly
<1>t. RoomTypes' /\ rec \in [Reconnects -> RecFrame] /\ NestedCallAwaited
  BY TypeReconnect DEF SessionInv, RoomTypes
<1>m. ASSUME NEW pc, RecGoto(r, pc)
      PROVE  \A q \in Reconnects \ {r} : rec'[q] = rec[q]
  BY <1>t, <1>m DEF RecGoto
<1>q. ASSUME rec[r].pc # "connecting",
             \A q \in Reconnects \ {r} : rec'[q] = rec[q],
             UNCHANGED <<session_generation, installed, native, open, detached, call,
                         retire>>,
             connection_state' \in {connection_state, "Connected", "Reconnecting"},
             connection_state' # connection_state => installed \in {0, session_generation},
             connection_state' # connection_state /\ connection_state' = "Connected"
                => installed = session_generation,
             connection_state' # connection_state => ~RoomIsDown \/ ~Retired,
             reconnect_active' = TRUE /\ ~reconnect_active => ~Retired
      PROVE  SessionInv'
  <2>1. NestedCallAwaited'
    BY <1>q, <1>t, RecMoves
  <2>2. StateOwnsSession'
    BY <1>q DEF SessionInv, StateOwnsSession
  <2>3. RetiredStaysDown'
    BY <1>q, <1>t DEF SessionInv, RoomTypes, RetiredStaysDown, RoomIsDown, CallLive, Retired
  <2> QED BY <1>q, <1>t, <2>1, <2>2, <2>3, HeldKept, QuietStep
<1>d. ASSUME rec[r].pc # "connecting",
             \A q \in Reconnects \ {r} : rec'[q] = rec[q],
             UNCHANGED <<call, retire>>, ~Retired, connection_state' = "Disconnected",
             session_generation' = session_generation + 1,
             installed' = 0, native' = 0, open' = open \ {installed}, UNCHANGED detached
      PROVE  SessionInv'
  <2>1. NestedCallAwaited'
    BY <1>d, <1>t, RecMoves
  <2>2. RetiredStaysDown'
    BY <1>d DEF RetiredStaysDown, Retired
  <2> QED BY <1>d, <1>t, <2>1, <2>2, HeldCloses, TeardownStep
<1>1. CASE AnnounceReconnecting(r)
  BY <1>1, <1>m, <1>q DEF AnnounceReconnecting
<1>2. CASE ReconnectBegins(r)
  <2>1. /\ rec[r].pc = "spawned" /\ \A q \in Reconnects \ {r} : rec'[q] = rec[q]
        /\ UNCHANGED <<roomVars, open, detached, call, retire>>
    BY <1>2, <1>t, <1>m DEF ReconnectBegins
  <2>2. reconnect_active' = TRUE /\ ~reconnect_active => ~Retired
    BY <1>2 DEF ReconnectBegins, IsSignalGenerationCurrent
  <2> QED BY <2>1, <2>2, <1>q
<1>3. CASE NextAttempt(r)
  BY <1>3, <1>t, <1>q DEF NextAttempt
<1>4. CASE AttemptsExhausted(r)
  BY <1>4, <1>m, <1>q DEF AttemptsExhausted
<1>5. CASE DelayOver(r)
  <2>1. CASE StopIf(r, ToldToStop(r))
    BY <1>5, <1>t, <2>1, SessionStop DEF DelayOver
  <2>2. CASE ~StopIf(r, ToldToStop(r))
    <3>1. /\ rec[r].pc = "delay" /\ UNCHANGED recFrameOnly
          /\ \E pc \in {"teardown", "resume"} : RecGoto(r, pc)
      BY <1>5, <2>2 DEF DelayOver
    <3> QED BY <3>1, <1>m, <1>q
  <2> QED BY <2>1, <2>2
<1>6. CASE ResumeBegins(r)
  BY <1>6, <1>m, <1>q DEF ResumeBegins
<1>7. CASE SignalRestarts(r)
  BY <1>7, <1>m, <1>q DEF SignalRestarts
<1>8. CASE SyncStateSent(r)
  BY <1>8, <1>m, <1>q DEF SyncStateSent
<1>9. CASE ResumeCommit(r)
  <2>1. /\ rec[r].pc = "ice" /\ \A q \in Reconnects \ {r} : rec'[q] = rec[q]
        /\ UNCHANGED <<session_generation, installed, native, open, detached, call,
                       retire>>
        /\ connection_state' = "Connected" /\ ~Retired
        /\ installed = session_generation /\ reconnect_active' = FALSE
    BY <1>9, <1>m DEF ResumeCommit, IsSignalGenerationCurrent
  <2> QED BY <2>1, <1>q
<1>10. CASE ResumeThrows(r)
  BY <1>10, <1>t, <1>q DEF ResumeThrows
<1>11. CASE FullRestartTeardown(r)
  <2>1. CASE StopIf(r, reconnect_disabled)
    BY <1>11, <1>t, <2>1, SessionStop DEF FullRestartTeardown
  <2>2. CASE ~StopIf(r, reconnect_disabled)
    BY <1>11, <1>t, <2>2, <1>d
    DEF FullRestartTeardown, StillOwner, IsSignalGenerationCurrent
  <2> QED BY <2>1, <2>2
<1>12. CASE RestartConnects(r)
  <2>1. /\ rec'[r].pc = "connecting" /\ \A q \in Reconnects \ {r} : rec'[q] = rec[q]
        /\ r \in Tasks /\ call[r].pc = "idle" /\ CallGoto(r, "ready")
        /\ call \in [Tasks -> CallFrame]
    BY <1>12, <1>t DEF RestartConnects, NestedCallAwaited, Tasks, SessionInv, RoomTypes
  <2>2. NestedCallAwaited'
    BY <1>t, <2>1 DEF NestedCallAwaited, CallGoto
  <2> QED BY <1>12, <1>t, <2>1, <2>2, HeldKept, IdleCallStep DEF RestartConnects, CallLive
<1>13. CASE RestartConnected(r)
  <2>1. /\ \A q \in Reconnects \ {r} : rec'[q] = rec[q]
        /\ r \in Tasks /\ call[r].pc \in {"ok", "threw"} /\ CallGoto(r, "idle")
        /\ call \in [Tasks -> CallFrame]
    BY <1>13, <1>t DEF RestartConnected, Tasks, SessionInv, RoomTypes
  <2>2. NestedCallAwaited'
    BY <1>t, <2>1 DEF NestedCallAwaited, CallGoto
  <2> QED BY <1>13, <1>t, <2>1, <2>2, HeldKept, IdleCallStep DEF RestartConnected, CallLive
<1>14. CASE Republished(r)
  BY <1>14, <1>m, <1>q DEF Republished
<1>15. CASE RestartCommit(r)
  <2>1. /\ rec[r].pc = "channel" /\ \A q \in Reconnects \ {r} : rec'[q] = rec[q]
        /\ UNCHANGED <<roomVars, open, detached, call, retire>>
    BY <1>15, <1>m DEF RestartCommit
  <2>2. ~(reconnect_active' = TRUE /\ ~reconnect_active)
    BY <1>15 DEF RestartCommit
  <2> QED BY <2>1, <2>2, <1>q
<1>16. CASE RestartThrows(r)
  BY <1>16, <1>m, <1>q DEF RestartThrows
<1>17. CASE RestartFailed(r)
  <2>1. /\ rec[r].pc = "catch" /\ \A q \in Reconnects \ {r} : rec'[q] = rec[q]
        /\ UNCHANGED <<session_generation, installed, native, open, detached, call,
                       retire, reconnect_active>>
    BY <1>17, <1>t, <1>m DEF RestartFailed
  <2>2. \/ UNCHANGED connection_state
        \/ /\ connection_state' = "Reconnecting" /\ reconnect_active
           /\ installed \in {0, session_generation}
    BY <1>17 DEF RestartFailed
  <2>3. connection_state' # connection_state => ~RoomIsDown
    BY <2>2 DEF RoomIsDown
  <2> QED BY <2>1, <2>2, <2>3, <1>q
<1>18. CASE GiveUpBegins(r)
  <2>1. CASE StopIf(r, reconnect_disabled)
    BY <1>18, <1>t, <2>1, SessionStop DEF GiveUpBegins
  <2>2. CASE ~StopIf(r, reconnect_disabled)
    <3>1. rec[r].pc = "exhausted" /\ UNCHANGED recFrameOnly /\ RecGoto(r, "giveup")
      BY <1>18, <2>2 DEF GiveUpBegins
    <3> QED BY <3>1, <1>m, <1>q
  <2> QED BY <2>1, <2>2
<1>19. CASE GiveUp(r)
  <2>1. CASE StopIf(r, FALSE)
    BY <1>19, <1>t, <2>1, SessionStop DEF GiveUp
  <2>2. CASE ~StopIf(r, FALSE)
    BY <1>19, <1>t, <2>2, <1>d DEF GiveUp, StillOwner, IsSignalGenerationCurrent
  <2> QED BY <2>1, <2>2
<1>20. CASE AnnounceOutcome(r)
  BY <1>20, <1>m, <1>q DEF AnnounceOutcome
<1> QED
  BY <1>1, <1>2, <1>3, <1>4, <1>5, <1>6, <1>7, <1>8, <1>9, <1>10, <1>11,
     <1>12, <1>13, <1>14, <1>15, <1>16, <1>17, <1>18, <1>19, <1>20
  DEF ReconnectStep

\* The handlers of the signal events, the ends of a teardown and the listener keep
\* SessionInv.
LEMMA SessionHandlers ==
  ASSUME SessionInv, HandlersStep \/ TeardownEnds \/ ListenerRuns
  PROVE  SessionInv'
<1> USE DEF roomVars, recoveryVars, signalVars, noticeVars, userVars, ClosePending,
            LeavePending
<1>t. RoomTypes' /\ NestedCallAwaited
  BY TypeHandlers DEF SessionInv
<1>q. ASSUME UNCHANGED <<session_generation, installed, native, Held, call, rec, retire>>,
             connection_state' \in {connection_state, "Disconnected"},
             ~reconnect_active => ~reconnect_active'
      PROVE  SessionInv'
  <2>1. NestedCallAwaited'
    BY <1>q, <1>t DEF NestedCallAwaited
  <2>2. StateOwnsSession'
    BY <1>q DEF SessionInv, StateOwnsSession
  <2>3. /\ RoomIsDown => RoomIsDown'
        /\ \A t \in Tasks : CallLive(t)' <=> CallLive(t)
    BY <1>q DEF RoomIsDown, CallLive
  <2>4. RetiredStaysDown'
    BY <1>q, <2>3 DEF SessionInv, RetiredStaysDown
  <2> QED BY <1>q, <1>t, <2>1, <2>2, <2>4, QuietStep
<1>1. ASSUME NEW e \in events, DropStaleEvent(e)
      PROVE  SessionInv'
  BY <1>1, <1>q, HeldKept DEF DropStaleEvent
<1>2. ASSUME NEW g, NEW r \in Reconnects, CloseStartsReconnect(g, r)
      PROVE  SessionInv'
  <2>1. /\ rec[r].pc = "off" /\ \A q \in Reconnects \ {r} : rec'[q] = rec[q]
        /\ UNCHANGED <<session_generation, installed, native, Held, call, retire>>
        /\ connection_state = "Connected" /\ connection_state' = "Reconnecting"
        /\ ~Retired
    BY <1>2, HeldKept DEF CloseStartsReconnect, SessionInv, RoomTypes, IsSignalGenerationCurrent
  <2>2. NestedCallAwaited'
    BY <1>t, <2>1, RecMoves
  <2>3. StateOwnsSession'
    BY <2>1 DEF SessionInv, StateOwnsSession
  <2>4. RetiredStaysDown'
    BY <2>1 DEF RetiredStaysDown, Retired
  <2> QED BY <1>t, <2>1, <2>2, <2>3, <2>4, QuietStep
<1>3. ASSUME NEW g, CloseFailsConnect(g)
      PROVE  SessionInv'
  <2>1. /\ connection_state = "Connecting" /\ connection_state' = "Disconnected"
        /\ session_generation' = session_generation + 1 /\ ~Retired
        /\ UNCHANGED <<installed, native, Held, call, rec, retire>>
    BY <1>3, HeldKept DEF CloseFailsConnect, IsSignalGenerationCurrent
  <2>2. /\ session_generation \in Nat /\ installed \in Nat
        /\ \A t \in Tasks : call[t].gen \in Nat
    BY DEF SessionInv, RoomTypes, CallFrame
  <2>3. PICK t \in Tasks : CallWorking(t) /\ call[t].gen = session_generation
    BY <2>1 DEF SessionInv, ConnectingHasWorker
  <2>4. \A u \in Tasks : CallLive(u)' <=> CallLive(u)
    BY <2>1 DEF CallLive
  <2>5. AttemptsDistinct'
    BY <2>1, <2>2, <2>4 DEF SessionInv, AttemptsDistinct
  <2>6. StaleBundleHasOwner'
    BY <2>1, <2>3, <2>4 DEF SessionInv, StateOwnsSession, StaleBundleHasOwner, CallWorking
  <2>7. CommittedOwnsNothing'
    <3> SUFFICES ASSUME NEW u \in Tasks, call[u].pc = "committed"
                 PROVE  /\ call[u].gen # installed
                        /\ call[u].gen \in Held => call[u].gen = installed
      BY <2>1 DEF CommittedOwnsNothing
    <3>1. CallLive(u) /\ u # t
      BY <2>3 DEF CallLive, CallWorking
    <3>2. call[u].gen # 0 /\ call[u].gen # session_generation
      BY <2>2, <2>3, <3>1 DEF SessionInv, AttemptsDistinct, CallWorking
    <3> QED
      BY <2>1, <3>2 DEF SessionInv, StateOwnsSession, CommittedOwnsNothing
  <2>8. NoOrphanSignal'
    BY <2>1, <2>4 DEF SessionInv, NoOrphanSignal
  <2>9. NestedCallAwaited' /\ RetiredStaysDown'
    BY <1>t, <2>1 DEF NestedCallAwaited, RetiredStaysDown, Retired
  <2> QED
    BY <1>t, <2>1, <2>5, <2>6, <2>7, <2>8, <2>9
    DEF SessionInv, StateOwnsSession, NativeBelongsToBundle, ConnectingHasWorker
<1>4. ASSUME NEW g, CloseElsewhere(g)
      PROVE  SessionInv'
  BY <1>4, <1>q, HeldKept DEF CloseElsewhere
<1>5. ASSUME NEW g, CloseDisconnects(g)
      PROVE  SessionInv'
  BY <1>5, <1>q, HeldKept DEF CloseDisconnects
<1>6. ASSUME NEW g, BeginServerDisconnect(g) \/ IgnoreLeave(g)
      PROVE  SessionInv'
  BY <1>6, <1>q, HeldKept DEF BeginServerDisconnect, IgnoreLeave
<1>7. ASSUME NEW g, FinalizeServerDisconnect(g)
      PROVE  SessionInv'
  <2>1. CASE UNCHANGED <<roomVars, reconnect_active, detached>>
    BY <1>7, <2>1, <1>q, HeldKept DEF FinalizeServerDisconnect
  <2>2. CASE ~UNCHANGED <<roomVars, reconnect_active, detached>>
    <3>1. /\ connection_state' = "Disconnected"
          /\ session_generation' = session_generation + 1
          /\ installed' = 0 /\ native' = 0
          /\ Detaches(session_generation + 1) /\ UNCHANGED open
          /\ ~Retired /\ UNCHANGED <<call, rec, retire>>
      BY <1>7, <2>2 DEF FinalizeServerDisconnect, IsSignalGenerationCurrent, Detaches
    <3>2. NestedCallAwaited' /\ RetiredStaysDown'
      BY <1>t, <3>1 DEF NestedCallAwaited, RetiredStaysDown, Retired
    <3>3. Held' = Held \ {installed}
      BY <3>1, HeldDetaches DEF SessionInv, AttemptsDistinct
    <3> QED BY <1>t, <3>1, <3>2, <3>3, TeardownStep
  <2> QED BY <2>1, <2>2
<1>8. ASSUME NEW g, NEW kind, DeliverDisconnected(g, kind)
      PROVE  SessionInv'
  BY <1>8, <1>q, HeldKept DEF DeliverDisconnected
<1>9. ASSUME NEW d \in detached, CloseDetached(d)
      PROVE  SessionInv'
  <2>1. Held' = Held
    BY <1>9 DEF CloseDetached, Held
  <2> QED BY <1>9, <1>q, <2>1 DEF CloseDetached
<1>10. ASSUME NEW c \in calls, ListenerCalled(c)
       PROVE  SessionInv'
  BY <1>10, <1>q, HeldKept DEF ListenerCalled
<1> QED
  BY <1>1, <1>2, <1>3, <1>4, <1>5, <1>6, <1>7, <1>8, <1>9, <1>10
  DEF HandlersStep, HandlerStep, TeardownEnds, ListenerRuns

\* The teardown of Disconnect and Retire keeps SessionInv.
LEMMA SessionTearDown ==
  ASSUME SessionInv, NEW by, TearDownForUser(by), RoomTypes',
         retire' = "drained" => retire = "drained"
  PROVE  SessionInv'
<1>1. NestedCallAwaited'
  BY DEF TearDownForUser, SessionInv, NestedCallAwaited
<1>2. RoomIsDown' /\ \A t \in Tasks : CallLive(t)' <=> CallLive(t)
  BY DEF TearDownForUser, RoomIsDown, CallLive
<1>3. RetiredStaysDown'
  BY <1>2 DEF SessionInv, RetiredStaysDown
<1>4. Held' = Held \ {installed}
  <2>1. Detaches(by) /\ UNCHANGED open /\ 0 \notin Held
    BY DEF TearDownForUser, Detaches, SessionInv, AttemptsDistinct
  <2> QED BY <2>1, HeldDetaches
<1> QED BY <1>1, <1>3, <1>4, TeardownStep DEF TearDownForUser

\* What the network, the server, the application and Retire do keeps it.
LEMMA SessionOutside ==
  ASSUME SessionInv, Environment \/ RetireDisconnects \/ RetireDrained
  PROVE  SessionInv'
<1> USE DEF roomVars, recoveryVars, signalVars, noticeVars, userVars, vars
<1>t. RoomTypes' /\ NestedCallAwaited
  BY TypeOutside DEF SessionInv
<1>q. ASSUME UNCHANGED <<roomVars, open, detached, call, rec, reconnect_active>>,
             RetiredStaysDown'
      PROVE  SessionInv'
  <2>1. NestedCallAwaited' /\ StateOwnsSession'
    BY <1>q, <1>t DEF SessionInv, NestedCallAwaited, StateOwnsSession
  <2> QED BY <1>q, <1>t, <2>1, HeldKept, QuietStep
<1>r. ASSUME UNCHANGED <<roomVars, call, reconnect_active>>
      PROVE  /\ RoomIsDown' <=> RoomIsDown
             /\ \A t \in Tasks : CallLive(t)' <=> CallLive(t)
  BY <1>r DEF RoomIsDown, CallLive
<1>1. CASE Disconnect
  <2>1. CASE UNCHANGED vars
    <3>1. RetiredStaysDown'
      BY <2>1, <1>r DEF SessionInv, RetiredStaysDown
    <3> QED BY <2>1, <3>1, <1>q
  <2>2. CASE TearDownForUser(session_generation + 1) /\ UNCHANGED retire
    BY <1>t, <2>2, SessionTearDown
  <2> QED BY <1>1, <2>1, <2>2 DEF Disconnect
<1>2. ASSUME NEW g, TransportCloses(g) \/ ServerSendsLeave(g)
      PROVE  SessionInv'
  <2>1. RetiredStaysDown'
    BY <1>2, <1>r DEF SessionInv, RetiredStaysDown, TransportCloses, ServerSendsLeave
  <2> QED BY <1>2, <2>1, <1>q DEF TransportCloses, ServerSendsLeave
<1>3. CASE RetireBegins
  <2>1. RetiredStaysDown'
    BY <1>3 DEF RetiredStaysDown, RetireBegins
  <2> QED BY <1>3, <2>1, <1>q DEF RetireBegins
<1>4. CASE RetireDisconnects
  <2>1. CASE TearDownForUser(0)
    BY <1>4, <1>t, <2>1, SessionTearDown DEF RetireDisconnects
  <2>2. CASE ~TearDownForUser(0)
    <3>1. RetiredStaysDown'
      BY <1>4, <2>2, <1>r DEF RetiredStaysDown, RetireDisconnects
    <3> QED BY <1>4, <2>2, <3>1, <1>q DEF RetireDisconnects
  <2> QED BY <2>1, <2>2
<1>5. CASE RetireDrained
  <2>1. RetiredStaysDown'
    BY <1>5, <1>r DEF SessionInv, RetiredStaysDown, RetireDrained, Admitted
  <2> QED BY <1>5, <2>1, <1>q DEF RetireDrained
<1> QED
  BY <1>1, <1>2, <1>3, <1>4, <1>5 DEF Environment

LEMMA SessionNext == SessionInv /\ [Next]_vars => SessionInv'
<1> SUFFICES ASSUME SessionInv, [Next]_vars PROVE SessionInv'
  OBVIOUS
<1>1. CASE UNCHANGED vars
  <2>1. RoomTypes'
    BY TypeNext DEF SessionInv
  <2>2. NestedCallAwaited' /\ StateOwnsSession'
    BY <1>1 DEF vars, roomVars, SessionInv, NestedCallAwaited, StateOwnsSession
  <2>3. RetiredStaysDown'
    BY <1>1 DEF vars, roomVars, recoveryVars, userVars, SessionInv, RetiredStaysDown,
                RoomIsDown, CallLive
  <2> QED BY <1>1, <2>1, <2>2, <2>3, HeldKept, QuietStep DEF vars, roomVars, signalVars
<1>2. CASE Next
  BY <1>2, SessionConnect, SessionReconnect, SessionHandlers, SessionOutside DEF Next
<1> QED BY <1>1, <1>2

\* The inductive invariant holds in every reachable state.
THEOREM SessionInvariant == Spec => []SessionInv
  BY SessionInit, SessionNext, PTL DEF Spec

-----------------------------------------------------------------------------
(* The checked properties.                                                 *)

\* Whatever interleaves with a connect or a restart, a room that says
\* Connected owns the bundle of its current generation.
THEOREM ConnectedOwnsItsSession == Spec => []StateOwnsSession
<1>1. SessionInv => StateOwnsSession
  BY DEF SessionInv
<1> QED BY <1>1, SessionInvariant, PTL

\* A bundle whose generation was invalidated always has an attempt to free it.
THEOREM StaleBundlesAreOwned == Spec => []StaleBundleHasOwner
<1>1. SessionInv => StaleBundleHasOwner
  BY DEF SessionInv
<1> QED BY <1>1, SessionInvariant, PTL

\* Somebody is left to commit or roll back a room that is Connecting.
THEOREM ConnectingIsDriven == Spec => []ConnectingHasDriver
<1>1. SessionInv => ConnectingHasDriver
  BY DEF SessionInv, ConnectingHasWorker, ConnectingHasDriver, CallWorking
<1> QED BY <1>1, SessionInvariant, PTL

\* The peer connections are those of the installed bundle.
THEOREM NativeFollowsBundle == Spec => []NativeBelongsToBundle
<1>1. SessionInv => NativeBelongsToBundle
  BY DEF SessionInv
<1> QED BY <1>1, SessionInvariant, PTL

\* No stale attempt leaks a connection to the server.
THEOREM SignalClientsAreOwned == Spec => []NoOrphanSignal
<1>1. SessionInv => NoOrphanSignal
  BY DEF SessionInv
<1> QED BY <1>1, SessionInvariant, PTL

\* What is detached belongs to the past, and a room that has drained stays quiet.
LEMMA TeardownInit == Init => TeardownInv
  BY DEF Init, TeardownInv

LEMMA TeardownNext ==
  ASSUME SessionInv, OutsideTypes, TeardownInv, [Next]_vars
  PROVE  TeardownInv'
<1>t. /\ RoomTypes /\ session_generation \in Nat /\ installed \in Nat
      /\ installed <= session_generation
      /\ \A d \in detached : d.bundle \in Nat
  BY DEF SessionInv, RoomTypes, AttemptsDistinct, OutsideTypes
<1>d. /\ session_generation' \in {session_generation, session_generation + 1}
      /\ \/ detached' \subseteq detached
         \/ Detaches(session_generation + 1)
         \/ Detaches(0) /\ retire' = "draining"
      /\ retire' = "drained" => retire = "drained" \/ RetireDrained
  BY <1>t, Detachments
<1>1. \A d \in detached' : d.bundle < session_generation'
  <2>1. CASE detached' \subseteq detached
    BY <1>t, <1>d, <2>1 DEF TeardownInv
  <2>2. ASSUME NEW by, Detaches(by)
        PROVE  \A d \in detached' : d.bundle < session_generation'
    BY <1>t, <2>2 DEF Detaches, TeardownInv
  <2> QED BY <1>d, <2>1, <2>2
<1>2. ASSUME retire' = "drained"
      PROVE  calls' = {} /\ \A d \in detached' : d.by # 0
  <2>1. CASE RetireDrained
    <3>1. UNCHANGED <<calls, detached>> /\ Admitted = {} /\ \A d \in detached : d.by # 0
      BY <2>1 DEF RetireDrained, noticeVars, signalVars
    <3>2. calls = {}
      BY <3>1 DEF Admitted
    <3> QED BY <3>1, <3>2
  <2>2. CASE retire = "drained"
    <3>1. calls = {} /\ (\A d \in detached : d.by # 0) /\ Retired
      BY <2>2 DEF TeardownInv, Retired
    <3>2. calls' = {}
      BY <1>t, <3>1, Deliveries
      DEF ExecutorAdmits, DisconnectAdmits, CallEnds, OutsideTypes
    <3>3. \A d \in detached' : d.by # 0
      <4>1. CASE detached' \subseteq detached
        BY <3>1, <4>1
      <4>2. CASE Detaches(session_generation + 1)
        BY <1>t, <3>1, <4>2 DEF Detaches
      <4> QED BY <1>d, <1>2, <4>1, <4>2
    <3> QED BY <3>2, <3>3
  <2> QED BY <1>2, <1>d, <2>1, <2>2
<1> QED BY <1>1, <1>2 DEF TeardownInv

\* SessionInv and TeardownInv, each with the types they need.
HoldingInv == SessionInv /\ OutsideTypes /\ TeardownInv

LEMMA HoldingInit == Init => HoldingInv
  BY SessionInit, TypeOKInit, TeardownInit DEF HoldingInv, TypeOK

LEMMA HoldingNext == HoldingInv /\ [Next]_vars => HoldingInv'
<1>1. SessionInv => RoomTypes
  BY DEF SessionInv
<1> QED BY <1>1, SessionNext, OutsideNext, TeardownNext DEF HoldingInv

\* What a teardown has taken out of the room it closes outside room_mutex_ (room.cpp
\* 2183-2224, 2502-2511): until it is closed, no bundle of it is the current session's,
\* and once Retire has drained none of it is Retire's own and no callback is under way.
THEOREM HoldingInvariant == Spec => []HoldingInv
  BY HoldingInit, HoldingNext, PTL DEF Spec

\* Once Retire has drained the room is down and empty, nobody is in the listener, and
\* what is still connected is in the hands of a teardown Retire does not wait for.
THEOREM DrainedRoomsAreQuiet == Spec => []DrainedIsQuiet
<1>1. HoldingInv => DrainedIsQuiet
  <2> SUFFICES ASSUME HoldingInv, retire = "drained"
               PROVE  /\ RoomIsDown /\ native = 0
                      /\ \A t \in Tasks : ~CallLive(t)
                      /\ calls = {}
                      /\ \A g \in open : \E d \in detached : d.bundle = g /\ d.by # 0
    BY DEF DrainedIsQuiet
  <2>1. RoomIsDown /\ \A t \in Tasks : ~CallLive(t)
    BY DEF HoldingInv, SessionInv, RetiredStaysDown
  <2>2. installed = 0 /\ 0 \notin Held /\ native = 0
    BY <2>1 DEF RoomIsDown, HoldingInv, SessionInv, AttemptsDistinct, NativeBelongsToBundle
  <2>3. Held = {}
    BY <2>1, <2>2 DEF HoldingInv, SessionInv, NoOrphanSignal
  <2>4. calls = {} /\ \A d \in detached : d.by # 0
    BY DEF HoldingInv, TeardownInv
  <2>5. \A g \in open : \E d \in detached : d.bundle = g /\ d.by # 0
    BY <2>3, <2>4 DEF Held
  <2> QED BY <2>1, <2>2, <2>4, <2>5
<1> QED BY <1>1, HoldingInvariant, PTL

-----------------------------------------------------------------------------
(* The room retires like a gate.                                           *)

\* Calls come in only before retirement, and only one way at a time.
LEMMA EntersOrLeaves ==
  ASSUME RoomTypes, NEW Entering \in BOOLEAN,
         Entering => ~Retired,
         \A t \in Tasks : IF Entering THEN CallLive(t) => CallLive(t)'
                                      ELSE CallLive(t)' => CallLive(t),
         \A r \in Reconnects :
           IF Entering THEN RecLive(r) /\ rec[r].pc # "spawned"
                              => RecLive(r)' /\ rec'[r].pc # "spawned"
                       ELSE RecLive(r)' /\ rec'[r].pc # "spawned"
                              => RecLive(r) /\ rec[r].pc # "spawned",
         IF Entering THEN closing \subseteq closing' ELSE closing' \subseteq closing,
         IF Entering THEN calls \subseteq calls'
                     ELSE \A c \in calls' : c \in calls \/ c.ticket \in Admitted,
         UNCHANGED retire
  PROVE  Gate!Enter \/ Gate!Leave
<1>1. CASE Entering
  <2>1. Admitted \subseteq Admitted'
    BY <1>1 DEF Admitted
  <2> QED BY <1>1, <2>1 DEF Gate!Enter, Retired
<1>2. CASE ~Entering
  <2>1. Admitted' \subseteq Admitted
    <3>1. \A c \in calls' : c.ticket \in Admitted
      BY <1>2 DEF Admitted
    <3>2. \A t \in Tasks : CallLive(t)' => <<"call", t>> \in Admitted
      BY <1>2 DEF Admitted
    <3>3. \A r \in Reconnects : RecLive(r)' /\ rec'[r].pc # "spawned"
                                   => <<"rec", r>> \in Admitted
      BY <1>2 DEF Admitted
    <3>4. \A g \in closing' : <<"handler", g>> \in Admitted
      BY <1>2 DEF Admitted
    <3> DEFINE A == Admitted
    <3> HIDE DEF A
    <3>5. Admitted' \subseteq A
      BY <3>1, <3>2, <3>3, <3>4 DEF Admitted, A
    <3> QED BY <3>5 DEF A
  <2> QED BY <1>2, <2>1 DEF Gate!Leave
<1> QED BY <1>1, <1>2

LEMMA GateConnect ==
  ASSUME RoomTypes, NEW t \in Tasks, ConnectStep(t)
  PROVE  Gate!Enter \/ Gate!Leave
<1> USE DEF RoomTypes, CallLive, RecLive
<1>1. CASE ConnectStart(t)
  <2>1. \A u \in Tasks : CallLive(u) => CallLive(u)'
    BY <1>1 DEF ConnectStart
  <2>2. ~Retired /\ UNCHANGED <<rec, closing, calls, retire>>
    BY <1>1 DEF ConnectStart, ConnectAdmitted, noticeVars
  <2> QED BY <2>1, <2>2, EntersOrLeaves
<1>2. CASE ~ConnectStart(t)
  <2>1. UNCHANGED <<rec, closing, retire>>
    BY <1>2 DEF ConnectStep, ConnectRefused, SignalJoined, JoinCommit, NativeCommit,
                ConnectCommit, ConnectReturn, ConnectThrows, ConnectRollback,
                RollbackFrame, noticeVars, userVars
  <2>2. \A u \in Tasks : u # t => call'[u] = call[u]
    BY <1>2 DEF ConnectStep, ConnectRefused, SignalJoined, JoinCommit, NativeCommit,
                ConnectCommit, ConnectReturn, ConnectThrows, ConnectRollback, CallGoto
  <2>3. CallLive(t)' => CallLive(t)
    <3>1. CASE ConnectRefused(t)
      BY <3>1 DEF ConnectRefused, CallGoto
    <3>2. CASE ~ConnectRefused(t)
      BY <1>2, <3>2 DEF ConnectStep, SignalJoined, JoinCommit, NativeCommit,
                ConnectCommit, ConnectReturn, ConnectThrows, ConnectRollback
    <3> QED BY <3>1, <3>2
  <2>4. \A u \in Tasks : CallLive(u)' => CallLive(u)
    BY <2>2, <2>3
  <2>5. \A c \in calls' : c \in calls \/ c.ticket \in Admitted
    <3>1. CASE ConnectReturn(t)
      <4>1. calls' \subseteq calls \cup {[kind |-> "Connected", ticket |-> <<"call", t>>]}
        BY <3>1 DEF ConnectReturn, Deliver
      <4>2. <<"call", t>> \in Admitted
        BY <3>1 DEF ConnectReturn, Admitted
      <4> QED BY <4>1, <4>2
    <3>2. CASE ~ConnectReturn(t)
      <4>1. UNCHANGED calls
        BY <1>2, <3>2 DEF ConnectStep, ConnectRefused, SignalJoined, JoinCommit,
           NativeCommit, ConnectCommit, ConnectThrows, ConnectRollback, RollbackFrame,
           noticeVars
      <4> QED BY <4>1
    <3> QED BY <3>1, <3>2
  <2> QED BY <2>1, <2>4, <2>5, EntersOrLeaves
<1> QED BY <1>1, <1>2

LEMMA GateReconnect ==
  ASSUME RoomTypes, NEW r \in Reconnects, ReconnectStep(r)
  PROVE  Gate!Enter \/ Gate!Leave
<1> USE DEF RoomTypes, RecLive, RecGoto, recFrameOnly, noticeVars, userVars
<1>o. /\ UNCHANGED <<closing, retire>>
      /\ \A q \in Reconnects : q # r => rec'[q] = rec[q]
      /\ \A u \in Tasks : CallLive(u)' => CallLive(u)
  <2>1. UNCHANGED <<closing, retire>>
    BY DEF ReconnectStep, AnnounceReconnecting, ReconnectBegins, NextAttempt,
           AttemptsExhausted, DelayOver, ResumeBegins, SignalRestarts, SyncStateSent,
           ResumeCommit, ResumeThrows, FullRestartTeardown, RestartConnects,
           RestartConnected, Republished, RestartCommit, RestartThrows, RestartFailed,
           GiveUpBegins, GiveUp, AnnounceOutcome, StopIf
  <2>2. \A q \in Reconnects : q # r => rec'[q] = rec[q]
    BY DEF ReconnectStep, AnnounceReconnecting, ReconnectBegins, NextAttempt,
           AttemptsExhausted, DelayOver, ResumeBegins, SignalRestarts, SyncStateSent,
           ResumeCommit, ResumeThrows, FullRestartTeardown, RestartConnects,
           RestartConnected, Republished, RestartCommit, RestartThrows, RestartFailed,
           GiveUpBegins, GiveUp, AnnounceOutcome, StopIf
  <2>3. \/ UNCHANGED call
        \/ CallGoto(r, "ready")
        \/ CallGoto(r, "idle")
    BY DEF ReconnectStep, AnnounceReconnecting, ReconnectBegins, NextAttempt,
           AttemptsExhausted, DelayOver, ResumeBegins, SignalRestarts, SyncStateSent,
           ResumeCommit, ResumeThrows, FullRestartTeardown, RestartConnects,
           RestartConnected, Republished, RestartCommit, RestartThrows, RestartFailed,
           GiveUpBegins, GiveUp, AnnounceOutcome, StopIf
  <2>4. \A u \in Tasks : CallLive(u)' => CallLive(u)
    <3>1. CASE UNCHANGED call
      BY <3>1 DEF CallLive
    <3>2. ASSUME NEW pc \in {"ready", "idle"}, CallGoto(r, pc)
          PROVE  \A u \in Tasks : CallLive(u)' => CallLive(u)
      BY <3>2 DEF CallGoto, CallLive
    <3> QED BY <2>3, <3>1, <3>2
  <2> QED BY <2>1, <2>2, <2>4
<1>1. CASE rec[r].pc = "spawned"
  <2>1. ReconnectBegins(r)
    BY <1>1 DEF ReconnectStep, AnnounceReconnecting, NextAttempt,
           AttemptsExhausted, DelayOver, ResumeBegins, SignalRestarts, SyncStateSent,
           ResumeCommit, ResumeThrows, FullRestartTeardown, RestartConnects,
           RestartConnected, Republished, RestartCommit, RestartThrows, RestartFailed,
           GiveUpBegins, GiveUp, AnnounceOutcome
  <2>c. UNCHANGED calls
    BY <2>1 DEF ReconnectBegins
  <2>2. CASE rec'[r].pc = "done"
    <3>1. \A q \in Reconnects : RecLive(q)' /\ rec'[q].pc # "spawned"
                                  => RecLive(q) /\ rec[q].pc # "spawned"
      BY <2>2, <1>o
    <3> QED BY <2>c, <3>1, <1>o, EntersOrLeaves
  <2>3. CASE rec'[r].pc # "done"
    <3>1. rec' # [rec EXCEPT ![r].pc = "done"]
      BY <2>3 DEF RecFrame
    <3>2. ~Retired /\ UNCHANGED call
      BY <2>1, <3>1 DEF ReconnectBegins, IsSignalGenerationCurrent
    <3>3. \A q \in Reconnects : RecLive(q) /\ rec[q].pc # "spawned"
                                  => RecLive(q)' /\ rec'[q].pc # "spawned"
      BY <1>1, <1>o
    <3>4. \A u \in Tasks : CallLive(u) => CallLive(u)'
      BY <3>2 DEF CallLive
    <3> QED BY <2>c, <3>2, <3>3, <3>4, <1>o, EntersOrLeaves
  <2> QED BY <2>2, <2>3
<1>2. CASE rec[r].pc # "spawned"
  <2>1. RecLive(r) /\ rec[r].pc # "spawned"
    BY <1>2 DEF ReconnectStep, AnnounceReconnecting, ReconnectBegins, NextAttempt,
           AttemptsExhausted, DelayOver, ResumeBegins, SignalRestarts, SyncStateSent,
           ResumeCommit, ResumeThrows, FullRestartTeardown, RestartConnects,
           RestartConnected, Republished, RestartCommit, RestartThrows, RestartFailed,
           GiveUpBegins, GiveUp, AnnounceOutcome
  <2>2. \A q \in Reconnects : RecLive(q)' /\ rec'[q].pc # "spawned"
                                => RecLive(q) /\ rec[q].pc # "spawned"
    BY <2>1, <1>o
  <2>3. \A c \in calls' : c \in calls \/ c.ticket \in Admitted
    <3>1. <<"rec", r>> \in Admitted
      BY <2>1 DEF Admitted
    <3>2. CASE AnnounceReconnecting(r)
      <4>1. calls' \subseteq calls \cup {[kind |-> "Reconnecting", ticket |-> <<"rec", r>>]}
        BY <3>2 DEF AnnounceReconnecting, Deliver
      <4> QED BY <3>1, <4>1
    <3>3. CASE AnnounceOutcome(r)
      <4>1. calls' \subseteq calls \cup {[kind |-> "Reconnected", ticket |-> <<"rec", r>>],
                                        [kind |-> "Disconnected", ticket |-> <<"rec", r>>]}
        BY <3>3 DEF AnnounceOutcome, Deliver
      <4> QED BY <3>1, <4>1
    <3>4. CASE ~AnnounceReconnecting(r) /\ ~AnnounceOutcome(r)
      <4>1. UNCHANGED calls
        BY <3>4 DEF ReconnectStep, ReconnectBegins, NextAttempt,
           AttemptsExhausted, DelayOver, ResumeBegins, SignalRestarts, SyncStateSent,
           ResumeCommit, ResumeThrows, FullRestartTeardown, RestartConnects,
           RestartConnected, Republished, RestartCommit, RestartThrows, RestartFailed,
           GiveUpBegins, GiveUp, StopIf
      <4> QED BY <4>1
    <3> QED BY <3>2, <3>3, <3>4
  <2> QED BY <2>2, <2>3, <1>o, EntersOrLeaves
<1> QED BY <1>1, <1>2

LEMMA GateHandlers ==
  ASSUME RoomTypes, HandlersStep \/ TeardownEnds \/ ListenerRuns
  PROVE  Gate!Enter \/ Gate!Leave
<1> USE DEF RoomTypes, RecLive, ClosePending, LeavePending, noticeVars, userVars
<1>1. UNCHANGED <<call, retire>>
  BY DEF HandlersStep, HandlerStep, DropStaleEvent, CloseStartsReconnect,
         CloseFailsConnect, CloseElsewhere, CloseDisconnects, BeginServerDisconnect,
         IgnoreLeave, FinalizeServerDisconnect, DeliverDisconnected, TeardownEnds,
         CloseDetached, ListenerRuns, ListenerCalled
<1>c. \A u \in Tasks : CallLive(u)' <=> CallLive(u)
  BY <1>1 DEF CallLive
<1>2. ASSUME NEW g, NEW r \in Reconnects, CloseStartsReconnect(g, r)
      PROVE  Gate!Enter \/ Gate!Leave
  <2>1. ~Retired /\ UNCHANGED <<closing, calls>>
    BY <1>2 DEF CloseStartsReconnect, IsSignalGenerationCurrent
  <2>2. \A q \in Reconnects : RecLive(q) /\ rec[q].pc # "spawned"
                                => RecLive(q)' /\ rec'[q].pc # "spawned"
    BY <1>2 DEF CloseStartsReconnect
  <2> QED BY <2>1, <2>2, <1>1, <1>c, EntersOrLeaves
<1>3. ASSUME NEW g, CloseElsewhere(g)
      PROVE  Gate!Enter \/ Gate!Leave
  <2>1. ~Retired /\ closing \subseteq closing' /\ UNCHANGED <<rec, calls>>
    BY <1>3 DEF CloseElsewhere, IsSignalGenerationCurrent
  <2> QED BY <2>1, <1>1, <1>c, EntersOrLeaves
<1>4. CASE closing' \subseteq closing /\ calls' \subseteq calls /\ UNCHANGED rec
  BY <1>4, <1>1, <1>c, EntersOrLeaves
<1>5. ASSUME NEW g, NEW kind, DeliverDisconnected(g, kind)
      PROVE  Gate!Enter \/ Gate!Leave
  <2>1. UNCHANGED <<rec, closing>> /\ Deliver(kind, g, "Disconnected", <<"listener", g>>)
    BY <1>5 DEF DeliverDisconnected
  <2>2. CASE UNCHANGED calls
    BY <2>1, <2>2, <1>4
  <2>3. CASE ~UNCHANGED calls
    <3>1. ~Retired /\ calls \subseteq calls'
      BY <2>1, <2>3 DEF Deliver, AdmitListener
    <3> QED BY <2>1, <3>1, <1>1, <1>c, EntersOrLeaves
  <2> QED BY <2>2, <2>3
<1> QED
  BY <1>2, <1>3, <1>4, <1>5 DEF HandlersStep, HandlerStep, DropStaleEvent,
         CloseFailsConnect, CloseDisconnects, BeginServerDisconnect,
         IgnoreLeave, FinalizeServerDisconnect, TeardownEnds, CloseDetached,
         ListenerRuns, ListenerCalled

\* Seen from outside, a room under any interleaving of connects, recoveries,
\* signal events and retirement behaves as a gate: what Retire waits for is
\* complete, and nothing comes in behind its back.
THEOREM RoomImplementsGate == Spec => RetiresLikeAGate
<1>1. Init => Gate!Init
  <2> SUFFICES ASSUME Init PROVE Gate!Init
    OBVIOUS
  <2>1. \A t \in Tasks : call[t].pc \in {"ready", "idle"}
    BY DEF Init
  <2>2. \A r \in Reconnects : rec[r].pc = "off"
    BY DEF Init
  <2>3. Admitted = {}
    BY <2>1, <2>2 DEF Init, Admitted, CallLive, RecLive
  <2> QED BY <2>3 DEF Init, Gate!Init
<1>2. RoomTypes /\ [Next]_vars => [Gate!Next]_(Gate!vars)
  <2> SUFFICES ASSUME RoomTypes, [Next]_vars PROVE Gate!Next \/ UNCHANGED Gate!vars
    OBVIOUS
  <2>1. ASSUME UNCHANGED <<call, rec, closing, calls>>
        PROVE  UNCHANGED Admitted
    BY <2>1 DEF Admitted, CallLive, RecLive
  <2>2. CASE UNCHANGED vars
    BY <2>1, <2>2 DEF vars, noticeVars, userVars, Gate!vars
  <2>3. CASE RetireBegins
    BY <2>1, <2>3 DEF RetireBegins, noticeVars, Gate!Next, Gate!Close
  <2>4. CASE RetireDisconnects
    BY <2>1, <2>4 DEF RetireDisconnects, TearDownForUser, noticeVars, Gate!vars
  <2>5. CASE RetireDrained
    BY <2>1, <2>5 DEF RetireDrained, noticeVars, Gate!Next, Gate!Drain
  <2>6. CASE Environment /\ ~RetireBegins
    BY <2>1, <2>6 DEF Environment, Disconnect, TearDownForUser, TransportCloses,
         ServerSendsLeave, noticeVars, userVars, vars, Gate!vars
  <2>7. CASE Next /\ ~(RetireDisconnects \/ RetireDrained \/ Environment)
    BY <2>7, GateConnect, GateReconnect, GateHandlers DEF Next, Gate!Next
  <2> QED BY <2>2, <2>3, <2>4, <2>5, <2>6, <2>7 DEF Next
<1>3. TypeOK => RoomTypes
  BY DEF TypeOK
<1> QED BY <1>1, <1>2, <1>3, TypeCorrect, PTL DEF Spec, RetiresLikeAGate, Gate!Spec

-----------------------------------------------------------------------------
(* RecoveryInv: at most one reconnector claims a generation.               *)

LEMMA RecoveryInit == Init => RecoveryInv
<1> SUFFICES ASSUME Init PROVE RecoveryInv
  OBVIOUS
<1>1. \A r \in Reconnects : rec[r].pc = "off" /\ rec[r].rg = 0
  BY DEF Init
<1>2. \A t \in Tasks : call[t].pc \in {"ready", "idle"}
  BY DEF Init
<1>3. GenerationsAccounted
  BY <1>2 DEF Init, GenerationsAccounted, NoSession, CallLive, CallWorking
<1>4. \A r \in Reconnects : ~Recovering(r) /\ ~Restarting(r) /\ ~Republishing(r)
  BY <1>1 DEF Recovering, Restarting, Republishing
<1>5. FramesWellFormed
  BY <1>1, <1>4 DEF Init, FramesWellFormed, FrameWellFormed
<1>6. \A r \in Reconnects : ~Claims(r)
  BY <1>1, <1>4 DEF Claims
<1>7. ClaimsExclusive /\ PhasesAgree
  BY <1>1, <1>4, <1>6 DEF ClaimsExclusive, PhasesAgree, PhaseAgrees
<1> QED BY SessionInit, <1>3, <1>5, <1>7 DEF RecoveryInv

\* A step within a generation that no recovery notices: reconnectors only start
\* or end, unless they keep their frame.
LEMMA UnnoticedStep ==
  ASSUME ClaimsExclusive, PhasesAgree,
         \A q \in Reconnects : \/ rec'[q] = rec[q]
                               \/ rec'[q].pc \in {"announce", "spawned", "reconnected", "done"},
         UNCHANGED <<session_generation, reconnect_active>>,
         NoSession' <=> NoSession,
         installed = session_generation => installed' = session_generation,
         connection_state = "Reconnecting" => connection_state' = "Reconnecting",
         connection_state' = "Connecting" => connection_state = "Connecting"
  PROVE  /\ ClaimsExclusive' /\ PhasesAgree'
         /\ \A q \in Reconnects : Claims(q)' => Claims(q) /\ rec'[q] = rec[q]
<1>1. ASSUME NEW q \in Reconnects, rec'[q] # rec[q]
      PROVE  ~Recovering(q)' /\ ~Restarting(q)' /\ ~Republishing(q)' /\ ~Claims(q)'
             /\ rec'[q].pc # "disconnected"
  <2>1. rec'[q].pc \in {"announce", "spawned", "reconnected", "done"}
    BY <1>1
  <2>2. ~Recovering(q)' /\ ~Restarting(q)' /\ ~Republishing(q)' /\ rec'[q].pc # "disconnected"
    BY <2>1 DEF Recovering, Restarting, Republishing
  <2> QED BY <2>2 DEF Claims
<1>2. ASSUME NEW q \in Reconnects, rec'[q] = rec[q]
      PROVE  /\ Recovering(q)' <=> Recovering(q)
             /\ Restarting(q)' <=> Restarting(q)
             /\ Republishing(q)' <=> Republishing(q)
  BY <1>2 DEF Recovering, Restarting, Republishing
<1>3. ASSUME NEW q \in Reconnects, rec'[q] = rec[q]
      PROVE  Claims(q)' <=> Claims(q)
  BY <1>2, <1>3 DEF Claims
<1>4. ClaimsExclusive'
  BY <1>1, <1>3 DEF ClaimsExclusive
<1>5. PhasesAgree'
  <2> SUFFICES ASSUME NEW q \in Reconnects, rec'[q] = rec[q]
               PROVE  PhaseAgrees(q)'
    BY <1>1 DEF PhasesAgree, PhaseAgrees
  <2>1. PhaseAgrees(q)
    BY DEF PhasesAgree
  <2> QED BY <1>2, <2>1 DEF PhaseAgrees
<1> QED BY <1>1, <1>3, <1>4, <1>5

\* A step of reconnector r within a generation: it keeps its claim, or gives it
\* up and may then release the recovery.  Only a claim lets it change the state.
LEMMA ClaimantStep ==
  ASSUME ClaimsExclusive, PhasesAgree, NEW r \in Reconnects,
         \A q \in Reconnects \ {r} : rec'[q] = rec[q],
         UNCHANGED <<session_generation, installed>>,
         NoSession' <=> NoSession,
         connection_state' = "Connecting" <=> connection_state = "Connecting",
         Claims(r)' => Claims(r) /\ (rec'[r].pc # "disconnected" => reconnect_active'),
         reconnect_active' = reconnect_active \/ (Claims(r) /\ ~reconnect_active'),
         rec[r].pc # "disconnected",
         connection_state' = connection_state \/ Claims(r),
         PhaseAgrees(r)'
  PROVE  ClaimsExclusive' /\ PhasesAgree' /\ (Claims(r)' => Claims(r))
<1>1. ASSUME NEW q \in Reconnects \ {r}
      PROVE  /\ rec'[q] = rec[q]
             /\ Recovering(q)' <=> Recovering(q)
             /\ Restarting(q)' <=> Restarting(q)
             /\ Republishing(q)' <=> Republishing(q)
  BY DEF Recovering, Restarting, Republishing
<1>a. Claims(r) => reconnect_active
  BY DEF ClaimsExclusive
<1>2. ASSUME NEW q \in Reconnects \ {r}
      PROVE  Claims(q)' => Claims(q)
  BY <1>1, <1>a DEF Claims
<1>3. ASSUME NEW q \in Reconnects \ {r}, Claims(q)
      PROVE  ~Claims(r) /\ UNCHANGED <<reconnect_active, connection_state>>
  BY <1>3 DEF ClaimsExclusive
<1>4. ClaimsExclusive'
  <2>1. ASSUME NEW q \in Reconnects, Claims(q)', rec'[q].pc # "disconnected"
        PROVE  reconnect_active'
    <3>1. CASE q = r
      BY <2>1, <3>1
    <3>2. CASE q # r
      BY <2>1, <3>2, <1>1, <1>2, <1>3 DEF ClaimsExclusive
    <3> QED BY <3>1, <3>2
  <2>2. ASSUME NEW q \in Reconnects, NEW p \in Reconnects, Claims(q)', Claims(p)'
        PROVE  q = p
    BY <2>2, <1>2 DEF ClaimsExclusive
  <2> QED BY <2>1, <2>2 DEF ClaimsExclusive
<1>5. PhasesAgree'
  <2> SUFFICES ASSUME NEW q \in Reconnects \ {r}
               PROVE  PhaseAgrees(q)'
    BY DEF PhasesAgree
  <2>1. PhaseAgrees(q)
    BY DEF PhasesAgree
  <2>2. CASE Claims(q)
    BY <2>1, <2>2, <1>1, <1>3 DEF PhaseAgrees
  <2>3. CASE ~Claims(q)
    <3>1. /\ rec[q].rg = session_generation =>
               ~Recovering(q) /\ ~Restarting(q) /\ ~Republishing(q)
               /\ rec[q].pc # "disconnected"
          /\ Restarting(q) /\ session_generation = rec[q].rg + 1 => ~reconnect_active
      BY <2>3 DEF Claims
    <3> QED BY <2>1, <3>1, <1>1, <1>a DEF PhaseAgrees
  <2> QED BY <2>2, <2>3
<1> QED BY <1>4, <1>5

\* A teardown leaves no claim: it releases the recovery with the generation.
LEMMA TeardownEndsClaims ==
  ASSUME SessionInv, FramesWellFormed, UNCHANGED rec,
         session_generation' = session_generation + 1, NoSession', ~reconnect_active'
  PROVE  ClaimsExclusive' /\ PhasesAgree'
<1>1. ASSUME NEW q \in Reconnects
      PROVE  /\ rec'[q] = rec[q]
             /\ rec[q].rg \in Nat /\ session_generation \in Nat
             /\ rec'[q].rg # session_generation'
  BY DEF FramesWellFormed, FrameWellFormed, SessionInv, RoomTypes, RecFrame
<1>2. \A q \in Reconnects : ~Claims(q)'
  BY <1>1 DEF Claims
<1>3. \A q \in Reconnects : PhaseAgrees(q)'
  BY <1>1 DEF PhaseAgrees
<1> QED BY <1>2, <1>3 DEF ClaimsExclusive, PhasesAgree

\* An attempt that fails takes the claims on its generation to the next one.
LEMMA FailureKeepsClaims ==
  ASSUME SessionInv, FramesWellFormed, ClaimsExclusive, PhasesAgree, UNCHANGED rec,
         connection_state = "Connecting",
         session_generation' = session_generation + 1, NoSession',
         UNCHANGED reconnect_active
  PROVE  /\ ClaimsExclusive' /\ PhasesAgree'
         /\ \A q \in Reconnects : Claims(q)' => Claims(q)
<1>1. ASSUME NEW q \in Reconnects
      PROVE  /\ rec'[q] = rec[q]
             /\ Restarting(q)' <=> Restarting(q)
             /\ Republishing(q)' <=> Republishing(q)
             /\ rec[q].rg \in Nat /\ session_generation \in Nat
             /\ rec'[q].rg # session_generation'
             /\ rec[q].rg = session_generation => ~Restarting(q) /\ ~Republishing(q)
  <2>1. rec'[q] = rec[q] /\ rec[q].rg \in Nat /\ session_generation \in Nat
    BY DEF SessionInv, RoomTypes, RecFrame
  <2>2. rec[q].rg <= session_generation
    BY DEF FramesWellFormed, FrameWellFormed
  <2>3. rec[q].rg = session_generation => ~Restarting(q) /\ ~Republishing(q)
    BY DEF PhasesAgree, PhaseAgrees, NoSession
  <2> QED BY <2>1, <2>2, <2>3 DEF Restarting, Republishing
<1>2. ASSUME NEW q \in Reconnects, Claims(q)'
      PROVE  Claims(q) /\ reconnect_active
  BY <1>1, <1>2 DEF Claims
<1>3. ASSUME NEW q \in Reconnects
      PROVE  PhaseAgrees(q)'
  BY <1>1 DEF PhaseAgrees
<1> QED BY <1>2, <1>3 DEF ClaimsExclusive, PhasesAgree

\* An attempt that starts belongs to whoever claims the generation before it.
LEMMA StartKeepsClaims ==
  ASSUME SessionInv, FramesWellFormed, ClaimsExclusive, PhasesAgree, UNCHANGED rec,
         installed = 0, connection_state = "Disconnected",
         connection_state' = "Connecting",
         session_generation' = session_generation + 1,
         UNCHANGED reconnect_active
  PROVE  /\ ClaimsExclusive' /\ PhasesAgree'
         /\ \A q \in Reconnects :
              Claims(q)' => Claims(q) /\ Restarting(q) /\ rec[q].rg = session_generation
<1>n. ~NoSession'
  BY DEF NoSession
<1>1. ASSUME NEW q \in Reconnects
      PROVE  /\ rec'[q] = rec[q]
             /\ Restarting(q)' <=> Restarting(q)
             /\ Republishing(q)' <=> Republishing(q)
             /\ rec[q].rg \in Nat /\ session_generation \in Nat
             /\ rec'[q].rg # session_generation'
             /\ rec[q].rg = session_generation => ~Republishing(q)
             /\ Restarting(q) => rec[q].pc # "disconnected"
  <2>1. rec'[q] = rec[q] /\ rec[q].rg \in Nat /\ session_generation \in Nat
    BY DEF SessionInv, RoomTypes, RecFrame
  <2>2. /\ rec[q].rg <= session_generation
        /\ Republishing(q) => rec[q].rg > 0
    BY DEF FramesWellFormed, FrameWellFormed
  <2>3. rec[q].rg = session_generation => ~Republishing(q)
    BY <2>1, <2>2 DEF PhasesAgree, PhaseAgrees
  <2> QED BY <2>1, <2>2, <2>3 DEF Restarting, Republishing
<1>2. ASSUME NEW q \in Reconnects, Claims(q)'
      PROVE  Claims(q) /\ reconnect_active /\ Restarting(q) /\ rec[q].rg = session_generation
  BY <1>1, <1>2, <1>n DEF Claims
<1>3. ASSUME NEW q \in Reconnects
      PROVE  PhaseAgrees(q)'
  <2>1. Restarting(q) /\ rec[q].rg = session_generation => reconnect_active
    BY <1>1 DEF ClaimsExclusive, Claims
  <2> QED BY <1>1, <2>1, <1>n DEF PhaseAgrees
<1> QED BY <1>2, <1>3 DEF ClaimsExclusive, PhasesAgree

\* The teardown of a full restart takes the claim to the new generation.
LEMMA RestartKeepsClaim ==
  ASSUME SessionInv, FramesWellFormed, ClaimsExclusive, PhasesAgree,
         NEW r \in Reconnects, Recovering(r), rec[r].rg = session_generation,
         rec'[r].pc = "restart", rec'[r].rg = session_generation + 1,
         \A q \in Reconnects \ {r} : rec'[q] = rec[q],
         session_generation' = session_generation + 1, NoSession',
         UNCHANGED reconnect_active
  PROVE  /\ ClaimsExclusive' /\ PhasesAgree'
         /\ \A q \in Reconnects : Claims(q)' => q = r
<1>c. Claims(r) /\ rec[r].pc # "disconnected" /\ reconnect_active
  BY DEF Claims, Recovering, ClaimsExclusive
<1>1. ASSUME NEW q \in Reconnects \ {r}
      PROVE  /\ rec'[q] = rec[q]
             /\ Restarting(q)' <=> Restarting(q)
             /\ Republishing(q)' <=> Republishing(q)
             /\ rec[q].rg \in Nat /\ session_generation \in Nat
             /\ rec'[q].rg # session_generation'
             /\ ~Claims(q)
  <2>1. rec'[q] = rec[q] /\ rec[q].rg \in Nat /\ session_generation \in Nat
    BY DEF SessionInv, RoomTypes, RecFrame
  <2>2. rec[q].rg <= session_generation
    BY DEF FramesWellFormed, FrameWellFormed
  <2>3. ~Claims(q)
    BY <1>c DEF ClaimsExclusive
  <2> QED BY <2>1, <2>2, <2>3 DEF Restarting, Republishing
<1>2. ASSUME NEW q \in Reconnects \ {r}
      PROVE  ~Claims(q)'
  <2> SUFFICES ASSUME Claims(q)' PROVE FALSE
    OBVIOUS
  <2>1. \/ rec[q].rg = session_generation' /\ rec'[q] = rec[q]
        \/ Restarting(q) /\ session_generation = rec[q].rg
        \/ Restarting(q) /\ session_generation = rec[q].rg + 1
    BY <1>1 DEF Claims
  <2> QED BY <1>1, <1>c, <2>1 DEF Claims
<1>3. ASSUME NEW q \in Reconnects \ {r}
      PROVE  PhaseAgrees(q)'
  <2>1. ~(Restarting(q) /\ session_generation = rec[q].rg)
        /\ ~(Republishing(q) /\ session_generation = rec[q].rg)
    BY <1>1 DEF Claims
  <2>2. /\ rec[q].rg + 1 = session_generation' => rec[q].rg = session_generation
        /\ rec'[q] = rec[q]
    BY <1>1
  <2> QED BY <1>1, <2>1, <2>2 DEF PhaseAgrees
<1>4. PhaseAgrees(r)'
  <2>1. ~Recovering(r)' /\ ~Republishing(r)' /\ rec'[r].pc # "disconnected"
    BY DEF Recovering, Republishing
  <2>2. session_generation' = rec'[r].rg /\ session_generation' # rec'[r].rg + 1
    BY DEF SessionInv, RoomTypes
  <2> QED BY <2>1, <2>2 DEF PhaseAgrees
<1> QED BY <1>2, <1>3, <1>4, <1>c DEF ClaimsExclusive, PhasesAgree

\* Giving up takes the claim along too, but releases the recovery.
LEMMA GiveUpKeepsClaim ==
  ASSUME SessionInv, FramesWellFormed, ClaimsExclusive, PhasesAgree,
         NEW r \in Reconnects,
         rec'[r].pc = "disconnected", rec'[r].rg = session_generation + 1,
         \A q \in Reconnects \ {r} : rec'[q] = rec[q],
         session_generation' = session_generation + 1, NoSession', ~reconnect_active'
  PROVE  /\ ClaimsExclusive' /\ PhasesAgree'
         /\ \A q \in Reconnects : Claims(q)' => q = r
<1>1. ASSUME NEW q \in Reconnects \ {r}
      PROVE  /\ rec'[q] = rec[q]
             /\ rec[q].rg \in Nat /\ session_generation \in Nat
             /\ rec'[q].rg # session_generation'
  BY DEF FramesWellFormed, FrameWellFormed, SessionInv, RoomTypes, RecFrame
<1>2. \A q \in Reconnects \ {r} : ~Claims(q)'
  BY <1>1 DEF Claims
<1>3. \A q \in Reconnects \ {r} : PhaseAgrees(q)'
  BY <1>1 DEF PhaseAgrees
<1>4. PhaseAgrees(r)'
  <2>1. ~Recovering(r)' /\ ~Restarting(r)' /\ ~Republishing(r)'
    BY DEF Recovering, Restarting, Republishing
  <2> QED BY <2>1 DEF PhaseAgrees
<1> QED BY <1>2, <1>3, <1>4 DEF ClaimsExclusive, PhasesAgree

-----------------------------------------------------------------------------
(* What refers to a generation.                                            *)

\* Attempts belong to generations handed out before.
LEMMA AttemptsNotAhead ==
  ASSUME SessionInv
  PROVE  /\ session_generation \in Nat
         /\ \A t \in Tasks : CallLive(t) =>
              call[t].gen \in Nat /\ call[t].gen > 0 /\ call[t].gen <= session_generation
<1>1. session_generation \in Nat
  BY DEF SessionInv, RoomTypes
<1> QED BY <1>1 DEF SessionInv, AttemptsDistinct

\* So do open clients, whether they are held or were detached.
DetachedPast == \A d \in detached : d.bundle \in Nat /\ d.bundle < session_generation

LEMMA OpenNotAhead ==
  ASSUME SessionInv, DetachedPast
  PROVE  \A g \in open : g \in Nat /\ g <= session_generation
<1>1. /\ session_generation \in Nat /\ installed \in Nat /\ open \subseteq Nat
      /\ installed <= session_generation
  BY DEF SessionInv, RoomTypes, AttemptsDistinct
<1>2. \A g \in Held : g <= session_generation
  BY <1>1, AttemptsNotAhead DEF SessionInv, NoOrphanSignal
<1>3. \A g \in open \ Held : \E d \in detached : d.bundle = g
  BY DEF Held
<1>4. \A g \in open \ Held : g < session_generation
  BY <1>3 DEF DetachedPast
<1>5. \A g \in open \ Held : g <= session_generation
  BY <1>1, <1>4
<1> QED BY <1>1, <1>2, <1>5

\* A step within a generation that refers to nothing new.
LEMMA AccountedQuiet ==
  ASSUME GenerationsAccounted, UNCHANGED session_generation,
         closing' \subseteq closing, events' \subseteq events, open' \subseteq open,
         \A t \in Tasks : CallLive(t)' => CallLive(t) /\ call'[t].gen = call[t].gen,
         \A t \in Tasks : CallWorking(t)' => CallWorking(t),
         connection_state' = "Connecting" => connection_state = "Connecting",
         connection_state = "Connecting" /\ connection_state' # "Connecting" =>
           \A t \in Tasks : CallWorking(t)' => call'[t].gen # session_generation,
         NoSession' => NoSession
  PROVE  GenerationsAccounted'
<1>1. \A t \in Tasks : CallWorking(t)' => CallLive(t)'
  BY DEF CallWorking
<1>2. \A t \in Tasks : CallWorking(t)' /\ call'[t].gen = session_generation'
                         => connection_state' = "Connecting"
  BY <1>1 DEF GenerationsAccounted
<1> QED BY <1>2 DEF GenerationsAccounted

\* A step that invalidates the generation: nothing refers to the next one yet.
LEMMA AccountedNew ==
  ASSUME SessionInv, DetachedPast, GenerationsAccounted,
         session_generation' = session_generation + 1, connection_state' # "Connecting",
         closing' \subseteq closing, events' \subseteq events, open' \subseteq open,
         \A t \in Tasks : CallLive(t)' => CallLive(t) /\ call'[t].gen = call[t].gen
  PROVE  GenerationsAccounted'
<1>1. /\ session_generation \in Nat
      /\ \A g \in open : g \in Nat /\ g <= session_generation
      /\ \A t \in Tasks : CallLive(t) => call[t].gen \in Nat /\ call[t].gen <= session_generation
  BY OpenNotAhead, AttemptsNotAhead
<1>2. /\ \A g \in closing : g \in Nat /\ g <= session_generation
      /\ \A e \in events : e.gen \in Nat /\ e.gen <= session_generation
  BY DEF GenerationsAccounted, SessionInv, RoomTypes
<1>3. \A t \in Tasks : CallLive(t)' => call'[t].gen # session_generation'
  BY <1>1
<1>4. \A t \in Tasks : CallWorking(t)' => call'[t].gen # session_generation'
  BY <1>3 DEF CallWorking
<1>5. session_generation' \notin open' \cup closing'
  BY <1>1, <1>2
<1>6. /\ \A g \in closing' : g <= session_generation'
      /\ \A e \in events' : e.gen <= session_generation' /\ e.gen # session_generation'
  BY <1>1, <1>2
<1> QED BY <1>3, <1>4, <1>5, <1>6 DEF GenerationsAccounted

LEMMA AccountedConnect ==
  ASSUME SessionInv, DetachedPast, GenerationsAccounted, NEW t \in Tasks, ConnectStep(t)
  PROVE  GenerationsAccounted'
<1>n. /\ session_generation \in Nat
      /\ \A g \in open : g \in Nat /\ g <= session_generation
      /\ \A u \in Tasks : CallLive(u) =>
           call[u].gen \in Nat /\ call[u].gen > 0 /\ call[u].gen <= session_generation
  BY OpenNotAhead, AttemptsNotAhead
<1>f. call \in [Tasks -> CallFrame]
  BY DEF SessionInv, RoomTypes
<1>q. ASSUME NEW pc, CallGoto(t, pc)
      PROVE  /\ call'[t].pc = pc /\ call'[t].gen = call[t].gen
             /\ \A u \in Tasks : u # t => call'[u] = call[u]
             /\ \A u \in Tasks : call'[u].gen = call[u].gen
  BY <1>f, <1>q DEF CallGoto, CallFrame
<1>g. ASSUME NEW pc, CallGoto(t, pc), CallLive(t) \/ pc \in {"ok", "threw"},
             pc \in {"committed", "ok", "threw"} \/ CallWorking(t)
      PROVE  /\ \A u \in Tasks : CallLive(u)' => CallLive(u) /\ call'[u].gen = call[u].gen
             /\ \A u \in Tasks : CallWorking(u)' => CallWorking(u)
  BY <1>g, <1>q DEF CallLive, CallWorking
<1>1. CASE ConnectRefused(t)
  <2>1. CallGoto(t, "threw")
        /\ UNCHANGED <<connection_state, session_generation, installed, closing, events, open>>
    BY <1>1 DEF ConnectRefused, roomVars, signalVars, noticeVars
  <2> QED BY <2>1, <1>g, AccountedQuiet DEF NoSession
<1>2. CASE ConnectStart(t)
  <2>1. /\ session_generation' = session_generation + 1
        /\ connection_state' = "Connecting" /\ UNCHANGED <<closing, events, open>>
    BY <1>2 DEF ConnectStart, signalVars, noticeVars
  <2>2. session_generation' \notin closing' /\ ~NoSession'
    BY <2>1, <1>n DEF GenerationsAccounted, SessionInv, RoomTypes, NoSession
  <2>3. /\ \A g \in closing' : g <= session_generation'
        /\ \A e \in events' : e.gen <= session_generation'
    BY <2>1, <1>n DEF GenerationsAccounted, SessionInv, RoomTypes
  <2> QED BY <2>1, <2>2, <2>3 DEF GenerationsAccounted
<1>3. CASE SignalJoined(t)
  <2>1. /\ CallGoto(t, "joined") /\ call[t].pc = "signal"
        /\ open' = open \cup {call[t].gen}
        /\ UNCHANGED <<connection_state, session_generation, installed, closing, events>>
    BY <1>3 DEF SignalJoined, roomVars, noticeVars
  <2>2. CallLive(t) /\ CallWorking(t)
    BY <2>1 DEF CallLive, CallWorking
  <2>3. /\ \A u \in Tasks : CallLive(u)' => CallLive(u) /\ call'[u].gen = call[u].gen
        /\ \A u \in Tasks : CallWorking(u)' => CallWorking(u)
    BY <2>1, <2>2, <1>g
  <2>4. \A u \in Tasks : CallWorking(u)' => call'[u].gen = call[u].gen
    BY <2>3 DEF CallWorking
  <2>5. NoSession' <=> NoSession
    BY <2>1 DEF NoSession
  <2> QED BY <2>1, <2>2, <2>3, <2>4, <2>5 DEF GenerationsAccounted
<1>4. CASE JoinCommit(t)
  <2>1. /\ CallGoto(t, "setup") /\ call[t].pc = "joined"
        /\ connection_state = "Connecting"
        /\ UNCHANGED <<connection_state, session_generation, closing, events, open>>
    BY <1>4 DEF JoinCommit, roomVars, signalVars, noticeVars
  <2>2. CallLive(t) /\ CallWorking(t) /\ ~NoSession'
    BY <2>1 DEF CallLive, CallWorking, NoSession
  <2> QED BY <2>1, <2>2, <1>g, AccountedQuiet
<1>5. CASE NativeCommit(t)
  <2>1. /\ CallGoto(t, "media") /\ call[t].pc = "setup"
        /\ UNCHANGED <<connection_state, session_generation, installed, closing, events, open>>
    BY <1>5 DEF NativeCommit, signalVars, noticeVars
  <2>2. CallLive(t) /\ CallWorking(t)
    BY <2>1 DEF CallLive, CallWorking
  <2> QED BY <2>1, <2>2, <1>g, AccountedQuiet DEF NoSession
<1>6. CASE ConnectCommit(t)
  <2>1. /\ call[t].pc = "media" /\ call[t].gen = session_generation
        /\ installed = call[t].gen
        /\ \A u \in Tasks : u # t => call'[u] = call[u]
        /\ call'[t].pc = "committed" /\ call'[t].gen = call[t].gen
        /\ connection_state' = "Connected"
        /\ UNCHANGED <<session_generation, installed, closing, events, open>>
    BY <1>6, <1>f DEF ConnectCommit, signalVars, noticeVars, CallFrame
  <2>2. CallLive(t) /\ ~NoSession'
    BY <2>1 DEF CallLive, NoSession
  <2>3. \A u \in Tasks : CallLive(u)' => CallLive(u) /\ call'[u].gen = call[u].gen
    BY <2>1, <2>2 DEF CallLive
  <2>4. \A u \in Tasks : CallWorking(u)' => CallWorking(u) /\ u # t
    BY <2>1 DEF CallLive, CallWorking
  <2>5. \A u \in Tasks : CallWorking(u)' => call'[u].gen # session_generation
    BY <2>1, <2>2, <2>4 DEF CallWorking, SessionInv, AttemptsDistinct
  <2> QED BY <2>1, <2>2, <2>3, <2>4, <2>5, AccountedQuiet
<1>7. CASE ConnectReturn(t)
  <2>1. CallGoto(t, "ok")
        /\ UNCHANGED <<connection_state, session_generation, installed, closing, events, open>>
    BY <1>7 DEF ConnectReturn, roomVars, signalVars, noticeVars
  <2> QED BY <2>1, <1>g, AccountedQuiet DEF NoSession
<1>8. CASE ConnectThrows(t)
  <2>1. /\ CallGoto(t, "rollback") /\ call[t].pc \in {"signal", "joined", "setup", "media"}
        /\ UNCHANGED <<connection_state, session_generation, installed, closing, events, open>>
    BY <1>8 DEF ConnectThrows, roomVars, signalVars, noticeVars
  <2>2. CallLive(t) /\ CallWorking(t)
    BY <2>1 DEF CallLive, CallWorking
  <2> QED BY <2>1, <2>2, <1>g, AccountedQuiet DEF NoSession
<1>9. CASE ConnectRollback(t)
  <2>1. /\ CallGoto(t, "threw") /\ call[t].pc = "rollback"
        /\ UNCHANGED <<closing, events>> /\ open' \subseteq open
        /\ session_generation' = IF call[t].gen = session_generation
                                 THEN session_generation + 1 ELSE session_generation
        /\ installed' = IF call[t].gen = installed THEN 0 ELSE installed
        /\ connection_state' = IF call[t].gen \in {session_generation, installed}
                               THEN "Disconnected" ELSE connection_state
    BY <1>9 DEF ConnectRollback, RollbackFrame, noticeVars
  <2>2. /\ \A u \in Tasks : CallLive(u)' => CallLive(u) /\ call'[u].gen = call[u].gen
        /\ \A u \in Tasks : CallWorking(u)' => CallWorking(u)
    BY <2>1, <1>g
  <2>3. CASE call[t].gen = session_generation
    BY <2>1, <2>2, <2>3, AccountedNew
  <2>4. CASE call[t].gen # session_generation
    <3>1. CallLive(t) /\ call[t].gen > 0
      BY <2>1, <1>n DEF CallLive
    <3>2. call[t].gen = installed => connection_state \notin {"Connecting", "Connected", "Reconnecting"}
      BY <2>4, <3>1, <1>n DEF SessionInv, StateOwnsSession
    <3>3. /\ UNCHANGED session_generation
          /\ connection_state' = "Connecting" <=> connection_state = "Connecting"
          /\ installed # session_generation => installed' # session_generation \/ installed' = 0
      BY <2>1, <2>4, <3>2
    <3>4. NoSession' => NoSession
      BY <2>1, <2>4, <3>1, <3>2, <1>n DEF NoSession
    <3> QED BY <2>1, <2>2, <3>3, <3>4, AccountedQuiet
  <2> QED BY <2>3, <2>4
<1> QED
  BY <1>1, <1>2, <1>3, <1>4, <1>5, <1>6, <1>7, <1>8, <1>9 DEF ConnectStep

\* The teardown of Disconnect and Retire.
LEMMA TearDownEndsSession ==
  ASSUME SessionInv, NEW by, TearDownForUser(by)
  PROVE  NoSession'
  BY DEF TearDownForUser, NoSession, SessionInv, RoomTypes

LEMMA AccountedTearDown ==
  ASSUME SessionInv, DetachedPast, GenerationsAccounted, NEW by, TearDownForUser(by)
  PROVE  GenerationsAccounted'
<1>1. /\ session_generation' = session_generation + 1
      /\ connection_state' = "Disconnected" /\ installed' = 0
      /\ open' \subseteq open /\ UNCHANGED <<closing, events, call>>
  BY DEF TearDownForUser
<1>2. \A t \in Tasks : CallLive(t)' => CallLive(t) /\ call'[t].gen = call[t].gen
  BY <1>1 DEF CallLive
<1> QED BY <1>1, <1>2, AccountedNew

LEMMA AccountedReconnect ==
  ASSUME SessionInv, DetachedPast, GenerationsAccounted, NEW r \in Reconnects, ReconnectStep(r)
  PROVE  GenerationsAccounted'
<1> USE DEF RecGoto, recFrameOnly, roomVars, signalVars, noticeVars, userVars
<1>1. UNCHANGED <<closing, events>> /\ open' \subseteq open
  BY DEF ReconnectStep, AnnounceReconnecting, ReconnectBegins, NextAttempt,
         AttemptsExhausted, DelayOver, ResumeBegins, SignalRestarts, SyncStateSent,
         ResumeCommit, ResumeThrows, FullRestartTeardown, RestartConnects,
         RestartConnected, Republished, RestartCommit, RestartThrows, RestartFailed,
         GiveUpBegins, GiveUp, AnnounceOutcome, StopIf
<1>2. UNCHANGED call \/ CallGoto(r, "ready") \/ CallGoto(r, "idle")
  BY DEF ReconnectStep, AnnounceReconnecting, ReconnectBegins, NextAttempt,
         AttemptsExhausted, DelayOver, ResumeBegins, SignalRestarts, SyncStateSent,
         ResumeCommit, ResumeThrows, FullRestartTeardown, RestartConnects,
         RestartConnected, Republished, RestartCommit, RestartThrows, RestartFailed,
         GiveUpBegins, GiveUp, AnnounceOutcome, StopIf
<1>3. /\ \A t \in Tasks : CallLive(t)' => CallLive(t) /\ call'[t].gen = call[t].gen
      /\ \A t \in Tasks : CallWorking(t)' => CallWorking(t)
  <2>1. CASE UNCHANGED call
    BY <2>1 DEF CallLive, CallWorking
  <2>2. ASSUME NEW pc \in {"ready", "idle"}, CallGoto(r, pc)
        PROVE  <1>3
    <3>1. call \in [Tasks -> CallFrame] /\ r \in Tasks
      BY DEF SessionInv, RoomTypes, Tasks
    <3>2. /\ call'[r].pc = pc
          /\ \A t \in Tasks : t # r => call'[t] = call[t]
      BY <2>2, <3>1 DEF CallGoto, CallFrame
    <3> QED BY <3>2 DEF CallLive, CallWorking
  <2> QED BY <1>2, <2>1, <2>2
<1>4. CASE FullRestartTeardown(r) \/ GiveUp(r)
  <2>1. CASE StopIf(r, reconnect_disabled) \/ StopIf(r, FALSE)
    <3>1. UNCHANGED <<connection_state, session_generation, installed>>
      BY <2>1 DEF StopIf
    <3> QED BY <3>1, <1>1, <1>3, AccountedQuiet DEF NoSession
  <2>2. CASE ~(StopIf(r, reconnect_disabled) \/ StopIf(r, FALSE))
    <3>1. session_generation' = session_generation + 1 /\ connection_state' = "Disconnected"
      BY <1>4, <2>2 DEF FullRestartTeardown, GiveUp
    <3> QED BY <3>1, <1>1, <1>3, AccountedNew
  <2> QED BY <2>1, <2>2
<1>5. CASE ~(FullRestartTeardown(r) \/ GiveUp(r))
  <2>1. UNCHANGED <<session_generation, installed>>
    BY <1>5 DEF ReconnectStep, AnnounceReconnecting, ReconnectBegins, NextAttempt,
           AttemptsExhausted, DelayOver, ResumeBegins, SignalRestarts, SyncStateSent,
           ResumeCommit, ResumeThrows, RestartConnects,
           RestartConnected, Republished, RestartCommit, RestartThrows, RestartFailed,
           GiveUpBegins, AnnounceOutcome, StopIf
  <2>2. \/ UNCHANGED connection_state
        \/ connection_state # "Connecting" /\ connection_state' # "Connecting"
    <3>1. CASE ResumeCommit(r)
      BY <3>1 DEF ResumeCommit
    <3>2. CASE RestartFailed(r)
      BY <3>2 DEF RestartFailed
    <3>3. CASE ~ResumeCommit(r) /\ ~RestartFailed(r)
      BY <1>5, <3>3 DEF ReconnectStep, AnnounceReconnecting, ReconnectBegins, NextAttempt,
           AttemptsExhausted, DelayOver, ResumeBegins, SignalRestarts, SyncStateSent,
           ResumeThrows, RestartConnects,
           RestartConnected, Republished, RestartCommit, RestartThrows,
           GiveUpBegins, AnnounceOutcome, StopIf
    <3> QED BY <3>1, <3>2, <3>3
  <2> QED BY <2>1, <2>2, <1>1, <1>3, AccountedQuiet DEF NoSession
<1> QED BY <1>4, <1>5

LEMMA AccountedHandlers ==
  ASSUME SessionInv, DetachedPast, GenerationsAccounted,
         HandlersStep \/ TeardownEnds \/ ListenerRuns
  PROVE  GenerationsAccounted'
<1> USE DEF roomVars, recoveryVars, signalVars, noticeVars, userVars, ClosePending,
            LeavePending
<1>1. UNCHANGED call
  BY DEF HandlersStep, HandlerStep, DropStaleEvent, CloseStartsReconnect,
         CloseFailsConnect, CloseElsewhere, CloseDisconnects, BeginServerDisconnect,
         IgnoreLeave, FinalizeServerDisconnect, DeliverDisconnected, TeardownEnds,
         CloseDetached, ListenerRuns, ListenerCalled
<1>2. /\ \A t \in Tasks : CallLive(t)' => CallLive(t) /\ call'[t].gen = call[t].gen
      /\ \A t \in Tasks : CallWorking(t)' => CallWorking(t)
  BY <1>1 DEF CallLive, CallWorking
<1>3. ASSUME NEW g, CloseElsewhere(g)
      PROVE  GenerationsAccounted'
  <2>1. CASE finalizing
    BY <1>2, <1>3, <2>1, AccountedQuiet DEF CloseElsewhere, NoSession
  <2>2. CASE ~finalizing
    <3>1. /\ [type |-> "Close", gen |-> g] \in events /\ g = session_generation
          /\ connection_state # "Connecting"
          /\ closing' = closing \cup {g} /\ events' \subseteq events
          /\ UNCHANGED <<connection_state, session_generation, installed, open>>
      BY <1>3, <2>2 DEF CloseElsewhere, IsSignalGenerationCurrent
    <3>2. ~NoSession
      BY <3>1 DEF GenerationsAccounted
    <3>3. ~NoSession' /\ session_generation <= session_generation
      BY <3>1, <3>2 DEF NoSession, SessionInv, RoomTypes
    <3> QED BY <3>1, <3>3, <1>1, <1>2 DEF GenerationsAccounted
  <2> QED BY <2>1, <2>2
<1>4. ASSUME NEW g, CloseFailsConnect(g)
      PROVE  GenerationsAccounted'
  <2>1. /\ session_generation' = session_generation + 1
        /\ connection_state' # "Connecting" /\ events' \subseteq events
        /\ UNCHANGED <<closing, open>>
    BY <1>4 DEF CloseFailsConnect
  <2> QED BY <1>2, <2>1, AccountedNew
<1>5. ASSUME NEW g, FinalizeServerDisconnect(g)
      PROVE  GenerationsAccounted'
  <2>1. CASE UNCHANGED roomVars
    BY <1>2, <1>5, <2>1, AccountedQuiet DEF FinalizeServerDisconnect, NoSession
  <2>2. CASE ~UNCHANGED roomVars
    <3>1. /\ session_generation' = session_generation + 1
          /\ connection_state' # "Connecting" /\ open' \subseteq open
          /\ UNCHANGED <<closing, events>>
      BY <1>5, <2>2 DEF FinalizeServerDisconnect
    <3> QED BY <1>2, <3>1, AccountedNew
  <2> QED BY <2>1, <2>2
<1>6. ASSUME NEW g, CloseDisconnects(g)
      PROVE  GenerationsAccounted'
  <2>1. CASE UNCHANGED connection_state
    BY <1>2, <1>6, <2>1, AccountedQuiet DEF CloseDisconnects, NoSession
  <2>2. CASE ~UNCHANGED connection_state
    <3>1. /\ g \in closing /\ g = session_generation
          /\ connection_state \notin {"Disconnected", "Reconnecting"}
          /\ connection_state' = "Disconnected" /\ closing' \subseteq closing
          /\ UNCHANGED <<session_generation, installed, events, open>>
      BY <1>6, <2>2 DEF CloseDisconnects, IsSignalGenerationCurrent
    <3>2. connection_state # "Connecting"
      BY <3>1 DEF GenerationsAccounted
    <3> QED BY <1>2, <3>1, <3>2, AccountedQuiet DEF NoSession
  <2> QED BY <2>1, <2>2
<1>7. ASSUME NEW g, NEW r \in Reconnects, CloseStartsReconnect(g, r)
      PROVE  GenerationsAccounted'
  BY <1>2, <1>7, AccountedQuiet DEF CloseStartsReconnect, NoSession
<1>8. ASSUME UNCHANGED <<connection_state, session_generation, installed, closing>>,
             events' \subseteq events, open' \subseteq open
      PROVE  GenerationsAccounted'
  BY <1>2, <1>8, AccountedQuiet DEF NoSession
<1> QED
  BY <1>3, <1>4, <1>5, <1>6, <1>7, <1>8
  DEF HandlersStep, HandlerStep, DropStaleEvent, BeginServerDisconnect, IgnoreLeave,
      DeliverDisconnected, TeardownEnds, CloseDetached, ListenerRuns, ListenerCalled

LEMMA AccountedOutside ==
  ASSUME SessionInv, DetachedPast, GenerationsAccounted,
         Environment \/ RetireDisconnects \/ RetireDrained
  PROVE  GenerationsAccounted'
<1> USE DEF roomVars, recoveryVars, signalVars, noticeVars, userVars, vars
<1>0. /\ session_generation \in Nat
      /\ \A g \in open : g \in Nat /\ g <= session_generation
  BY OpenNotAhead, AttemptsNotAhead
<1>q. ASSUME UNCHANGED <<connection_state, session_generation, installed, open, closing,
                         events, call>>
      PROVE  GenerationsAccounted'
  <2>1. /\ \A t \in Tasks : CallLive(t)' => CallLive(t) /\ call'[t].gen = call[t].gen
        /\ \A t \in Tasks : CallWorking(t)' => CallWorking(t)
    BY <1>q DEF CallLive, CallWorking
  <2> QED BY <1>q, <2>1, AccountedQuiet DEF NoSession
<1>e. ASSUME NEW g \in open, NEW type, events' = events \cup {[type |-> type, gen |-> g]},
             UNCHANGED <<connection_state, session_generation, installed, open, closing, call>>
      PROVE  GenerationsAccounted'
  <2>1. \A e \in events' : e \in events \/ e.gen = g
    BY <1>e
  <2>2. g <= session_generation /\ (NoSession => g # session_generation)
    BY <1>0 DEF GenerationsAccounted
  <2>3. /\ NoSession' <=> NoSession
        /\ \A t \in Tasks : CallLive(t)' <=> CallLive(t)
        /\ \A t \in Tasks : CallWorking(t)' <=> CallWorking(t)
    BY <1>e DEF NoSession, CallLive, CallWorking
  <2>4. /\ \A e \in events' : e.gen <= session_generation
        /\ NoSession => \A e \in events' : e.gen # session_generation
    BY <2>1, <2>2 DEF GenerationsAccounted
  <2> QED BY <1>e, <2>3, <2>4 DEF GenerationsAccounted
<1>1. CASE Disconnect
  BY <1>1, <1>q, AccountedTearDown DEF Disconnect
<1>2. ASSUME NEW g, TransportCloses(g)
      PROVE  GenerationsAccounted'
  BY <1>2, <1>e DEF TransportCloses
<1>3. ASSUME NEW g, ServerSendsLeave(g)
      PROVE  GenerationsAccounted'
  BY <1>3, <1>e DEF ServerSendsLeave
<1>4. CASE RetireBegins
  BY <1>4, <1>q DEF RetireBegins
<1>5. CASE RetireDisconnects
  BY <1>5, <1>q, AccountedTearDown DEF RetireDisconnects
<1>6. CASE RetireDrained
  BY <1>6, <1>q DEF RetireDrained
<1> QED BY <1>1, <1>2, <1>3, <1>4, <1>5, <1>6 DEF Environment

-----------------------------------------------------------------------------
(* RecoveryInv, action by action.                                          *)

\* Frames stay well formed while generations only grow.
LEMMA FramesKept ==
  ASSUME SessionInv, FramesWellFormed,
         session_generation' \in {session_generation, session_generation + 1},
         connection_state' = "Connecting" =>
           connection_state = "Connecting" \/ session_generation' = session_generation + 1,
         \A q \in Reconnects : rec'[q] = rec[q] \/ FrameWellFormed(q)'
  PROVE  FramesWellFormed'
<1> SUFFICES ASSUME NEW q \in Reconnects, rec'[q] = rec[q]
             PROVE  FrameWellFormed(q)'
  BY DEF FramesWellFormed
<1>1. FrameWellFormed(q)
  BY DEF FramesWellFormed
<1>2. rec[q].rg \in Nat /\ session_generation \in Nat
  BY DEF SessionInv, RoomTypes, RecFrame
<1>3. (Restarting(q)' <=> Restarting(q)) /\ (Republishing(q)' <=> Republishing(q))
  BY DEF Restarting, Republishing
<1> QED BY <1>1, <1>2, <1>3 DEF FrameWellFormed

LEMMA RecoveryConnect ==
  ASSUME RecoveryInv, NEW t \in Tasks, ConnectStep(t)
  PROVE  FramesWellFormed' /\ ClaimsExclusive' /\ PhasesAgree'
<1> USE DEF roomVars, recoveryVars, RecoveryInv
<1>r. UNCHANGED <<rec, reconnect_active>>
  BY DEF ConnectStep, ConnectRefused, ConnectStart, SignalJoined, JoinCommit, NativeCommit,
         ConnectCommit, ConnectReturn, ConnectThrows, ConnectRollback, RollbackFrame
<1>n. /\ session_generation \in Nat /\ installed \in Nat /\ installed <= session_generation
      /\ CallLive(t) => call[t].gen \in Nat /\ call[t].gen > 0
  BY AttemptsNotAhead DEF SessionInv, RoomTypes, AttemptsDistinct
<1>q. ASSUME UNCHANGED session_generation, NoSession' <=> NoSession,
             installed = session_generation => installed' = session_generation,
             connection_state = "Reconnecting" => connection_state' = "Reconnecting",
             connection_state' = "Connecting" => connection_state = "Connecting"
      PROVE  FramesWellFormed' /\ ClaimsExclusive' /\ PhasesAgree'
  BY <1>q, <1>r, UnnoticedStep, FramesKept
<1>1. CASE ConnectStart(t)
  <2>1. /\ connection_state = "Disconnected" /\ installed = 0
        /\ connection_state' = "Connecting" /\ session_generation' = session_generation + 1
    BY <1>1 DEF ConnectStart, ConnectAdmitted
  <2> QED BY <2>1, <1>r, StartKeepsClaims, FramesKept
<1>2. CASE JoinCommit(t)
  <2>1. /\ UNCHANGED <<connection_state, session_generation>>
        /\ connection_state = "Connecting" /\ installed = 0 /\ installed' = call[t].gen
        /\ call[t].gen = session_generation
    BY <1>2 DEF JoinCommit
  <2> QED BY <2>1, <1>q DEF NoSession
<1>3. CASE ConnectCommit(t)
  <2>1. /\ UNCHANGED <<installed, session_generation>>
        /\ connection_state = "Connecting" /\ connection_state' = "Connected"
        /\ installed = session_generation
    BY <1>3 DEF ConnectCommit
  <2> QED BY <2>1, <1>q DEF NoSession
<1>4. CASE ConnectRollback(t)
  <2>1. /\ CallGoto(t, "threw") /\ call[t].pc = "rollback"
        /\ session_generation' = IF call[t].gen = session_generation
                                 THEN session_generation + 1 ELSE session_generation
        /\ installed' = IF call[t].gen = installed THEN 0 ELSE installed
        /\ connection_state' = IF call[t].gen \in {session_generation, installed}
                               THEN "Disconnected" ELSE connection_state
    BY <1>4 DEF ConnectRollback
  <2>2. CallLive(t) /\ CallWorking(t)
    BY <2>1 DEF CallLive, CallWorking
  <2>3. CASE call[t].gen = session_generation
    <3>1. connection_state = "Connecting"
      BY <2>2, <2>3 DEF GenerationsAccounted
    <3>2. NoSession' /\ session_generation' = session_generation + 1
          /\ connection_state' # "Connecting"
      BY <2>1, <2>3, <1>n DEF NoSession
    <3> QED BY <3>1, <3>2, <1>r, FailureKeepsClaims, FramesKept
  <2>4. CASE call[t].gen # session_generation
    <3>2. call[t].gen = installed => connection_state = "Disconnected"
      BY <2>2, <2>4, <1>n DEF SessionInv, StateOwnsSession, RoomTypes, ConnectionState
    <3>3. CASE call[t].gen = installed
      <4>1. /\ installed' = 0 /\ session_generation' = session_generation
            /\ connection_state' = connection_state /\ connection_state = "Disconnected"
            /\ session_generation > 0 /\ installed # session_generation
        BY <2>1, <2>2, <2>4, <3>2, <3>3, <1>n
      <4> QED BY <4>1, <1>q DEF NoSession
    <3>4. CASE call[t].gen # installed
      BY <2>1, <2>4, <3>4, <1>q DEF NoSession
    <3> QED BY <3>3, <3>4
  <2> QED BY <2>3, <2>4
<1>5. CASE UNCHANGED <<connection_state, session_generation, installed>>
  BY <1>5, <1>q DEF NoSession
<1> QED
  BY <1>1, <1>2, <1>3, <1>4, <1>5
  DEF ConnectStep, ConnectRefused, SignalJoined, NativeCommit, ConnectReturn, ConnectThrows

LEMMA RecoveryTearDown ==
  ASSUME RecoveryInv, NEW by, TearDownForUser(by)
  PROVE  FramesWellFormed' /\ ClaimsExclusive' /\ PhasesAgree'
<1>1. NoSession'
  BY TearDownEndsSession DEF RecoveryInv
<1>2. /\ session_generation' = session_generation + 1 /\ ~reconnect_active'
      /\ connection_state' # "Connecting" /\ UNCHANGED rec
  BY DEF TearDownForUser
<1> QED BY <1>1, <1>2, TeardownEndsClaims, FramesKept DEF RecoveryInv

LEMMA RecoveryHandlers ==
  ASSUME RecoveryInv, HandlersStep \/ TeardownEnds \/ ListenerRuns
  PROVE  FramesWellFormed' /\ ClaimsExclusive' /\ PhasesAgree'
<1> USE DEF roomVars, recoveryVars, noticeVars, RecoveryInv, ClosePending, LeavePending
<1>n. session_generation \in Nat /\ installed \in Nat /\ installed <= session_generation
  BY DEF SessionInv, RoomTypes, AttemptsDistinct
<1>q. ASSUME UNCHANGED <<rec, reconnect_active, session_generation, installed>>,
             \/ UNCHANGED connection_state
             \/ connection_state = "Connected" /\ connection_state' = "Disconnected"
      PROVE  FramesWellFormed' /\ ClaimsExclusive' /\ PhasesAgree'
  BY <1>q, UnnoticedStep, FramesKept DEF NoSession
<1>1. ASSUME NEW g, NEW r \in Reconnects, CloseStartsReconnect(g, r)
      PROVE  FramesWellFormed' /\ ClaimsExclusive' /\ PhasesAgree'
  <2>1. /\ UNCHANGED <<session_generation, installed, reconnect_active>>
        /\ connection_state = "Connected" /\ connection_state' = "Reconnecting"
        /\ rec'[r].pc = "announce" /\ rec'[r].rg = session_generation
        /\ \A q \in Reconnects \ {r} : rec'[q] = rec[q]
    BY <1>1 DEF CloseStartsReconnect, SessionInv, RoomTypes
  <2>2. FrameWellFormed(r)'
    BY <2>1, <1>n DEF FrameWellFormed, Restarting, Republishing
  <2> QED BY <2>1, <2>2, UnnoticedStep, FramesKept DEF NoSession
<1>2. ASSUME NEW g, CloseFailsConnect(g)
      PROVE  FramesWellFormed' /\ ClaimsExclusive' /\ PhasesAgree'
  <2>1. /\ connection_state = "Connecting" /\ connection_state' = "Disconnected"
        /\ session_generation' = session_generation + 1
        /\ UNCHANGED <<rec, reconnect_active, installed>>
    BY <1>2 DEF CloseFailsConnect
  <2>2. NoSession'
    BY <2>1, <1>n DEF NoSession
  <2> QED BY <2>1, <2>2, FailureKeepsClaims, FramesKept
<1>3. ASSUME NEW g, FinalizeServerDisconnect(g)
      PROVE  FramesWellFormed' /\ ClaimsExclusive' /\ PhasesAgree'
  <2>1. CASE UNCHANGED <<roomVars, reconnect_active>>
    BY <1>3, <2>1, <1>q DEF FinalizeServerDisconnect
  <2>2. CASE ~UNCHANGED <<roomVars, reconnect_active>>
    <3>1. /\ session_generation' = session_generation + 1 /\ installed' = 0
          /\ connection_state' = "Disconnected" /\ ~reconnect_active' /\ UNCHANGED rec
      BY <1>3, <2>2 DEF FinalizeServerDisconnect
    <3>2. NoSession'
      BY <3>1, <1>n DEF NoSession
    <3> QED BY <3>1, <3>2, TeardownEndsClaims, FramesKept
  <2> QED BY <2>1, <2>2
<1>4. ASSUME NEW g, CloseDisconnects(g)
      PROVE  FramesWellFormed' /\ ClaimsExclusive' /\ PhasesAgree'
  <2>1. CASE UNCHANGED connection_state
    BY <1>4, <2>1, <1>q DEF CloseDisconnects
  <2>2. CASE ~UNCHANGED connection_state
    <3>1. /\ g \in closing /\ g = session_generation
          /\ connection_state \notin {"Disconnected", "Reconnecting"}
          /\ connection_state' = "Disconnected"
          /\ UNCHANGED <<rec, reconnect_active, session_generation, installed>>
      BY <1>4, <2>2 DEF CloseDisconnects, IsSignalGenerationCurrent
    <3>2. connection_state = "Connected"
      BY <3>1 DEF GenerationsAccounted, SessionInv, RoomTypes, ConnectionState
    <3> QED BY <3>1, <3>2, <1>q
  <2> QED BY <2>1, <2>2
<1>5. CASE UNCHANGED <<rec, reconnect_active, roomVars>>
  BY <1>5, <1>q
<1> QED
  BY <1>1, <1>2, <1>3, <1>4, <1>5
  DEF HandlersStep, HandlerStep, DropStaleEvent, CloseElsewhere, BeginServerDisconnect,
      IgnoreLeave, DeliverDisconnected, TeardownEnds, CloseDetached, ListenerRuns,
      ListenerCalled

LEMMA RecoveryOutside ==
  ASSUME RecoveryInv, Environment \/ RetireDisconnects \/ RetireDrained
  PROVE  FramesWellFormed' /\ ClaimsExclusive' /\ PhasesAgree'
<1>1. ASSUME NEW by, TearDownForUser(by)
      PROVE  FramesWellFormed' /\ ClaimsExclusive' /\ PhasesAgree'
  BY <1>1, RecoveryTearDown
<1>2. CASE UNCHANGED <<rec, reconnect_active, roomVars>>
  BY <1>2, UnnoticedStep, FramesKept DEF RecoveryInv, NoSession, roomVars
<1> QED
  BY <1>1, <1>2
  DEF Environment, Disconnect, TransportCloses, ServerSendsLeave, RetireBegins,
      RetireDisconnects, RetireDrained, vars, roomVars, recoveryVars

\* A new recovery begins in a session nobody claims.
LEMMA AcquireStep ==
  ASSUME SessionInv, FramesWellFormed, ClaimsExclusive, PhasesAgree, NEW r \in Reconnects,
         ~reconnect_active, reconnect_active',
         installed = session_generation, connection_state = "Reconnecting",
         rec'[r].pc = "loop", rec'[r].rg = session_generation,
         \A q \in Reconnects \ {r} : rec'[q] = rec[q],
         UNCHANGED <<session_generation, installed, connection_state>>
  PROVE  /\ ClaimsExclusive' /\ PhasesAgree'
         /\ \A q \in Reconnects : Claims(q)' => q = r
<1>0. ~NoSession /\ ~NoSession'
  BY DEF NoSession
<1>1. ASSUME NEW q \in Reconnects \ {r}
      PROVE  /\ rec'[q] = rec[q] /\ PhaseAgrees(q) /\ ~Claims(q)
             /\ Recovering(q)' <=> Recovering(q)
             /\ Restarting(q)' <=> Restarting(q)
             /\ Republishing(q)' <=> Republishing(q)
             /\ ~(Restarting(q) /\ session_generation = rec[q].rg + 1)
  <2>1. PhaseAgrees(q)
    BY DEF PhasesAgree
  <2>2. ~(Restarting(q) /\ session_generation = rec[q].rg + 1)
    BY <2>1, <1>0 DEF PhaseAgrees
  <2>3. ~(rec[q].pc = "disconnected" /\ rec[q].rg = session_generation)
    BY <2>1, <1>0 DEF PhaseAgrees
  <2>4. Claims(q) => rec[q].pc = "disconnected"
    BY DEF ClaimsExclusive
  <2>5. ~Claims(q)
    BY <2>3, <2>4 DEF Claims
  <2> QED BY <2>1, <2>2, <2>5 DEF Recovering, Restarting, Republishing
<1>2. ASSUME NEW q \in Reconnects \ {r}
      PROVE  ~Claims(q)' /\ PhaseAgrees(q)'
  <2>1. ~Claims(q)'
    BY <1>0, <1>1 DEF Claims
  <2>2. PhaseAgrees(q)'
    BY <1>0, <1>1 DEF PhaseAgrees
  <2> QED BY <2>1, <2>2
<1>3. PhaseAgrees(r)'
  <2>1. ~Restarting(r)' /\ ~Republishing(r)' /\ rec'[r].pc # "disconnected"
    BY DEF Restarting, Republishing
  <2> QED BY <2>1 DEF PhaseAgrees
<1> QED BY <1>2, <1>3 DEF ClaimsExclusive, PhasesAgree

\* A frame whose phase alone changes, after the coroutine was announced.
LEMMA FrameMoves ==
  ASSUME SessionInv, FramesWellFormed, NEW r \in Reconnects, rec[r].pc # "off",
         \A q \in Reconnects \ {r} : rec'[q] = rec[q],
         rec'[r].rg = rec[r].rg, rec'[r].cg = rec[r].cg,
         rec'[r].pc # "connecting",
         rec'[r].pc \in {"republish", "channel"} => rec[r].cg = rec[r].rg,
         rec'[r].pc = "catch" => rec[r].cg \in {rec[r].rg, rec[r].rg + 1},
         Restarting(r)' \/ Republishing(r)' => Restarting(r) \/ Republishing(r),
         UNCHANGED session_generation,
         connection_state' = "Connecting" => connection_state = "Connecting"
  PROVE  FramesWellFormed'
<1>1. FrameWellFormed(r)
  BY DEF FramesWellFormed
<1>2. FrameWellFormed(r)'
  BY <1>1 DEF FrameWellFormed
<1> QED BY <1>2, FramesKept

\* A recovery that stops gives up its claim, and releases the recovery only if it
\* had one.
LEMMA RecoveryStop ==
  ASSUME RecoveryInv, NEW r \in Reconnects, Recovering(r), NEW stop \in BOOLEAN,
         StopIf(r, stop)
  PROVE  FramesWellFormed' /\ ClaimsExclusive' /\ PhasesAgree' /\ ~Claims(r)'
<1> USE DEF RecoveryInv
<1>1. /\ rec'[r].pc = "done" /\ rec'[r].rg = rec[r].rg /\ rec'[r].cg = rec[r].cg
      /\ \A q \in Reconnects \ {r} : rec'[q] = rec[q]
  BY DEF StopIf, RecGoto, SessionInv, RoomTypes, RecFrame
<1>2. UNCHANGED <<connection_state, session_generation, installed>>
  BY DEF StopIf, roomVars
<1>3. ~Recovering(r)' /\ ~Restarting(r)' /\ ~Republishing(r)' /\ ~Claims(r)'
  BY <1>1 DEF Recovering, Restarting, Republishing, Claims
<1>4. rec[r].pc \notin {"off", "disconnected"}
  BY DEF Recovering
<1>5. reconnect_active' = reconnect_active \/ (Claims(r) /\ ~reconnect_active')
  BY DEF StopIf, StillOwner, IsSignalGenerationCurrent, Claims
<1>6. PhaseAgrees(r)'
  BY <1>1, <1>3 DEF PhaseAgrees
<1>7. FramesWellFormed'
  BY <1>1, <1>2, <1>3, <1>4, FrameMoves
<1> QED BY <1>1, <1>2, <1>3, <1>4, <1>5, <1>6, <1>7, ClaimantStep DEF NoSession

\* Every step of AttemptReconnect keeps the claims exclusive, and a coroutine that
\* has entered claims nothing new within a generation.
LEMMA RecoveryReconnect ==
  ASSUME RecoveryInv, NEW r \in Reconnects, ReconnectStep(r)
  PROVE  /\ FramesWellFormed' /\ ClaimsExclusive' /\ PhasesAgree'
         /\ \/ session_generation' = session_generation + 1
            \/ rec[r].pc = "spawned"
            \/ Claims(r)' => Claims(r)
<1> DEFINE Kept == \/ session_generation' = session_generation + 1
                   \/ rec[r].pc = "spawned"
                   \/ Claims(r)' => Claims(r)
           Goal == FramesWellFormed' /\ ClaimsExclusive' /\ PhasesAgree' /\ Kept
<1> SUFFICES Goal
  OBVIOUS
<1> USE DEF RecoveryInv, recFrameOnly, roomVars, recoveryVars
<1>n. /\ session_generation \in Nat /\ installed \in Nat /\ installed <= session_generation
      /\ rec[r].rg \in Nat /\ rec[r].cg \in Nat
  BY DEF SessionInv, RoomTypes, AttemptsDistinct, RecFrame
<1>p. PhaseAgrees(r) /\ FrameWellFormed(r)
  BY DEF PhasesAgree, FramesWellFormed
<1>m. ASSUME NEW pc, RecGoto(r, pc)
      PROVE  /\ rec'[r].pc = pc /\ rec'[r].rg = rec[r].rg /\ rec'[r].cg = rec[r].cg
             /\ \A q \in Reconnects \ {r} : rec'[q] = rec[q]
  BY <1>m DEF RecGoto, SessionInv, RoomTypes, RecFrame
\* r ends, or is only starting: no recovery notices.
<1>e. ASSUME rec[r].pc # "off", NEW pc \in {"spawned", "done"}, RecGoto(r, pc),
             UNCHANGED <<roomVars, reconnect_active>>
      PROVE  Goal
  <2>1. /\ rec'[r].pc \in {"spawned", "done"}
        /\ rec'[r].rg = rec[r].rg /\ rec'[r].cg = rec[r].cg
        /\ \A q \in Reconnects \ {r} : rec'[q] = rec[q]
    BY <1>e, <1>m
  <2>2. ~Restarting(r)' /\ ~Republishing(r)'
    BY <2>1 DEF Restarting, Republishing
  <2>3. FramesWellFormed'
    BY <1>e, <2>1, <2>2, FrameMoves
  <2>4. UNCHANGED <<connection_state, session_generation, installed, reconnect_active>>
    BY <1>e
  <2>5. NoSession' <=> NoSession
    BY <2>4 DEF NoSession
  <2> HIDE <1>e
  <2> QED BY <2>1, <2>3, <2>4, <2>5, UnnoticedStep
\* r goes on within its recovery.
<1>c. ASSUME Recovering(r), Recovering(r)', rec'[r].rg = rec[r].rg, rec'[r].cg = rec[r].cg,
             \A q \in Reconnects \ {r} : rec'[q] = rec[q],
             UNCHANGED <<roomVars, reconnect_active>>
      PROVE  Goal
  <2>0. UNCHANGED <<connection_state, session_generation, installed, reconnect_active>>
    BY <1>c
  <2>1. /\ ~Restarting(r)' /\ ~Republishing(r)' /\ ~Restarting(r) /\ ~Republishing(r)
        /\ rec[r].pc \notin {"off", "disconnected"}
        /\ rec'[r].pc \notin {"connecting", "republish", "channel", "catch", "disconnected"}
    BY <1>c DEF Recovering, Restarting, Republishing
  <2>2. FramesWellFormed'
    BY <1>c, <2>0, <2>1, FrameMoves
  <2>3. Claims(r)' => Claims(r)
    BY <1>c, <2>0, <2>1 DEF Claims
  <2>4. Claims(r) => reconnect_active
    BY <2>1 DEF ClaimsExclusive
  <2>5. PhaseAgrees(r)'
    BY <1>c, <1>p, <2>0, <2>1 DEF PhaseAgrees
  <2>6. NoSession' <=> NoSession
    BY <2>0 DEF NoSession
  <2> QED BY <1>c, <2>0, <2>1, <2>2, <2>3, <2>4, <2>5, <2>6, ClaimantStep
<1>1. CASE AnnounceReconnecting(r)
  BY <1>1, <1>e DEF AnnounceReconnecting
<1>2. CASE ReconnectBegins(r)
  <2>1. CASE /\ IsSignalGenerationCurrent(rec[r].rg) /\ installed = rec[r].rg
             /\ connection_state = "Reconnecting"
             /\ ~reconnect_active /\ ~reconnect_disabled
    <3>1. PICK full \in BOOLEAN : rec' = [rec EXCEPT ![r].pc = "loop", ![r].full = full]
      BY <1>2, <2>1 DEF ReconnectBegins
    <3>2. /\ rec'[r].pc = "loop" /\ rec'[r].rg = rec[r].rg /\ rec'[r].cg = rec[r].cg
          /\ \A q \in Reconnects \ {r} : rec'[q] = rec[q]
      BY <3>1 DEF SessionInv, RoomTypes, RecFrame
    <3>3. /\ rec[r].rg = session_generation /\ installed = session_generation
          /\ reconnect_active' /\ rec[r].pc = "spawned"
          /\ UNCHANGED <<connection_state, session_generation, installed>>
      BY <1>2, <2>1 DEF ReconnectBegins, IsSignalGenerationCurrent
    <3>4. ~Restarting(r)' /\ ~Republishing(r)'
      BY <3>2 DEF Restarting, Republishing
    <3>5. FramesWellFormed'
      BY <3>2, <3>3, <3>4, FrameMoves
    <3> HIDE <3>1
    <3> QED BY <2>1, <3>2, <3>3, <3>5, AcquireStep
  <2>2. CASE RecGoto(r, "done") /\ UNCHANGED reconnect_active
    BY <1>2, <2>2, <1>e DEF ReconnectBegins
  <2> QED BY <1>2, <2>1, <2>2 DEF ReconnectBegins
<1>3. CASE NextAttempt(r)
  <2>1. /\ rec[r].pc = "loop" /\ rec'[r].pc = "delay"
        /\ rec'[r].rg = rec[r].rg /\ rec'[r].cg = rec[r].cg
        /\ \A q \in Reconnects \ {r} : rec'[q] = rec[q]
        /\ UNCHANGED <<roomVars, reconnect_active>>
    BY <1>3 DEF NextAttempt, SessionInv, RoomTypes, RecFrame
  <2> QED BY <2>1, <1>c DEF Recovering
<1>g. ASSUME NEW pc \in {"loop", "delay", "resume", "restarting", "sync", "ice", "teardown",
                         "exhausted", "giveup"},
             Recovering(r), RecGoto(r, pc), UNCHANGED <<roomVars, reconnect_active>>
      PROVE  Goal
  <2>1. /\ rec'[r].pc = pc /\ rec'[r].rg = rec[r].rg /\ rec'[r].cg = rec[r].cg
        /\ \A q \in Reconnects \ {r} : rec'[q] = rec[q]
    BY <1>g, <1>m
  <2>2. Recovering(r)'
    BY <2>1 DEF Recovering
  <2> QED BY <1>g, <2>1, <2>2, <1>c
<1>4. CASE AttemptsExhausted(r)
  BY <1>4, <1>g DEF AttemptsExhausted, Recovering
<1>5. CASE DelayOver(r)
  <2>1. Recovering(r) /\ ToldToStop(r) \in BOOLEAN
    BY <1>5 DEF DelayOver, Recovering, ToldToStop, SessionInv, RoomTypes
  <2>2. CASE StopIf(r, ToldToStop(r))
    BY <2>1, <2>2, RecoveryStop
  <2>3. CASE ~StopIf(r, ToldToStop(r))
    BY <1>5, <2>1, <2>3, <1>g DEF DelayOver
  <2> QED BY <2>2, <2>3
<1>6. CASE ResumeBegins(r)
  <2>1. rec[r].pc = "resume" /\ UNCHANGED <<roomVars, reconnect_active>>
        /\ (RecGoto(r, "restarting") \/ RecGoto(r, "done"))
    BY <1>6 DEF ResumeBegins
  <2> QED BY <2>1, <1>g, <1>e DEF Recovering
<1>7. CASE SignalRestarts(r)
  BY <1>7, <1>g DEF SignalRestarts, Recovering
<1>8. CASE SyncStateSent(r)
  BY <1>8, <1>g DEF SyncStateSent, Recovering
<1>9. CASE ResumeCommit(r)
  <2>1. /\ rec[r].pc = "ice" /\ rec'[r].pc = "reconnected"
        /\ rec'[r].rg = rec[r].rg /\ rec'[r].cg = rec[r].cg
        /\ \A q \in Reconnects \ {r} : rec'[q] = rec[q]
    BY <1>9, <1>m DEF ResumeCommit
  <2>2. /\ rec[r].rg = session_generation /\ ~reconnect_active'
        /\ connection_state = "Reconnecting" /\ connection_state' = "Connected"
        /\ UNCHANGED <<session_generation, installed>>
    BY <1>9 DEF ResumeCommit, IsSignalGenerationCurrent
  <2>3. Recovering(r) /\ Claims(r)
    BY <2>1, <2>2 DEF Recovering, Claims
  <2>4. ~Recovering(r)' /\ ~Restarting(r)' /\ ~Republishing(r)' /\ ~Claims(r)'
    BY <2>1 DEF Recovering, Restarting, Republishing, Claims
  <2>5. FramesWellFormed'
    BY <2>1, <2>2, <2>4, FrameMoves
  <2>6. PhaseAgrees(r)'
    BY <2>1, <2>4 DEF PhaseAgrees
  <2> QED BY <2>1, <2>2, <2>3, <2>4, <2>5, <2>6, ClaimantStep DEF NoSession
<1>10. CASE ResumeThrows(r)
  <2>1. /\ rec[r].pc \in {"restarting", "sync", "ice"} /\ rec'[r].pc = "teardown"
        /\ rec'[r].rg = rec[r].rg /\ rec'[r].cg = rec[r].cg
        /\ \A q \in Reconnects \ {r} : rec'[q] = rec[q]
        /\ UNCHANGED <<roomVars, reconnect_active>>
    BY <1>10 DEF ResumeThrows, SessionInv, RoomTypes, RecFrame
  <2> QED BY <2>1, <1>c DEF Recovering
<1>11. CASE FullRestartTeardown(r)
  <2>0. rec[r].pc = "teardown" /\ Recovering(r) /\ reconnect_disabled \in BOOLEAN
    BY <1>11 DEF FullRestartTeardown, Recovering, SessionInv, RoomTypes
  <2>1. CASE StopIf(r, reconnect_disabled)
    BY <2>0, <2>1, RecoveryStop
  <2>2. CASE ~StopIf(r, reconnect_disabled)
    <3>1. /\ rec' = [rec EXCEPT ![r].pc = "restart", ![r].rg = session_generation + 1,
                                ![r].cg = 0]
          /\ rec[r].rg = session_generation /\ session_generation' = session_generation + 1
          /\ installed' = 0 /\ connection_state' = "Disconnected"
          /\ UNCHANGED reconnect_active
      BY <1>11, <2>2 DEF FullRestartTeardown, StillOwner, IsSignalGenerationCurrent
    <3>2. /\ rec'[r].pc = "restart" /\ rec'[r].rg = session_generation + 1
          /\ \A q \in Reconnects \ {r} : rec'[q] = rec[q]
      BY <3>1 DEF SessionInv, RoomTypes, RecFrame
    <3>3. NoSession'
      BY <3>1, <1>n DEF NoSession
    <3>4. FrameWellFormed(r)'
      BY <3>1, <3>2, <1>n DEF FrameWellFormed, Restarting, Republishing
    <3> HIDE <3>1
    <3>5. /\ session_generation' = session_generation + 1
          /\ connection_state' = "Disconnected" /\ UNCHANGED reconnect_active
          /\ rec[r].rg = session_generation
      BY <3>1
    <3> QED BY <2>0, <3>2, <3>3, <3>4, <3>5, RestartKeepsClaim, FramesKept
  <2> QED BY <2>1, <2>2
\* r goes from one phase of a full restart to another within a generation.
<1>f. ASSUME Restarting(r) \/ Republishing(r),
             \A q \in Reconnects \ {r} : rec'[q] = rec[q],
             UNCHANGED <<session_generation, installed, reconnect_active, connection_state>>,
             FrameWellFormed(r)', PhaseAgrees(r)',
             Claims(r)' => Claims(r), rec'[r].pc # "disconnected"
      PROVE  Goal
  <2>1. rec[r].pc # "disconnected"
    BY <1>f DEF Restarting, Republishing
  <2>2. Claims(r) => reconnect_active
    BY <2>1 DEF ClaimsExclusive
  <2>3. NoSession' <=> NoSession
    BY <1>f DEF NoSession
  <2>4. FramesWellFormed'
    BY <1>f, FramesKept
  <2> QED BY <1>f, <2>1, <2>2, <2>3, <2>4, ClaimantStep
<1>12. CASE RestartConnects(r)
  <2>1. /\ rec[r].pc = "restart" /\ rec'[r].pc = "connecting"
        /\ rec'[r].rg = rec[r].rg /\ rec'[r].cg = rec[r].rg + 1
        /\ \A q \in Reconnects \ {r} : rec'[q] = rec[q]
        /\ UNCHANGED <<session_generation, installed, reconnect_active, connection_state>>
    BY <1>12 DEF RestartConnects, SessionInv, RoomTypes, RecFrame
  <2>2. /\ Restarting(r) /\ Restarting(r)' /\ ~Recovering(r)' /\ ~Republishing(r)'
        /\ ~Recovering(r) /\ ~Republishing(r)
    BY <2>1 DEF Restarting, Recovering, Republishing
  <2>3. FrameWellFormed(r)'
    BY <1>p, <2>1, <2>2 DEF FrameWellFormed
  <2>4. NoSession' <=> NoSession
    BY <2>1 DEF NoSession
  <2>5. PhaseAgrees(r)'
    BY <1>p, <2>1, <2>2, <2>4 DEF PhaseAgrees
  <2>6. Claims(r)' => Claims(r)
    BY <2>1, <2>2, <2>4 DEF Claims
  <2> QED BY <2>1, <2>2, <2>3, <2>5, <2>6, <1>f
<1>13. CASE RestartConnected(r)
  <2>0. /\ rec[r].pc = "connecting" /\ rec[r].cg = rec[r].rg + 1 /\ rec[r].rg > 0
        /\ Restarting(r)
        /\ UNCHANGED <<session_generation, installed, reconnect_active, connection_state>>
    BY <1>13, <1>p DEF RestartConnected, FrameWellFormed, Restarting
  <2>1. CASE call[r].pc = "ok" /\ RestartHolds(rec[r].cg)
    <3>1. /\ rec'[r].pc = "republish" /\ rec'[r].rg = rec[r].cg /\ rec'[r].cg = rec[r].cg
          /\ \A q \in Reconnects \ {r} : rec'[q] = rec[q]
      BY <1>13, <2>1 DEF RestartConnected, SessionInv, RoomTypes, RecFrame
    <3>2. /\ session_generation = rec[r].cg /\ installed = session_generation
          /\ connection_state = "Connected" /\ reconnect_active
      BY <2>1 DEF RestartHolds, IsNativeGenerationCurrent
    <3>3. ~Recovering(r)' /\ ~Restarting(r)' /\ Republishing(r)'
      BY <3>1 DEF Recovering, Restarting, Republishing
    <3>4. FrameWellFormed(r)'
      BY <2>0, <3>1, <3>2, <1>n DEF FrameWellFormed
    <3>5. PhaseAgrees(r)'
      BY <2>0, <3>1, <3>2, <3>3, <1>n DEF PhaseAgrees
    <3>6. Claims(r)
      BY <2>0, <3>2 DEF Claims
    <3> QED BY <2>0, <3>1, <3>4, <3>5, <3>6, <1>f
  <2>2. CASE ~(call[r].pc = "ok" /\ RestartHolds(rec[r].cg))
    <3>1. /\ rec'[r].pc = "catch" /\ rec'[r].rg = rec[r].rg /\ rec'[r].cg = rec[r].cg
          /\ \A q \in Reconnects \ {r} : rec'[q] = rec[q]
      BY <1>13, <2>2 DEF RestartConnected, SessionInv, RoomTypes, RecFrame
    <3>2. /\ Restarting(r)' /\ ~Recovering(r)' /\ ~Republishing(r)'
          /\ ~Recovering(r) /\ ~Republishing(r)
      BY <2>0, <3>1, <1>n DEF Restarting, Recovering, Republishing
    <3>3. FrameWellFormed(r)'
      BY <1>p, <2>0, <3>1, <3>2 DEF FrameWellFormed
    <3>4. NoSession' <=> NoSession
      BY <2>0 DEF NoSession
    <3>5. PhaseAgrees(r)'
      BY <1>p, <2>0, <3>1, <3>2, <3>4 DEF PhaseAgrees
    <3>6. Claims(r)' => Claims(r)
      BY <2>0, <3>1, <3>2, <3>4 DEF Claims
    <3> QED BY <2>0, <3>1, <3>3, <3>5, <3>6, <1>f
  <2> QED BY <2>1, <2>2
\* r moves on with the bundle full_restart_commit gave it.
<1>h. ASSUME rec[r].pc \in {"republish", "channel"}, NEW pc \in {"channel", "catch"},
             RecGoto(r, pc), UNCHANGED <<roomVars, reconnect_active>>
      PROVE  Goal
  <2>1. /\ rec'[r].pc = pc /\ rec'[r].rg = rec[r].rg /\ rec'[r].cg = rec[r].cg
        /\ \A q \in Reconnects \ {r} : rec'[q] = rec[q]
    BY <1>h, <1>m
  <2>2. UNCHANGED <<session_generation, installed, reconnect_active, connection_state>>
        /\ rec[r].cg = rec[r].rg
    BY <1>h, <1>p DEF FrameWellFormed
  <2>3. /\ Republishing(r) /\ Republishing(r)' /\ ~Restarting(r) /\ ~Restarting(r)'
        /\ ~Recovering(r) /\ ~Recovering(r)'
    BY <1>h, <1>n, <2>1, <2>2 DEF Republishing, Restarting, Recovering
  <2>4. FrameWellFormed(r)'
    BY <1>h, <1>p, <2>1, <2>2, <2>3 DEF FrameWellFormed
  <2>5. NoSession' <=> NoSession
    BY <2>2 DEF NoSession
  <2>6. PhaseAgrees(r)'
    BY <1>h, <1>p, <2>1, <2>2, <2>3, <2>5 DEF PhaseAgrees
  <2>7. Claims(r)' => Claims(r)
    BY <2>1, <2>2, <2>3 DEF Claims
  <2> QED BY <1>h, <2>1, <2>2, <2>3, <2>4, <2>6, <2>7, <1>f
<1>14. CASE Republished(r)
  <2>1. rec[r].pc = "republish" /\ UNCHANGED <<roomVars, reconnect_active>>
        /\ (RecGoto(r, "channel") \/ RecGoto(r, "done"))
    BY <1>14 DEF Republished
  <2> QED BY <2>1, <1>h, <1>e
<1>15. CASE RestartCommit(r)
  <2>1. CASE RestartHolds(rec[r].rg)
    <3>1. /\ rec[r].pc = "channel" /\ rec'[r].pc = "reconnected"
          /\ rec'[r].rg = rec[r].rg /\ rec'[r].cg = rec[r].cg
          /\ \A q \in Reconnects \ {r} : rec'[q] = rec[q]
      BY <1>15, <2>1, <1>m DEF RestartCommit
    <3>2. /\ rec[r].rg = session_generation /\ ~reconnect_active'
          /\ UNCHANGED <<session_generation, installed, connection_state>>
      BY <1>15, <2>1 DEF RestartCommit, RestartHolds, IsNativeGenerationCurrent
    <3>3. Republishing(r) /\ Claims(r)
      BY <3>1, <3>2 DEF Republishing, Claims
    <3>4. ~Recovering(r)' /\ ~Restarting(r)' /\ ~Republishing(r)' /\ ~Claims(r)'
      BY <3>1 DEF Recovering, Restarting, Republishing, Claims
    <3>5. FramesWellFormed'
      BY <3>1, <3>2, <3>4, FrameMoves
    <3>6. PhaseAgrees(r)'
      BY <3>1, <3>4 DEF PhaseAgrees
    <3> QED BY <3>1, <3>2, <3>3, <3>4, <3>5, <3>6, ClaimantStep DEF NoSession
  <2>2. CASE ~RestartHolds(rec[r].rg)
    <3>1. rec[r].pc = "channel" /\ RecGoto(r, "done") /\ UNCHANGED <<roomVars, reconnect_active>>
      BY <1>15, <2>2 DEF RestartCommit
    <3> QED BY <3>1, <1>e
  <2> QED BY <2>1, <2>2
<1>16. CASE RestartThrows(r)
  BY <1>16, <1>h DEF RestartThrows
<1>17. CASE RestartFailed(r)
  <2>0. /\ rec[r].pc = "catch" /\ rec[r].cg \in {rec[r].rg, rec[r].rg + 1}
        /\ UNCHANGED <<session_generation, installed, native, reconnect_active>>
        /\ Restarting(r) \/ Republishing(r)
        /\ Restarting(r) => rec[r].cg = rec[r].rg + 1 /\ rec[r].rg > 0
        /\ Republishing(r) => rec[r].cg = rec[r].rg
    BY <1>17, <1>p DEF RestartFailed, FrameWellFormed, Restarting, Republishing
  <2>1. ASSUME rec'[r].pc = "loop", rec'[r].rg = session_generation,
               rec'[r].cg = rec[r].cg, \A q \in Reconnects \ {r} : rec'[q] = rec[q],
               Claims(r), connection_state # "Connecting",
               connection_state' = "Reconnecting"
        PROVE  Goal
    <3>1. ~Restarting(r)' /\ ~Republishing(r)' /\ rec'[r].pc # "disconnected"
      BY <2>1 DEF Restarting, Republishing
    <3>2. FrameWellFormed(r)'
      BY <2>0, <2>1, <3>1, <1>n DEF FrameWellFormed
    <3>3. FramesWellFormed'
      BY <2>0, <2>1, <3>2, FramesKept
    <3>4. PhaseAgrees(r)'
      BY <2>1, <3>1 DEF PhaseAgrees
    <3>5. reconnect_active
      BY <2>0, <2>1 DEF ClaimsExclusive
    <3>6. NoSession' <=> NoSession
      BY <2>0, <2>1 DEF NoSession
    <3> QED BY <2>0, <2>1, <3>3, <3>4, <3>5, <3>6, ClaimantStep
  <2>2. CASE rec' = [rec EXCEPT ![r].pc = "loop", ![r].rg = session_generation]
    <3>1. /\ rec'[r].pc = "loop" /\ rec'[r].rg = session_generation
          /\ rec'[r].cg = rec[r].cg /\ \A q \in Reconnects \ {r} : rec'[q] = rec[q]
      BY <2>2 DEF SessionInv, RoomTypes, RecFrame
    <3>2. CASE /\ session_generation = rec[r].cg /\ installed = rec[r].cg
               /\ connection_state = "Connected" /\ reconnect_active
               /\ connection_state' = "Reconnecting"
      <4>1. Claims(r)
        BY <2>0, <3>2 DEF Claims
      <4> QED BY <2>1, <3>1, <3>2, <4>1
    <3>3. CASE /\ session_generation = rec[r].cg + 1 /\ installed = 0
               /\ connection_state = "Disconnected" /\ reconnect_active
               /\ connection_state' = "Reconnecting"
      <4>1. NoSession
        BY <3>3, <1>n DEF NoSession
      <4>2. ~Republishing(r)
        BY <2>0, <3>3, <1>p DEF PhaseAgrees
      <4>3. Claims(r)
        BY <2>0, <3>3, <4>1, <4>2, <1>n DEF Claims
      <4> QED BY <2>1, <3>1, <3>3, <4>3
    <3>4. CASE /\ connection_state = "Reconnecting" /\ UNCHANGED connection_state
               /\ rec[r].rg = session_generation
      <4>1. Claims(r)
        BY <2>0, <3>4 DEF Claims
      <4> QED BY <2>1, <3>1, <3>4, <4>1
    <3>5. \/ /\ session_generation = rec[r].cg /\ installed = rec[r].cg
             /\ connection_state = "Connected" /\ reconnect_active
             /\ connection_state' = "Reconnecting"
          \/ /\ session_generation = rec[r].cg + 1 /\ installed = 0
             /\ connection_state = "Disconnected" /\ reconnect_active
             /\ connection_state' = "Reconnecting"
          \/ /\ connection_state = "Reconnecting" /\ UNCHANGED connection_state
             /\ rec[r].rg = session_generation
      <4>1. rec'[r].pc # "done"
        BY <3>1
      <4>2. ~RecGoto(r, "done")
        BY <4>1, <1>m
      <4> QED BY <1>17, <4>2 DEF RestartFailed, IsSignalGenerationCurrent
    <3> QED BY <3>2, <3>3, <3>4, <3>5
  <2>3. CASE /\ RecGoto(r, "loop") /\ UNCHANGED connection_state
             /\ connection_state = "Reconnecting" /\ rec[r].rg = session_generation
    <3>1. Claims(r)
      BY <2>0, <2>3 DEF Claims
    <3> QED BY <2>1, <2>3, <3>1, <1>m
  <2>4. CASE RecGoto(r, "done") /\ UNCHANGED connection_state
    BY <2>0, <2>4, <1>e
  <2> QED BY <1>17, <2>2, <2>3, <2>4 DEF RestartFailed, IsSignalGenerationCurrent
<1>18. CASE GiveUpBegins(r)
  <2>0. Recovering(r) /\ reconnect_disabled \in BOOLEAN
    BY <1>18 DEF GiveUpBegins, Recovering, SessionInv, RoomTypes
  <2>1. CASE StopIf(r, reconnect_disabled)
    BY <2>0, <2>1, RecoveryStop
  <2>2. CASE ~StopIf(r, reconnect_disabled)
    BY <1>18, <2>0, <2>2, <1>g DEF GiveUpBegins
  <2> QED BY <2>1, <2>2
<1>19. CASE GiveUp(r)
  <2>0. rec[r].pc = "giveup" /\ Recovering(r)
    BY <1>19 DEF GiveUp, Recovering
  <2>1. CASE StopIf(r, FALSE)
    BY <2>0, <2>1, RecoveryStop
  <2>2. CASE ~StopIf(r, FALSE)
    <3>1. /\ rec' = [rec EXCEPT ![r].pc = "disconnected", ![r].rg = session_generation + 1]
          /\ session_generation' = session_generation + 1
          /\ installed' = 0 /\ connection_state' = "Disconnected"
          /\ ~reconnect_active'
      BY <1>19, <2>2 DEF GiveUp
    <3>2. /\ rec'[r].pc = "disconnected" /\ rec'[r].rg = session_generation + 1
          /\ \A q \in Reconnects \ {r} : rec'[q] = rec[q]
      BY <3>1 DEF SessionInv, RoomTypes, RecFrame
    <3>3. NoSession'
      BY <3>1, <1>n DEF NoSession
    <3>4. FrameWellFormed(r)'
      BY <3>1, <3>2, <1>n DEF FrameWellFormed, Restarting, Republishing
    <3>5. /\ session_generation' = session_generation + 1
          /\ connection_state' = "Disconnected" /\ ~reconnect_active'
      BY <3>1
    <3> HIDE <3>1
    <3> QED BY <3>2, <3>3, <3>4, <3>5, GiveUpKeepsClaim, FramesKept
  <2> QED BY <2>1, <2>2
<1>20. CASE AnnounceOutcome(r)
  BY <1>20, <1>e DEF AnnounceOutcome
<1> QED
  BY <1>1, <1>2, <1>3, <1>4, <1>5, <1>6, <1>7, <1>8, <1>9, <1>10, <1>11,
     <1>12, <1>13, <1>14, <1>15, <1>16, <1>17, <1>18, <1>19, <1>20
  DEF ReconnectStep


LEMMA RecoveryNext == HoldingInv /\ RecoveryInv /\ [Next]_vars => RecoveryInv'
<1> SUFFICES ASSUME DetachedPast, RecoveryInv, [Next]_vars PROVE RecoveryInv'
  BY DEF HoldingInv, OutsideTypes, TeardownInv, DetachedPast
<1>1. SessionInv'
  BY SessionNext DEF RecoveryInv
<1>2. CASE UNCHANGED vars
  <2>1. UNCHANGED <<connection_state, session_generation, installed, reconnect_active, rec,
                    call, open, closing, events>>
    BY <1>2 DEF vars, roomVars, recoveryVars, signalVars, noticeVars
  <2>2. /\ \A t \in Tasks : CallLive(t)' => CallLive(t) /\ call'[t].gen = call[t].gen
        /\ \A t \in Tasks : CallWorking(t)' => CallWorking(t)
    BY <2>1 DEF CallLive, CallWorking
  <2>3. NoSession' <=> NoSession
    BY <2>1 DEF NoSession
  <2>4. GenerationsAccounted'
    BY <2>1, <2>2, <2>3, AccountedQuiet DEF RecoveryInv
  <2>5. FramesWellFormed' /\ ClaimsExclusive' /\ PhasesAgree'
    BY <2>1, <2>3, UnnoticedStep, FramesKept DEF RecoveryInv
  <2> QED BY <1>1, <2>4, <2>5 DEF RecoveryInv
<1>3. CASE Next
  <2>1. GenerationsAccounted'
    BY <1>3, AccountedConnect, AccountedReconnect, AccountedHandlers, AccountedOutside
    DEF Next, RecoveryInv
  <2>2. FramesWellFormed' /\ ClaimsExclusive' /\ PhasesAgree'
    BY <1>3, RecoveryConnect, RecoveryReconnect, RecoveryHandlers, RecoveryOutside DEF Next
  <2> QED BY <1>1, <2>1, <2>2 DEF RecoveryInv
<1> QED BY <1>2, <1>3

\* Whoever recovers a room owns the recovery, and owns it alone.
THEOREM RecoveryInvariant == Spec => []RecoveryInv
  BY RecoveryInit, RecoveryNext, HoldingInvariant, PTL DEF Spec

\* Two reconnectors never drive the same generation, whatever disconnects,
\* connects and server leaves a full restart is interleaved with.
THEOREM ReconnectorsExclusive == Spec => []OneReconnector
<1>1. RecoveryInv => OneReconnector
  <2> SUFFICES ASSUME RecoveryInv, NEW r \in Reconnects,
                      RecLive(r), rec[r].pc \notin {"announce", "spawned", "reconnected"},
                      rec[r].rg = session_generation
               PROVE  Claims(r)
    BY DEF OneReconnector, RecoveryInv, ClaimsExclusive
  <2>1. rec[r].pc \in RecPc
    BY DEF RecoveryInv, SessionInv, RoomTypes, RecFrame
  <2>2. rec[r].pc = "catch" => Restarting(r) \/ Republishing(r)
    BY DEF RecoveryInv, FramesWellFormed, FrameWellFormed, Restarting, Republishing
  <2>3. Recovering(r) \/ Restarting(r) \/ Republishing(r) \/ rec[r].pc = "disconnected"
    BY <2>1, <2>2 DEF RecPc, RecLive, Recovering, Restarting, Republishing
  <2> QED BY <2>3 DEF Claims
<1> QED BY <1>1, RecoveryInvariant, PTL

-----------------------------------------------------------------------------
(* ListenerInv: what the listener was told.                                *)

LEMMA ListenerInit == Init => ListenerInv
<1> SUFFICES ASSUME Init PROVE ListenerInv
  OBVIOUS
<1>1. FarewellsFinal /\ DisconnectedIsLast
  BY DEF Init, FarewellsFinal, DisconnectedIsLast
<1> QED BY <1>1, RecoveryInit DEF ListenerInv

\* Farewells within a generation, and across a change of generation.
LEMMA FarewellsKept ==
  ASSUME SessionInv, FarewellsFinal,
         \/ /\ UNCHANGED session_generation /\ farewells' \subseteq farewells
            /\ DownForGood => DownForGood'
            /\ NoSession /\ ~reconnect_active => NoSession' /\ ~reconnect_active'
         \/ /\ session_generation' = session_generation + 1
            /\ farewells' \subseteq farewells
         \/ /\ session_generation' = session_generation + 1
            /\ farewells' = farewells \cup {session_generation + 1}
            /\ NoSession' /\ ~reconnect_active'
  PROVE  FarewellsFinal'
<1>0. /\ session_generation \in Nat /\ \A g \in farewells : g \in Nat
      /\ \A g \in farewells : g <= session_generation
  BY DEF SessionInv, RoomTypes, FarewellsFinal
<1>1. CASE /\ UNCHANGED session_generation /\ farewells' \subseteq farewells
           /\ DownForGood => DownForGood'
           /\ NoSession /\ ~reconnect_active => NoSession' /\ ~reconnect_active'
  BY <1>1 DEF FarewellsFinal
<1>2. CASE session_generation' = session_generation + 1 /\ farewells' \subseteq farewells
  <2>1. session_generation' \notin farewells'
    BY <1>0, <1>2
  <2>2. \A g \in farewells' : g <= session_generation'
    BY <1>0, <1>2
  <2> QED BY <2>1, <2>2 DEF FarewellsFinal
<1>3. CASE /\ session_generation' = session_generation + 1
           /\ farewells' = farewells \cup {session_generation + 1}
           /\ NoSession' /\ ~reconnect_active'
  <2>1. \A g \in farewells' : g <= session_generation'
    BY <1>0, <1>3
  <2> QED BY <1>3, <2>1 DEF FarewellsFinal
<1> QED BY <1>1, <1>2, <1>3

\* A step within a generation that revives nothing: reconnectors that move do not
\* come back with a success, and the room does not come back by itself.
LEMMA SilenceKept ==
  ASSUME DisconnectedIsLast, UNCHANGED session_generation, ~Retired' => ~Retired,
         told' = "Disconnected" => told = "Disconnected",
         ~Retired /\ told = "Disconnected" =>
           /\ DownForGood => DownForGood'
           /\ connection_state' \in {"Connected", "Reconnecting"} =>
                connection_state \in {"Connected", connection_state'}
           /\ \A q \in Reconnects :
                \/ rec'[q] = rec[q]
                \/ /\ rec'[q].rg = session_generation => rec'[q].pc \notin {"spawned", "reconnected"}
                   /\ rec'[q].pc = "announce" => connection_state' # "Connected"
           /\ \A q \in Reconnects : Claims(q)' => Claims(q)
           /\ \A q \in Reconnects : rec[q].pc = "disconnected" => rec'[q].pc \in {"disconnected", "done"}
  PROVE  DisconnectedIsLast'
<1> SUFFICES ASSUME ~Retired', told' = "Disconnected", NEW q \in Reconnects
             PROVE  NotReviving(q)'
  BY DEF DisconnectedIsLast
<1>1. ~Retired /\ told = "Disconnected" /\ NotReviving(q)
  BY DEF DisconnectedIsLast
<1>2. Claims(q)' /\ rec'[q].pc # "disconnected" => DownForGood'
  <2> SUFFICES ASSUME Claims(q)', rec'[q].pc # "disconnected" PROVE DownForGood'
    OBVIOUS
  <2>1. Claims(q) /\ (rec[q].pc # "disconnected" \/ rec'[q].pc = "done")
    BY <1>1
  <2>2. rec'[q].pc # "done"
    BY DEF Claims, Recovering, Restarting, Republishing
  <2> QED BY <1>1, <2>1, <2>2 DEF NotReviving
<1>3. CASE rec'[q] = rec[q]
  BY <1>1, <1>2, <1>3 DEF NotReviving
<1>4. CASE rec'[q] # rec[q]
  BY <1>1, <1>2, <1>4 DEF NotReviving
<1> QED BY <1>3, <1>4

\* A new generation revives nothing by itself.
LEMMA SilenceMoves ==
  ASSUME SessionInv, FramesWellFormed, DisconnectedIsLast,
         session_generation' = session_generation + 1, ~Retired' => ~Retired,
         told' = told,
         \A q \in Reconnects :
           rec'[q] = rec[q] \/ rec'[q].pc \notin {"announce", "spawned", "reconnected"},
         ~Retired /\ told = "Disconnected" =>
           \A q \in Reconnects : Claims(q)' => rec'[q].pc = "disconnected"
  PROVE  DisconnectedIsLast'
<1> SUFFICES ASSUME ~Retired', told' = "Disconnected", NEW q \in Reconnects
             PROVE  NotReviving(q)'
  BY DEF DisconnectedIsLast
<1>1. rec[q].rg \in Nat /\ session_generation \in Nat /\ rec[q].rg <= session_generation
  BY DEF FramesWellFormed, FrameWellFormed, SessionInv, RoomTypes, RecFrame
<1>2. rec'[q] = rec[q] => rec'[q].rg # session_generation'
  BY <1>1
<1>3. Claims(q)' => rec'[q].pc = "disconnected"
  OBVIOUS
<1> QED BY <1>2, <1>3 DEF NotReviving

LEMMA ListenerConnect ==
  ASSUME ListenerInv, NEW t \in Tasks, ConnectStep(t)
  PROVE  FarewellsFinal' /\ DisconnectedIsLast'
<1> USE DEF roomVars, recoveryVars, ListenerInv, RecoveryInv
<1>r. UNCHANGED <<rec, reconnect_active, farewells, retire>>
  BY DEF ConnectStep, ConnectRefused, ConnectStart, SignalJoined, JoinCommit, NativeCommit,
         ConnectCommit, ConnectReturn, ConnectThrows, ConnectRollback, RollbackFrame,
         noticeVars, userVars
<1>t. told' = "Disconnected" => told = "Disconnected"
  BY DEF ConnectStep, ConnectRefused, ConnectStart, SignalJoined, JoinCommit, NativeCommit,
         ConnectCommit, ConnectReturn, ConnectThrows, ConnectRollback, RollbackFrame,
         noticeVars, userVars, Deliver
<1>n. /\ session_generation \in Nat /\ installed \in Nat /\ installed <= session_generation
      /\ CallLive(t) => call[t].gen \in Nat /\ call[t].gen > 0
  BY AttemptsNotAhead DEF SessionInv, RoomTypes, AttemptsDistinct
<1>q. ASSUME UNCHANGED session_generation, NoSession' <=> NoSession,
             installed = session_generation => installed' = session_generation,
             connection_state = "Reconnecting" => connection_state' = "Reconnecting",
             connection_state' = "Connecting" => connection_state = "Connecting",
             DownForGood => DownForGood',
             connection_state' \in {"Connected", "Reconnecting"} =>
               connection_state \in {"Connected", connection_state'}
      PROVE  FarewellsFinal' /\ DisconnectedIsLast'
  <2>1. \A q \in Reconnects : Claims(q)' => Claims(q)
    BY <1>q, <1>r, UnnoticedStep
  <2>2. FarewellsFinal'
    BY <1>q, <1>r, FarewellsKept
  <2> QED BY <1>q, <1>r, <1>t, <2>1, <2>2, SilenceKept DEF Retired
<1>1. CASE ConnectStart(t)
  <2>1. /\ connection_state = "Disconnected" /\ installed = 0
        /\ connection_state' = "Connecting" /\ session_generation' = session_generation + 1
        /\ told' = told
    BY <1>1 DEF ConnectStart, ConnectAdmitted, noticeVars
  <2>2. \A q \in Reconnects :
          Claims(q)' => Claims(q) /\ Restarting(q) /\ rec[q].rg = session_generation
    BY <2>1, <1>r, StartKeepsClaims
  <2>3. ASSUME ~Retired, told = "Disconnected", NEW q \in Reconnects
        PROVE  ~Claims(q)'
    <3> SUFFICES ASSUME Claims(q)' PROVE FALSE
      OBVIOUS
    <3>1. Claims(q) /\ Restarting(q) /\ rec[q].rg = session_generation
      BY <2>2
    <3>2. NoSession /\ rec[q].pc # "disconnected"
      BY <3>1 DEF PhasesAgree, PhaseAgrees, Restarting
    <3> QED BY <2>3, <3>1, <3>2 DEF DisconnectedIsLast, NotReviving, DownForGood, NoSession
  <2>4. DisconnectedIsLast'
    BY <2>1, <2>3, <1>r, SilenceMoves DEF Retired
  <2> QED BY <2>1, <2>4, <1>r, FarewellsKept
<1>2. CASE JoinCommit(t)
  <2>1. /\ UNCHANGED <<connection_state, session_generation>>
        /\ connection_state = "Connecting" /\ installed = 0 /\ installed' = call[t].gen
        /\ call[t].gen = session_generation
    BY <1>2 DEF JoinCommit
  <2> QED BY <2>1, <1>q DEF NoSession, DownForGood
<1>3. CASE ConnectCommit(t)
  <2>1. /\ UNCHANGED <<installed, session_generation>>
        /\ connection_state = "Connecting" /\ connection_state' = "Connected"
        /\ installed = session_generation
    BY <1>3 DEF ConnectCommit
  <2>2. \A q \in Reconnects : Claims(q)' => Claims(q)
    BY <2>1, <1>r, UnnoticedStep DEF NoSession
  <2>3. FarewellsFinal'
    BY <2>1, <1>r, FarewellsKept DEF NoSession, DownForGood
  <2>4. ASSUME ~Retired', told' = "Disconnected", NEW q \in Reconnects
        PROVE  NotReviving(q)'
    <3>1. ~Retired /\ told = "Disconnected" /\ NotReviving(q) /\ FrameWellFormed(q)
      BY <2>4, <1>r, <1>t DEF Retired, DisconnectedIsLast, FramesWellFormed
    <3>2. rec[q].rg = session_generation => rec[q].pc = "off"
      BY <2>1, <3>1 DEF FrameWellFormed
    <3>3. Claims(q) => rec[q].pc = "disconnected"
      BY <2>1, <3>1 DEF NotReviving, DownForGood
    <3> QED BY <2>1, <2>2, <3>2, <3>3, <1>r DEF NotReviving
  <2> QED BY <2>3, <2>4 DEF DisconnectedIsLast
<1>4. CASE ConnectRollback(t)
  <2>1. /\ CallGoto(t, "threw") /\ call[t].pc = "rollback" /\ told' = told
        /\ session_generation' = IF call[t].gen = session_generation
                                 THEN session_generation + 1 ELSE session_generation
        /\ installed' = IF call[t].gen = installed THEN 0 ELSE installed
        /\ connection_state' = IF call[t].gen \in {session_generation, installed}
                               THEN "Disconnected" ELSE connection_state
    BY <1>4 DEF ConnectRollback, RollbackFrame, noticeVars
  <2>2. CallLive(t) /\ CallWorking(t)
    BY <2>1 DEF CallLive, CallWorking
  <2>3. CASE call[t].gen = session_generation
    <3>1. connection_state = "Connecting"
      BY <2>2, <2>3 DEF GenerationsAccounted
    <3>2. NoSession' /\ session_generation' = session_generation + 1
      BY <2>1, <2>3, <1>n DEF NoSession
    <3>3. \A q \in Reconnects : Claims(q)' => Claims(q)
      BY <3>1, <3>2, <1>r, FailureKeepsClaims
    <3>4. ~Retired /\ told = "Disconnected" =>
            \A q \in Reconnects : Claims(q)' => rec'[q].pc = "disconnected"
      BY <3>1, <3>3, <1>r DEF DisconnectedIsLast, NotReviving, DownForGood
    <3>5. DisconnectedIsLast'
      BY <2>1, <3>2, <3>4, <1>r, SilenceMoves DEF Retired
    <3> QED BY <3>2, <3>5, <1>r, FarewellsKept
  <2>4. CASE call[t].gen # session_generation
    <3>2. call[t].gen = installed => connection_state = "Disconnected"
      BY <2>2, <2>4, <1>n DEF SessionInv, StateOwnsSession, RoomTypes, ConnectionState
    <3>3. CASE call[t].gen = installed
      <4>1. /\ installed' = 0 /\ session_generation' = session_generation
            /\ connection_state' = connection_state /\ connection_state = "Disconnected"
            /\ session_generation > 0 /\ installed # session_generation
        BY <2>1, <2>2, <2>4, <3>2, <3>3, <1>n
      <4> QED BY <4>1, <1>q DEF NoSession, DownForGood
    <3>4. CASE call[t].gen # installed
      BY <2>1, <2>4, <3>4, <1>q DEF NoSession, DownForGood
    <3> QED BY <3>3, <3>4
  <2> QED BY <2>3, <2>4
<1>5. CASE UNCHANGED <<connection_state, session_generation, installed>>
  BY <1>5, <1>q DEF NoSession, DownForGood
<1> QED
  BY <1>1, <1>2, <1>3, <1>4, <1>5
  DEF ConnectStep, ConnectRefused, SignalJoined, NativeCommit, ConnectReturn, ConnectThrows

LEMMA ListenerTearDown ==
  ASSUME ListenerInv, NEW by, TearDownForUser(by), ~Retired' => ~Retired
  PROVE  FarewellsFinal' /\ DisconnectedIsLast'
<1> USE DEF ListenerInv, RecoveryInv
<1>1. /\ session_generation' = session_generation + 1 /\ ~reconnect_active'
      /\ farewells' = farewells \cup {session_generation + 1}
      /\ told' = told /\ UNCHANGED rec
  BY DEF TearDownForUser
<1>2. NoSession'
  BY TearDownEndsSession
<1>3. ClaimsExclusive'
  BY RecoveryTearDown
<1>4. \A q \in Reconnects : Claims(q)' => rec'[q].pc = "disconnected"
  BY <1>1, <1>3 DEF ClaimsExclusive
<1>5. DisconnectedIsLast'
  BY <1>1, <1>4, SilenceMoves
<1> QED BY <1>1, <1>2, <1>5, FarewellsKept

\* OnDisconnected of the current generation is heard only when nobody is left
\* who could bring the room back.
LEMMA DisconnectedHeard ==
  ASSUME ListenerInv, connection_state = "Disconnected",
         DownForGood \/ (NoSession /\ ~reconnect_active),
         UNCHANGED <<roomVars, reconnect_active>>,
         \A q \in Reconnects : rec'[q] = rec[q] \/ rec'[q].pc = "done"
  PROVE  DisconnectedIsLast'
<1> USE DEF ListenerInv, RecoveryInv, roomVars
<1>1. \A q \in Reconnects : Claims(q)' => Claims(q) /\ rec'[q] = rec[q]
  BY UnnoticedStep DEF NoSession
<1>2. NoSession /\ ~reconnect_active => \A q \in Reconnects : Claims(q) => rec[q].pc = "disconnected"
  BY DEF ClaimsExclusive
<1>3. DownForGood => DownForGood'
  BY DEF DownForGood
<1>4. \A q \in Reconnects : Claims(q)' /\ rec'[q].pc # "disconnected" => DownForGood'
  BY <1>1, <1>2, <1>3
<1> QED BY <1>4 DEF DisconnectedIsLast, NotReviving

LEMMA ListenerHandlers ==
  ASSUME ListenerInv, HandlersStep \/ TeardownEnds \/ ListenerRuns
  PROVE  FarewellsFinal' /\ DisconnectedIsLast'
<1> USE DEF roomVars, recoveryVars, noticeVars, userVars, ListenerInv, RecoveryInv,
            ClosePending, LeavePending, Retired
<1>n. session_generation \in Nat /\ installed \in Nat /\ installed <= session_generation
  BY DEF SessionInv, RoomTypes, AttemptsDistinct
<1>q. ASSUME UNCHANGED <<rec, reconnect_active, roomVars, told, retire>>,
             farewells' \subseteq farewells
      PROVE  FarewellsFinal' /\ DisconnectedIsLast'
  <2>1. \A q \in Reconnects : Claims(q)' => Claims(q)
    BY <1>q, UnnoticedStep DEF NoSession
  <2>2. FarewellsFinal'
    BY <1>q, FarewellsKept DEF NoSession, DownForGood
  <2> QED BY <1>q, <2>1, <2>2, SilenceKept DEF DownForGood
<1>1. ASSUME NEW g, NEW r \in Reconnects, CloseStartsReconnect(g, r)
      PROVE  FarewellsFinal' /\ DisconnectedIsLast'
  <2>1. /\ UNCHANGED <<session_generation, installed, reconnect_active, farewells, told, retire>>
        /\ connection_state = "Connected" /\ connection_state' = "Reconnecting"
        /\ rec[r].pc = "off" /\ rec'[r].pc = "announce"
        /\ \A q \in Reconnects \ {r} : rec'[q] = rec[q]
    BY <1>1 DEF CloseStartsReconnect, SessionInv, RoomTypes
  <2>2. \A q \in Reconnects : Claims(q)' => Claims(q)
    BY <2>1, UnnoticedStep DEF NoSession
  <2>3. FarewellsFinal'
    BY <2>1, FarewellsKept DEF NoSession, DownForGood
  <2> QED BY <2>1, <2>2, <2>3, SilenceKept DEF DownForGood
<1>2. ASSUME NEW g, CloseFailsConnect(g)
      PROVE  FarewellsFinal' /\ DisconnectedIsLast'
  <2>1. /\ connection_state = "Connecting" /\ connection_state' = "Disconnected"
        /\ session_generation' = session_generation + 1
        /\ UNCHANGED <<rec, reconnect_active, installed, farewells, told, retire>>
    BY <1>2 DEF CloseFailsConnect
  <2>2. NoSession'
    BY <2>1, <1>n DEF NoSession
  <2>3. \A q \in Reconnects : Claims(q)' => Claims(q)
    BY <2>1, <2>2, FailureKeepsClaims
  <2>4. ~Retired /\ told = "Disconnected" =>
          \A q \in Reconnects : Claims(q)' => rec'[q].pc = "disconnected"
    BY <2>1, <2>3 DEF DisconnectedIsLast, NotReviving, DownForGood
  <2>5. DisconnectedIsLast'
    BY <2>1, <2>4, SilenceMoves
  <2> QED BY <2>1, <2>5, FarewellsKept
<1>3. ASSUME NEW g, FinalizeServerDisconnect(g)
      PROVE  FarewellsFinal' /\ DisconnectedIsLast'
  <2>1. CASE UNCHANGED <<roomVars, reconnect_active, farewells>>
    BY <1>3, <2>1, <1>q DEF FinalizeServerDisconnect
  <2>2. CASE ~UNCHANGED <<roomVars, reconnect_active, farewells>>
    <3>1. /\ session_generation' = session_generation + 1 /\ installed' = 0
          /\ connection_state' = "Disconnected" /\ ~reconnect_active'
          /\ farewells' = farewells \cup {session_generation + 1}
          /\ UNCHANGED <<rec, told, retire>>
      BY <1>3, <2>2 DEF FinalizeServerDisconnect
    <3>2. NoSession'
      BY <3>1, <1>n DEF NoSession
    <3>3. ClaimsExclusive'
      BY <3>1, <3>2, TeardownEndsClaims
    <3>4. \A q \in Reconnects : Claims(q)' => rec'[q].pc = "disconnected"
      BY <3>1, <3>3 DEF ClaimsExclusive
    <3>5. DisconnectedIsLast'
      BY <3>1, <3>4, SilenceMoves
    <3> QED BY <3>1, <3>2, <3>5, FarewellsKept
  <2> QED BY <2>1, <2>2
<1>4. ASSUME NEW g, CloseDisconnects(g)
      PROVE  FarewellsFinal' /\ DisconnectedIsLast'
  <2>1. CASE UNCHANGED <<connection_state, farewells>>
    BY <1>4, <2>1, <1>q DEF CloseDisconnects
  <2>2. CASE ~UNCHANGED <<connection_state, farewells>>
    <3>1. /\ g \in closing /\ g = session_generation
          /\ connection_state \notin {"Disconnected", "Reconnecting"}
          /\ connection_state' = "Disconnected"
          /\ farewells' = farewells \cup {session_generation}
          /\ UNCHANGED <<rec, reconnect_active, session_generation, installed, told, retire>>
      BY <1>4, <2>2 DEF CloseDisconnects, IsSignalGenerationCurrent
    <3>2. connection_state = "Connected"
      BY <3>1 DEF GenerationsAccounted, SessionInv, RoomTypes, ConnectionState
    <3>3. DownForGood'
      BY <3>1, <3>2 DEF SessionInv, StateOwnsSession, DownForGood
    <3>4. FarewellsFinal'
      BY <3>1, <3>3, <1>n DEF FarewellsFinal
    <3>5. \A q \in Reconnects : Claims(q)' => Claims(q)
      BY <3>1, <3>2, UnnoticedStep DEF NoSession
    <3> QED BY <3>1, <3>3, <3>4, <3>5, SilenceKept
  <2> QED BY <2>1, <2>2
<1>5. ASSUME NEW g, NEW kind \in {"Disconnected", "UserLeave"}, DeliverDisconnected(g, kind)
      PROVE  FarewellsFinal' /\ DisconnectedIsLast'
  <2>1. /\ UNCHANGED <<rec, reconnect_active, roomVars, retire>>
        /\ farewells' \subseteq farewells /\ g \in farewells
    BY <1>5 DEF DeliverDisconnected
  <2>2. CASE told' = told
    BY <2>1, <2>2, <1>q
  <2>3. CASE told' # told
    <3>1. connection_state = "Disconnected" /\ session_generation \in farewells
      BY <1>5, <2>1, <2>3 DEF DeliverDisconnected, Deliver, AdmitListener
    <3>2. DisconnectedIsLast'
      BY <2>1, <3>1, DisconnectedHeard DEF FarewellsFinal
    <3> QED BY <2>1, <3>2, FarewellsKept DEF NoSession, DownForGood
  <2> QED BY <2>2, <2>3
<1>6. ASSUME NEW g, CloseElsewhere(g) \/ BeginServerDisconnect(g) \/ IgnoreLeave(g)
      PROVE  FarewellsFinal' /\ DisconnectedIsLast'
  BY <1>6, <1>q DEF CloseElsewhere, BeginServerDisconnect, IgnoreLeave
<1>7. ASSUME NEW e \in events, DropStaleEvent(e)
      PROVE  FarewellsFinal' /\ DisconnectedIsLast'
  BY <1>7, <1>q DEF DropStaleEvent
<1>8. ASSUME NEW d, CloseDetached(d)
      PROVE  FarewellsFinal' /\ DisconnectedIsLast'
  BY <1>8, <1>q DEF CloseDetached
<1>9. ASSUME NEW c, ListenerCalled(c)
      PROVE  FarewellsFinal' /\ DisconnectedIsLast'
  BY <1>9, <1>q DEF ListenerCalled
<1> QED
  BY <1>1, <1>2, <1>3, <1>4, <1>5, <1>6, <1>7, <1>8, <1>9
  DEF HandlersStep, HandlerStep, TeardownEnds, ListenerRuns

LEMMA ListenerOutside ==
  ASSUME ListenerInv, Environment \/ RetireDisconnects \/ RetireDrained
  PROVE  FarewellsFinal' /\ DisconnectedIsLast'
<1>1. ~Retired' => ~Retired
  BY DEF Environment, Disconnect, TransportCloses, ServerSendsLeave, RetireBegins,
         RetireDisconnects, RetireDrained, vars, userVars, Retired
<1>2. ASSUME NEW by, TearDownForUser(by)
      PROVE  FarewellsFinal' /\ DisconnectedIsLast'
  BY <1>1, <1>2, ListenerTearDown
<1>3. CASE UNCHANGED <<rec, reconnect_active, roomVars, noticeVars>>
  <2>1. \A q \in Reconnects : Claims(q)' => Claims(q)
    BY <1>3, UnnoticedStep DEF NoSession, roomVars, ListenerInv, RecoveryInv
  <2>2. FarewellsFinal'
    BY <1>3, FarewellsKept
    DEF NoSession, DownForGood, roomVars, noticeVars, ListenerInv, RecoveryInv
  <2> QED BY <1>1, <1>3, <2>1, <2>2, SilenceKept
          DEF DownForGood, roomVars, noticeVars, ListenerInv
<1> QED
  BY <1>2, <1>3
  DEF Environment, Disconnect, TransportCloses, ServerSendsLeave, RetireBegins,
      RetireDisconnects, RetireDrained, vars, roomVars, recoveryVars

LEMMA ListenerReconnect ==
  ASSUME ListenerInv, NEW r \in Reconnects, ReconnectStep(r)
  PROVE  FarewellsFinal' /\ DisconnectedIsLast'
<1> DEFINE Goal == FarewellsFinal' /\ DisconnectedIsLast'
<1> SUFFICES Goal
  OBVIOUS
<1> USE DEF ListenerInv, RecoveryInv, recFrameOnly, roomVars, recoveryVars, noticeVars,
            userVars, Retired
<1>n. /\ session_generation \in Nat /\ installed \in Nat /\ installed <= session_generation
      /\ rec[r].rg \in Nat /\ rec[r].cg \in Nat
  BY DEF SessionInv, RoomTypes, AttemptsDistinct, RecFrame
<1>m. ASSUME NEW pc, RecGoto(r, pc)
      PROVE  /\ rec'[r].pc = pc /\ rec'[r].rg = rec[r].rg /\ rec'[r].cg = rec[r].cg
             /\ \A q \in Reconnects \ {r} : rec'[q] = rec[q]
  BY <1>m DEF RecGoto, SessionInv, RoomTypes, RecFrame
<1>k. \/ session_generation' = session_generation + 1
      \/ rec[r].pc = "spawned"
      \/ Claims(r)' => Claims(r)
  BY RecoveryReconnect
\* Within a generation only r could come by a claim.
<1>q. ASSUME UNCHANGED <<session_generation, farewells, retire>>,
             NoSession' <=> NoSession, reconnect_active' => reconnect_active,
             DownForGood => DownForGood', \A q \in Reconnects \ {r} : rec'[q] = rec[q],
             rec[r].pc = "disconnected" => rec'[r].pc = "done",
             told' = "Disconnected" => told = "Disconnected",
             ~Retired /\ told = "Disconnected" =>
               /\ UNCHANGED connection_state
               /\ rec'[r].pc # "announce"
               /\ rec'[r].rg = session_generation => rec'[r].pc \notin {"spawned", "reconnected"},
             rec[r].pc # "spawned" \/ rec'[r].pc = "done"
      PROVE  Goal
  <2>1. ASSUME NEW q \in Reconnects
        PROVE  Claims(q)' => Claims(q)
    <3>1. CASE q # r
      <4>1. rec'[q] = rec[q]
        BY <1>q, <3>1
      <4>2. /\ Recovering(q)' <=> Recovering(q)
            /\ Restarting(q)' <=> Restarting(q)
            /\ Republishing(q)' <=> Republishing(q)
        BY <4>1 DEF Recovering, Restarting, Republishing
      <4> QED BY <1>q, <4>1, <4>2 DEF Claims
    <3>2. CASE q = r /\ rec[r].pc # "spawned"
      BY <1>k, <1>q, <1>n, <3>2
    <3>3. CASE q = r /\ rec'[r].pc = "done"
      BY <3>3 DEF Claims, Recovering, Restarting, Republishing
    <3> QED BY <1>q, <3>1, <3>2, <3>3
  <2>2. FarewellsFinal'
    BY <1>q, FarewellsKept
  <2>3. ~Retired /\ told = "Disconnected" =>
           /\ DownForGood => DownForGood'
           /\ connection_state' \in {"Connected", "Reconnecting"} =>
                connection_state \in {"Connected", connection_state'}
           /\ \A q \in Reconnects :
                \/ rec'[q] = rec[q]
                \/ /\ rec'[q].rg = session_generation => rec'[q].pc \notin {"spawned", "reconnected"}
                   /\ rec'[q].pc = "announce" => connection_state' # "Connected"
           /\ \A q \in Reconnects :
                rec[q].pc = "disconnected" => rec'[q].pc \in {"disconnected", "done"}
    BY <1>q
  <2>4. DisconnectedIsLast'
    BY <1>q, <2>1, <2>3, SilenceKept
  <2> QED BY <2>2, <2>4
\* A recovery under way in a room that is Connected or Reconnecting was announced.
<1>a. ASSUME ~Retired, told = "Disconnected", Claims(r), rec[r].pc # "disconnected"
      PROVE  connection_state = "Disconnected" /\ installed = session_generation
  BY <1>a DEF DisconnectedIsLast, NotReviving, DownForGood
\* A move to a phase that reports nothing.
<1>h. ASSUME UNCHANGED <<connection_state, session_generation, installed, farewells, retire, told>>,
             reconnect_active' => reconnect_active,
             \A q \in Reconnects \ {r} : rec'[q] = rec[q],
             rec'[r].pc \notin {"announce", "spawned", "reconnected"},
             rec[r].pc \notin {"spawned", "disconnected"}
      PROVE  Goal
  <2>1. NoSession' <=> NoSession
    BY <1>h DEF NoSession
  <2>2. DownForGood => DownForGood'
    BY <1>h DEF DownForGood
  <2> QED BY <1>h, <2>1, <2>2, <1>q
<1>g. ASSUME NEW pc, RecGoto(r, pc), pc \notin {"announce", "spawned", "reconnected"},
             rec[r].pc \notin {"spawned", "disconnected"},
             UNCHANGED <<connection_state, session_generation, installed, farewells, retire, told>>,
             reconnect_active' => reconnect_active
      PROVE  Goal
  BY <1>g, <1>h, <1>m
<1>s. ASSUME NEW stop, StopIf(r, stop), rec[r].pc \notin {"spawned", "disconnected"}
      PROVE  Goal
  BY <1>s, <1>g DEF StopIf
<1>1. CASE AnnounceReconnecting(r)
  <2>1. /\ rec[r].pc = "announce" /\ rec'[r].pc = "spawned" /\ rec'[r].rg = rec[r].rg
        /\ \A q \in Reconnects \ {r} : rec'[q] = rec[q]
        /\ UNCHANGED <<connection_state, session_generation, installed, farewells, retire,
                       reconnect_active>>
    BY <1>1, <1>m DEF AnnounceReconnecting
  <2>2. told' = "Disconnected" => told = "Disconnected"
    BY <1>1 DEF AnnounceReconnecting, Deliver
  <2>3. \A q \in Reconnects : Claims(q)' => Claims(q)
    BY <2>1, UnnoticedStep DEF NoSession
  <2>4. FarewellsFinal'
    BY <2>1, FarewellsKept DEF NoSession, DownForGood
  <2>5. ASSUME ~Retired, told' = "Disconnected"
        PROVE  NotReviving(r)'
    <3>1. told = "Disconnected" /\ NotReviving(r)
      BY <2>2, <2>5 DEF DisconnectedIsLast
    <3>2. rec[r].rg = session_generation => connection_state # "Connected"
      BY <2>1, <3>1 DEF NotReviving
    <3>3. rec[r].rg = session_generation => connection_state # "Reconnecting"
      BY <1>1, <2>5 DEF AnnounceReconnecting, Deliver, AdmitListener
    <3>4. ~Claims(r)'
      BY <2>1 DEF Claims, Recovering, Restarting, Republishing
    <3> QED BY <2>1, <3>2, <3>3, <3>4 DEF NotReviving
  <2>6. ASSUME ~Retired, told' = "Disconnected", NEW q \in Reconnects \ {r}
        PROVE  NotReviving(q)'
    <3>1. NotReviving(q)
      BY <2>2, <2>6 DEF DisconnectedIsLast
    <3> QED BY <2>1, <2>3, <3>1 DEF NotReviving, DownForGood
  <2>7. DisconnectedIsLast'
    BY <2>1, <2>5, <2>6 DEF DisconnectedIsLast
  <2> QED BY <2>4, <2>7
<1>2. CASE ReconnectBegins(r)
  <2>1. CASE RecGoto(r, "done") /\ UNCHANGED reconnect_active
    <3>1. /\ rec[r].pc = "spawned" /\ rec'[r].pc = "done"
          /\ \A q \in Reconnects \ {r} : rec'[q] = rec[q]
          /\ UNCHANGED <<connection_state, session_generation, installed, farewells, retire,
                         told, reconnect_active>>
      BY <1>2, <2>1, <1>m DEF ReconnectBegins
    <3> QED BY <3>1, <1>q DEF NoSession, DownForGood
  <2>2. CASE ~(RecGoto(r, "done") /\ UNCHANGED reconnect_active)
    <3>1. PICK full \in BOOLEAN : rec' = [rec EXCEPT ![r].pc = "loop", ![r].full = full]
      BY <1>2, <2>2 DEF ReconnectBegins
    <3>2. /\ rec'[r].pc = "loop" /\ rec'[r].rg = rec[r].rg
          /\ \A q \in Reconnects \ {r} : rec'[q] = rec[q]
      BY <3>1 DEF SessionInv, RoomTypes, RecFrame
    <3>3. /\ rec[r].rg = session_generation /\ installed = session_generation
          /\ connection_state = "Reconnecting" /\ ~reconnect_active /\ reconnect_active'
          /\ rec[r].pc = "spawned" /\ ~Retired
          /\ UNCHANGED <<connection_state, session_generation, installed, farewells, retire,
                         told>>
      BY <1>2, <2>2 DEF ReconnectBegins, IsSignalGenerationCurrent
    <3>4. told # "Disconnected"
      BY <3>3 DEF DisconnectedIsLast, NotReviving
    <3>5. FarewellsFinal'
      BY <3>3, FarewellsKept DEF NoSession, DownForGood
    <3> QED BY <3>3, <3>4, <3>5 DEF DisconnectedIsLast
  <2> QED BY <2>1, <2>2
<1>3. CASE NextAttempt(r)
  <2>1. /\ rec[r].pc = "loop" /\ rec'[r].pc = "delay"
        /\ \A q \in Reconnects \ {r} : rec'[q] = rec[q]
    BY <1>3 DEF NextAttempt, SessionInv, RoomTypes, RecFrame
  <2> QED BY <1>3, <2>1, <1>h DEF NextAttempt
<1>4. CASE AttemptsExhausted(r)
  BY <1>4, <1>g DEF AttemptsExhausted
<1>5. CASE DelayOver(r)
  <2>1. rec[r].pc = "delay"
    BY <1>5 DEF DelayOver
  <2>2. CASE StopIf(r, ToldToStop(r))
    BY <2>1, <2>2, <1>s
  <2>3. CASE ~StopIf(r, ToldToStop(r))
    BY <1>5, <2>1, <2>3, <1>g DEF DelayOver
  <2> QED BY <2>2, <2>3
<1>6. CASE ResumeBegins(r)
  BY <1>6, <1>g DEF ResumeBegins
<1>7. CASE SignalRestarts(r)
  BY <1>7, <1>g DEF SignalRestarts
<1>8. CASE SyncStateSent(r)
  BY <1>8, <1>g DEF SyncStateSent
<1>9. CASE ResumeCommit(r)
  <2>1. /\ rec[r].pc = "ice" /\ rec'[r].pc = "reconnected" /\ rec[r].rg = session_generation
        /\ connection_state = "Reconnecting" /\ connection_state' = "Connected"
        /\ ~Retired /\ ~reconnect_active' /\ \A q \in Reconnects \ {r} : rec'[q] = rec[q]
        /\ UNCHANGED <<session_generation, installed, farewells, retire, told>>
    BY <1>9, <1>m DEF ResumeCommit, IsSignalGenerationCurrent
  <2>2. Claims(r)
    BY <2>1 DEF Claims, Recovering
  <2>3. told # "Disconnected"
    BY <2>1, <2>2, <1>a
  <2>4. FarewellsFinal'
    BY <2>1, FarewellsKept DEF NoSession, DownForGood
  <2> QED BY <2>1, <2>3, <2>4 DEF DisconnectedIsLast
<1>10. CASE ResumeThrows(r)
  <2>1. /\ rec[r].pc \in {"restarting", "sync", "ice"} /\ rec'[r].pc = "teardown"
        /\ \A q \in Reconnects \ {r} : rec'[q] = rec[q]
    BY <1>10 DEF ResumeThrows, SessionInv, RoomTypes, RecFrame
  <2> QED BY <1>10, <2>1, <1>h DEF ResumeThrows
<1>11. CASE FullRestartTeardown(r)
  <2>0. rec[r].pc = "teardown" /\ Recovering(r)
    BY <1>11 DEF FullRestartTeardown, Recovering
  <2>1. CASE StopIf(r, reconnect_disabled)
    BY <2>0, <2>1, <1>s
  <2>2. CASE ~StopIf(r, reconnect_disabled)
    <3>1. /\ rec' = [rec EXCEPT ![r].pc = "restart", ![r].rg = session_generation + 1,
                                ![r].cg = 0]
          /\ rec[r].rg = session_generation /\ session_generation' = session_generation + 1
          /\ installed' = 0 /\ connection_state' = "Disconnected"
          /\ UNCHANGED <<reconnect_active, farewells, told, retire>> /\ ~Retired
      BY <1>11, <2>2 DEF FullRestartTeardown, StillOwner, IsSignalGenerationCurrent
    <3>2. /\ rec'[r].pc = "restart" /\ rec'[r].rg = session_generation + 1
          /\ \A q \in Reconnects \ {r} : rec'[q] = rec[q]
      BY <3>1 DEF SessionInv, RoomTypes, RecFrame
    <3>4. connection_state = "Reconnecting" /\ Claims(r)
      BY <2>0, <3>1 DEF PhasesAgree, PhaseAgrees, Claims
    <3>5. told # "Disconnected"
      BY <2>0, <3>1, <3>4, <1>a
    <3>6. FarewellsFinal'
      BY <3>1, FarewellsKept
    <3> QED BY <3>1, <3>5, <3>6 DEF DisconnectedIsLast
  <2> QED BY <2>1, <2>2
<1>12. CASE RestartConnects(r)
  <2>1. /\ rec[r].pc = "restart" /\ rec'[r].pc = "connecting"
        /\ \A q \in Reconnects \ {r} : rec'[q] = rec[q]
    BY <1>12 DEF RestartConnects, SessionInv, RoomTypes, RecFrame
  <2> QED BY <1>12, <2>1, <1>h DEF RestartConnects
<1>13. CASE RestartConnected(r)
  <2>1. /\ rec[r].pc = "connecting" /\ rec'[r].pc \in {"republish", "catch"}
        /\ \A q \in Reconnects \ {r} : rec'[q] = rec[q]
    BY <1>13 DEF RestartConnected, SessionInv, RoomTypes, RecFrame
  <2> QED BY <1>13, <2>1, <1>h DEF RestartConnected
<1>14. CASE Republished(r)
  BY <1>14, <1>g DEF Republished
<1>15. CASE RestartCommit(r)
  <2>1. CASE RestartHolds(rec[r].rg)
    <3>1. /\ rec[r].pc = "channel" /\ rec[r].rg = session_generation
          /\ connection_state = "Connected" /\ ~Retired /\ ~reconnect_active'
          /\ UNCHANGED <<connection_state, session_generation, installed, farewells, retire,
                         told>>
      BY <1>15, <2>1 DEF RestartCommit, RestartHolds, IsNativeGenerationCurrent
    <3>2. Claims(r)
      BY <3>1 DEF Claims, Republishing
    <3>3. told # "Disconnected"
      BY <3>1, <3>2, <1>a
    <3>4. FarewellsFinal'
      BY <3>1, FarewellsKept DEF NoSession, DownForGood
    <3> QED BY <3>1, <3>3, <3>4 DEF DisconnectedIsLast
  <2>2. CASE ~RestartHolds(rec[r].rg)
    BY <1>15, <2>2, <1>g DEF RestartCommit
  <2> QED BY <2>1, <2>2
<1>16. CASE RestartThrows(r)
  BY <1>16, <1>g DEF RestartThrows
<1>17. CASE RestartFailed(r)
  <2>0. /\ rec[r].pc = "catch" /\ rec[r].rg <= rec[r].cg
        /\ UNCHANGED <<session_generation, installed, reconnect_active, farewells, retire, told>>
    BY <1>17, <1>n DEF RestartFailed, FramesWellFormed, FrameWellFormed
  <2>1. rec'[r].pc \in {"loop", "done"} /\ \A q \in Reconnects \ {r} : rec'[q] = rec[q]
    BY <1>17, <1>m DEF RestartFailed, SessionInv, RoomTypes, RecFrame
  <2>2. CASE UNCHANGED connection_state
    BY <2>0, <2>1, <2>2, <1>h
  <2>3. CASE ~UNCHANGED connection_state
    <3>1. /\ connection_state' = "Reconnecting"
          /\ rec' = [rec EXCEPT ![r].pc = "loop", ![r].rg = session_generation]
          /\ \/ connection_state = "Connected"
             \/ /\ connection_state = "Disconnected" /\ installed = 0
                /\ session_generation = rec[r].cg + 1
      BY <1>17, <2>3 DEF RestartFailed
    <3>2. ~DownForGood /\ (NoSession' <=> NoSession)
      BY <2>0, <3>1, <1>n DEF DownForGood, NoSession
    <3>3. FarewellsFinal'
      BY <2>0, <3>2, FarewellsKept
    <3>4. Claims(r)'
      BY <2>0, <3>1 DEF Claims, Recovering, SessionInv, RoomTypes, RecFrame
    <3>5. Claims(r)
      BY <1>k, <1>n, <2>0, <3>4
    <3>6. ~Retired => told # "Disconnected"
      BY <2>0, <3>2, <3>5, <1>a DEF DownForGood
    <3> QED BY <2>0, <3>3, <3>6 DEF DisconnectedIsLast
  <2> QED BY <2>2, <2>3
<1>18. CASE GiveUpBegins(r)
  <2>0. rec[r].pc = "exhausted"
    BY <1>18 DEF GiveUpBegins
  <2>1. CASE StopIf(r, reconnect_disabled)
    BY <2>0, <2>1, <1>s
  <2>2. CASE ~StopIf(r, reconnect_disabled)
    BY <1>18, <2>0, <2>2, <1>g DEF GiveUpBegins
  <2> QED BY <2>1, <2>2
<1>19. CASE GiveUp(r)
  <2>0. rec[r].pc = "giveup" /\ Recovering(r)
    BY <1>19 DEF GiveUp, Recovering
  <2>1. CASE StopIf(r, FALSE)
    BY <2>0, <2>1, <1>s
  <2>2. CASE ~StopIf(r, FALSE)
    <3>1. /\ rec[r].rg = session_generation /\ session_generation' = session_generation + 1
          /\ UNCHANGED <<farewells, told, retire>> /\ ~Retired
      BY <1>19, <2>2 DEF GiveUp, StillOwner, IsSignalGenerationCurrent
    <3>2. connection_state = "Reconnecting" /\ Claims(r)
      BY <2>0, <3>1 DEF PhasesAgree, PhaseAgrees, Claims
    <3>3. told # "Disconnected"
      BY <2>0, <3>1, <3>2, <1>a
    <3>4. FarewellsFinal'
      BY <3>1, FarewellsKept
    <3> QED BY <3>1, <3>3, <3>4 DEF DisconnectedIsLast
  <2> QED BY <2>1, <2>2
<1>20. CASE AnnounceOutcome(r)
  <2>1. /\ rec[r].pc \in {"reconnected", "disconnected"} /\ rec'[r].pc = "done"
        /\ \A q \in Reconnects \ {r} : rec'[q] = rec[q]
        /\ UNCHANGED <<roomVars, reconnect_active, farewells, retire>>
    BY <1>20, <1>m DEF AnnounceOutcome
  <2>2. CASE told' = "Disconnected" => told = "Disconnected"
    <3>1. UNCHANGED <<connection_state, session_generation, installed>>
      BY <2>1
    <3>2. (NoSession' <=> NoSession) /\ (DownForGood => DownForGood')
      BY <3>1 DEF NoSession, DownForGood
    <3> QED BY <2>1, <2>2, <3>1, <3>2, <1>q
  <2>3. CASE told' = "Disconnected" /\ told # "Disconnected"
    <3>1. /\ rec[r].pc = "disconnected" /\ rec[r].rg = session_generation
          /\ connection_state = "Disconnected"
      BY <1>20, <2>3 DEF AnnounceOutcome, Deliver, AdmitListener
    <3>2. NoSession /\ ~reconnect_active
      BY <3>1 DEF PhasesAgree, PhaseAgrees
    <3>3. FarewellsFinal'
      BY <2>1, FarewellsKept DEF NoSession, DownForGood
    <3>4. \A q \in Reconnects : rec'[q] = rec[q] \/ rec'[q].pc = "done"
      BY <2>1
    <3> QED BY <2>1, <3>1, <3>2, <3>3, <3>4, DisconnectedHeard
  <2> QED BY <2>2, <2>3
<1> QED
  BY <1>1, <1>2, <1>3, <1>4, <1>5, <1>6, <1>7, <1>8, <1>9, <1>10, <1>11,
     <1>12, <1>13, <1>14, <1>15, <1>16, <1>17, <1>18, <1>19, <1>20
  DEF ReconnectStep

LEMMA ListenerNext == HoldingInv /\ ListenerInv /\ [Next]_vars => ListenerInv'
<1> SUFFICES ASSUME HoldingInv, ListenerInv, [Next]_vars PROVE ListenerInv'
  OBVIOUS
<1>1. RecoveryInv'
  BY RecoveryNext DEF ListenerInv
<1>2. CASE UNCHANGED vars
  <2>1. UNCHANGED <<roomVars, rec, reconnect_active, farewells, told, retire>>
    BY <1>2 DEF vars, roomVars, recoveryVars, noticeVars, userVars
  <2>2. NoSession' <=> NoSession /\ (DownForGood' <=> DownForGood)
    BY <2>1 DEF NoSession, DownForGood, roomVars
  <2>3. \A q \in Reconnects : Claims(q)' => Claims(q)
    BY <2>1, UnnoticedStep DEF NoSession, roomVars, ListenerInv, RecoveryInv
  <2>4. FarewellsFinal'
    BY <2>1, FarewellsKept DEF ListenerInv, RecoveryInv, roomVars, NoSession, DownForGood
  <2>5. DisconnectedIsLast'
    BY <2>1, <2>3, SilenceKept DEF ListenerInv, roomVars, Retired, DownForGood
  <2> QED BY <1>1, <2>4, <2>5 DEF ListenerInv
<1>3. CASE Next
  <2>1. FarewellsFinal' /\ DisconnectedIsLast'
    BY <1>3, ListenerConnect, ListenerReconnect, ListenerHandlers, ListenerOutside DEF Next
  <2> QED BY <1>1, <2>1 DEF ListenerInv
<1> QED BY <1>2, <1>3

\* What the listener was told last, the farewells still queued and the recoveries
\* still running agree with each other.
THEOREM ListenerInvariant == Spec => []ListenerInv
  BY ListenerInit, ListenerNext, HoldingInvariant, PTL DEF Spec

\* Nobody says Reconnected once Disconnected was the last word.
LEMMA RevivalsAdmitted ==
  ASSUME ListenerInv, [Next]_vars, told' = "Reconnected"
  PROVE  told # "Disconnected"
<1> SUFFICES ASSUME told # told' PROVE told # "Disconnected"
  OBVIOUS
<1>1. PICK r \in Reconnects : AnnounceOutcome(r) /\ rec[r].pc = "reconnected"
  <2>0. Next
    BY DEF vars, noticeVars
  <2>1. ASSUME NEW t \in Tasks, ConnectStep(t)
        PROVE  FALSE
    BY <2>1 DEF ConnectStep, ConnectRefused, ConnectStart, SignalJoined, JoinCommit,
         NativeCommit, ConnectCommit, ConnectReturn, ConnectThrows, ConnectRollback,
         RollbackFrame, noticeVars, Deliver
  <2>2. ~(HandlersStep \/ TeardownEnds \/ ListenerRuns)
    BY DEF HandlersStep, HandlerStep, DropStaleEvent, CloseStartsReconnect,
       CloseFailsConnect, CloseElsewhere, CloseDisconnects, BeginServerDisconnect,
       IgnoreLeave, FinalizeServerDisconnect, DeliverDisconnected, Deliver,
       LeavePending, noticeVars, TeardownEnds, CloseDetached, ListenerRuns, ListenerCalled
  <2>3. ~(Environment \/ RetireDisconnects \/ RetireDrained)
    BY DEF Environment, Disconnect, TearDownForUser, TransportCloses, ServerSendsLeave,
       RetireBegins, RetireDisconnects, RetireDrained, noticeVars, vars
  <2>4. PICK r \in Reconnects : ReconnectStep(r)
    BY <2>0, <2>1, <2>2, <2>3 DEF Next
  <2>5. AnnounceOutcome(r)
    BY <2>4 DEF ReconnectStep, AnnounceReconnecting, ReconnectBegins, NextAttempt,
         AttemptsExhausted, DelayOver, ResumeBegins, SignalRestarts, SyncStateSent,
         ResumeCommit, ResumeThrows, FullRestartTeardown, RestartConnects,
         RestartConnected, Republished, RestartCommit, RestartThrows, RestartFailed,
         GiveUpBegins, GiveUp, StopIf, Deliver, recFrameOnly, noticeVars
  <2>6. rec[r].pc = "reconnected"
    BY <2>5 DEF AnnounceOutcome, Deliver
  <2> QED BY <2>5, <2>6
<1>2. ~Retired /\ rec[r].rg = session_generation /\ connection_state = "Connected"
  BY <1>1 DEF AnnounceOutcome, Deliver, AdmitListener
<1> QED BY <1>1, <1>2 DEF ListenerInv, DisconnectedIsLast, NotReviving

\* The calls of the listener, one at a time on the executor.
LEMMA CallsInit == Init => CallsInOrder
  BY DEF Init, CallsInOrder

LEMMA CallsNext ==
  ASSUME HoldingInv, ListenerInv, CallsInOrder, [Next]_vars
  PROVE  CallsInOrder'
<1>d. UNCHANGED <<told, calls, heard>> \/ ExecutorAdmits \/ DisconnectAdmits \/ CallEnds
  BY Deliveries DEF HoldingInv, SessionInv, OutsideTypes
<1>1. CASE UNCHANGED <<told, calls, heard>>
  BY <1>1 DEF CallsInOrder, ExecutorBusy
<1>2. CASE ExecutorAdmits
  <2>1. PICK kind \in Executors, ticket \in Ticket :
          told' = kind /\ calls' = calls \cup {[kind |-> kind, ticket |-> ticket]}
    BY <1>2 DEF ExecutorAdmits
  <2>2. UNCHANGED heard /\ \A c \in calls : c.kind = "UserLeave"
    BY <1>2 DEF ExecutorAdmits, ExecutorBusy
  <2>3. kind \in {"Connected", "Reconnecting", "Reconnected", "Disconnected"}
    BY DEF Executors
  <2>4. heard = "Disconnected" => kind # "Reconnected"
    <3>1. heard = "Disconnected" => told = "Disconnected"
      BY <2>2 DEF CallsInOrder, ExecutorBusy
    <3> QED BY <2>1, <3>1, RevivalsAdmitted
  <2>5. ExecutorBusy'
    <3>1. PICK c : c = [kind |-> kind, ticket |-> ticket]
      OBVIOUS
    <3>2. c \in calls' /\ c.kind = kind
      BY <2>1, <3>1
    <3> QED BY <2>3, <3>2 DEF ExecutorBusy
  <2> QED BY <2>1, <2>2, <2>3, <2>4, <2>5 DEF CallsInOrder
<1>3. CASE DisconnectAdmits
  <2>1. PICK ticket : calls' = calls \cup {[kind |-> "UserLeave", ticket |-> ticket]}
    BY <1>3 DEF DisconnectAdmits
  <2>2. UNCHANGED heard /\ told' = "Disconnected"
    BY <1>3 DEF DisconnectAdmits
  <2> QED BY <2>1, <2>2 DEF CallsInOrder
<1>4. CASE CallEnds
  <2>1. PICK c \in calls : calls' = calls \ {c} /\ heard' = c.kind /\ told' = told
    BY <1>4 DEF CallEnds, ListenerCalled
  <2>2. c.kind = "Disconnected" =>
          told = "Disconnected" /\ \A d \in calls' : d.kind # "Reconnected"
    BY <2>1 DEF CallsInOrder
  <2> QED BY <2>1, <2>2 DEF CallsInOrder
<1> QED BY <1>d, <1>1, <1>2, <1>3, <1>4

\* The executor is in the application's listener for one admitted call at a time
\* (room.h 428-442), and once the listener has heard a Disconnected from it, none of the
\* calls under way is a Reconnected.
THEOREM ListenerCalledInOrder == Spec => []CallsInOrder
  BY CallsInit, CallsNext, HoldingInvariant, ListenerInvariant, PTL DEF Spec

\* Nobody decides to say Reconnected once Disconnected was the last word, and the
\* listener hears none after a Disconnected that came from the executor.
THEOREM NoRevivalAnnounced == Spec => NoReconnectedAfterDisconnected
<1>1. HoldingInv /\ ListenerInv /\ CallsInOrder /\ [Next]_vars =>
        [/\ told' = "Reconnected" => told # "Disconnected"
         /\ heard' = "Reconnected" => heard # "Disconnected"]_vars
  <2> SUFFICES ASSUME HoldingInv, ListenerInv, CallsInOrder, [Next]_vars,
                      heard' = "Reconnected"
               PROVE  heard # "Disconnected"
    BY RevivalsAdmitted
  <2>1. UNCHANGED heard \/ CallEnds
    BY Deliveries
    DEF HoldingInv, SessionInv, OutsideTypes, ExecutorAdmits, DisconnectAdmits
  <2> QED BY <2>1 DEF CallEnds, ListenerCalled, CallsInOrder
<1> QED
  BY <1>1, HoldingInvariant, ListenerInvariant, ListenerCalledInOrder, PTL
  DEF Spec, NoReconnectedAfterDisconnected

-----------------------------------------------------------------------------
(* ServerInv: rooms nobody has called Disconnect on.                       *)

LEMMA ServerInit == Init => ServerInv
<1> SUFFICES ASSUME Init PROVE ServerInv
  OBVIOUS
<1>1. LeaveAccounted
  BY DEF Init, LeaveAccounted
<1>2. ASSUME NEW r \in Reconnects
      PROVE  ~RestartWaits(r) /\ ~Announced(r)
  BY DEF Init, RestartWaits, Announced, Claims, Recovering, Restarting, Republishing
<1> QED BY <1>1, <1>2, ListenerInit DEF ServerInv, RecoveriesUndisturbed

\* While a restart waits to connect, the room is its alone and its listener waits.
LEMMA WaitingRoom ==
  ASSUME ServerInv, disconnects = 0, ~Retired, NEW p \in Reconnects, RestartWaits(p)
  PROVE  /\ RestartUndisturbed(p) /\ Claims(p) /\ NoSession
         /\ told \notin {"None", "Disconnected"}
         /\ \A q \in Reconnects : Claims(q) => q = p
         /\ session_generation \notin finalizers
         /\ \A t \in Tasks : CallLive(t) => call[t].gen \notin {session_generation, installed}
<1> USE DEF ServerInv, ListenerInv, RecoveryInv
<1>1. RestartUndisturbed(p)
  BY DEF RecoveriesUndisturbed
<1>2. Restarting(p) /\ rec[p].pc # "disconnected"
  BY DEF RestartWaits, Restarting
<1>3. Claims(p)
  BY <1>1, <1>2 DEF Claims, RestartUndisturbed
<1>4. NoSession
  BY <1>1, <1>2 DEF PhasesAgree, PhaseAgrees, RestartUndisturbed
<1>5. told # "None"
  BY <1>3 DEF RecoveriesUndisturbed, Announced
<1>6. told # "Disconnected"
  BY <1>2, <1>3, <1>4 DEF DisconnectedIsLast, NotReviving, DownForGood, NoSession
<1>7. \A q \in Reconnects : Claims(q) => q = p
  BY <1>3 DEF ClaimsExclusive
<1>8. session_generation \notin finalizers
  BY <1>1 DEF LeaveAccounted, RestartUndisturbed
<1>9. \A t \in Tasks : CallLive(t) => call[t].gen # session_generation
  BY <1>4 DEF GenerationsAccounted
<1>10. \A t \in Tasks : CallLive(t) => call[t].gen # installed
  BY <1>1, AttemptsNotAhead DEF RestartUndisturbed
<1> QED BY <1>1, <1>3, <1>4, <1>5, <1>6, <1>7, <1>8, <1>9, <1>10

\* Reconnector q has been announced, whether it is new to the room or not.
LEMMA AnnouncedKept ==
  ASSUME ServerInv, disconnects = 0, ~Retired, NEW q \in Reconnects,
         told # "None" => told' # "None",
         Claims(q)' => Announced(q) \/ told # "None",
         rec'[q] = rec[q] \/ rec'[q].pc \notin {"announce", "spawned"},
         \/ session_generation' = session_generation + 1
         \/ /\ UNCHANGED session_generation
            /\ \/ connection_state' \in {connection_state, "Disconnected"}
               \/ connection_state \in {"Connected", "Connecting"}
               \/ told # "None"
  PROVE  Announced(q)' => told' # "None"
<1> SUFFICES ASSUME Announced(q)', told = "None" PROVE FALSE
  OBVIOUS
<1>1. ~Announced(q)
  BY DEF ServerInv, RecoveriesUndisturbed
<1>2. ~Claims(q)'
  BY <1>1
<1>3. /\ rec'[q] = rec[q] /\ rec[q].rg = session_generation'
      /\ rec[q].pc \in {"announce", "spawned"}
      /\ connection_state' \in {"Connected", "Reconnecting"}
      /\ rec[q].pc = "announce" => connection_state' = "Connected"
  BY <1>2 DEF Announced
<1>4. FrameWellFormed(q) /\ session_generation \in Nat /\ rec[q].rg \in Nat
  BY DEF ServerInv, ListenerInv, RecoveryInv, FramesWellFormed, SessionInv, RoomTypes, RecFrame
<1>5. UNCHANGED session_generation
  BY <1>3, <1>4 DEF FrameWellFormed
<1>6. connection_state # "Connecting"
  BY <1>3, <1>4, <1>5 DEF FrameWellFormed
<1>7. connection_state' = connection_state \/ connection_state = "Connected"
  BY <1>3, <1>4, <1>5, <1>6
<1> QED BY <1>1, <1>3, <1>5, <1>7 DEF Announced

\* A step that changes nothing of the room leaves a waiting restart undisturbed.
LEMMA WaitKept ==
  ASSUME ServerInv, disconnects = 0, ~Retired, NEW p \in Reconnects, RestartWaits(p),
         rec'[p].rg = rec[p].rg,
         UNCHANGED <<session_generation, connection_state, installed, reconnect_active, ended>>
  PROVE  RestartUndisturbed(p)'
<1>1. RestartUndisturbed(p)
  BY WaitingRoom
<1> QED BY <1>1 DEF RestartUndisturbed

LEMMA ServerConnect ==
  ASSUME ServerInv, CallsInOrder, ToldIsHeard, disconnects = 0, ~ExecutorBusy,
         NEW t \in Tasks, ConnectStep(t)
  PROVE  RecoveriesUndisturbed' /\ LeaveAccounted'
<1> USE DEF roomVars, recoveryVars
<1>i. /\ ListenerInv /\ RecoveryInv /\ SessionInv /\ RoomTypes /\ FramesWellFormed
      /\ ClaimsExclusive /\ PhasesAgree /\ LeaveAccounted
  BY DEF ServerInv, ListenerInv, RecoveryInv, SessionInv
<1>r. UNCHANGED <<rec, reconnect_active, finalizers, retire>>
  BY DEF ConnectStep, ConnectRefused, ConnectStart, SignalJoined, JoinCommit, NativeCommit,
         ConnectCommit, ConnectReturn, ConnectThrows, ConnectRollback, RollbackFrame,
         noticeVars, userVars
<1>t. told # "None" => told' # "None"
  BY DEF ConnectStep, ConnectRefused, ConnectStart, SignalJoined, JoinCommit, NativeCommit,
         ConnectCommit, ConnectReturn, ConnectThrows, ConnectRollback, RollbackFrame,
         noticeVars, userVars, Deliver
<1>n. /\ session_generation \in Nat /\ installed \in Nat /\ installed <= session_generation
      /\ CallLive(t) => call[t].gen \in Nat /\ call[t].gen > 0
  BY <1>i, AttemptsNotAhead DEF RoomTypes, SessionInv, AttemptsDistinct
<1>c. /\ call[t].pc # "idle" /\ call'[t].pc # "ready"
      /\ \A u \in Tasks \ {t} : call'[u] = call[u]
  <2>1. call \in [Tasks -> CallFrame]
    BY <1>i DEF RoomTypes
  <2>2. ASSUME NEW pc, CallGoto(t, pc)
        PROVE  call'[t].pc = pc /\ \A u \in Tasks \ {t} : call'[u] = call[u]
    BY <2>1, <2>2 DEF CallGoto, CallFrame
  <2>3. CASE ConnectStart(t)
    BY <2>1, <2>3 DEF ConnectStart, Calls
  <2>4. CASE ConnectCommit(t)
    BY <2>1, <2>4 DEF ConnectCommit, CallFrame
  <2>5. CASE ConnectRollback(t)
    BY <2>2, <2>5 DEF ConnectRollback
  <2>6. CASE ConnectRefused(t) \/ SignalJoined(t) \/ JoinCommit(t)
    BY <2>2, <2>6 DEF ConnectRefused, Calls, SignalJoined, JoinCommit
  <2>7. CASE NativeCommit(t) \/ ConnectReturn(t) \/ ConnectThrows(t)
    BY <2>2, <2>7 DEF NativeCommit, ConnectReturn, ConnectThrows
  <2> QED BY <2>3, <2>4, <2>5, <2>6, <2>7 DEF ConnectStep
<1>w. ASSUME NEW p \in Reconnects, RestartWaits(p)'
      PROVE  RestartWaits(p) /\ t # p
  BY <1>w, <1>i, <1>r, <1>c DEF RestartWaits, SessionInv, NestedCallAwaited, Tasks
\* Within a generation.
<1>q. ASSUME UNCHANGED <<session_generation, ended, reconnect_disabled>>,
             NoSession' <=> NoSession,
             installed = session_generation => installed' = session_generation,
             connection_state = "Reconnecting" => connection_state' = "Reconnecting",
             connection_state' = "Connecting" => connection_state = "Connecting",
             connection_state' = connection_state \/ connection_state = "Connecting",
             ~Retired /\ (\E p \in Reconnects : RestartWaits(p)) =>
               UNCHANGED <<connection_state, installed>>
      PROVE  RecoveriesUndisturbed' /\ LeaveAccounted'
  <2>1. \A q \in Reconnects : Claims(q)' => Claims(q)
    BY <1>q, <1>r, <1>i, UnnoticedStep
  <2>2. ASSUME ~Retired', NEW p \in Reconnects
        PROVE  Announced(p)' => told' # "None"
    BY <1>q, <1>r, <1>t, <2>1, <2>2, AnnouncedKept DEF Announced, Retired
  <2>3. ASSUME ~Retired', NEW p \in Reconnects, RestartWaits(p)'
        PROVE  RestartUndisturbed(p)'
    BY <1>q, <1>r, <1>w, <2>3, WaitKept DEF Retired
  <2>4. LeaveAccounted'
    BY <1>q, <1>r, <1>i DEF LeaveAccounted, Retired
  <2> QED BY <2>2, <2>3, <2>4 DEF RecoveriesUndisturbed
<1>1. CASE ConnectStart(t)
  <2>1. /\ connection_state = "Disconnected" /\ installed = 0 /\ ~Retired
        /\ connection_state' = "Connecting" /\ session_generation' = session_generation + 1
        /\ Calls(t) /\ ended' = IF t \in Connects THEN "no" ELSE ended
    BY <1>1 DEF ConnectStart, ConnectAdmitted
  <2>2. \A q \in Reconnects : Claims(q)' => Claims(q)
    BY <2>1, <1>r, <1>i, StartKeepsClaims
  <2>3. ASSUME NEW p \in Reconnects
        PROVE  Announced(p)' => told' # "None"
    BY <2>1, <2>2, <1>r, <1>t, AnnouncedKept DEF Announced
  <2>4. t \in Reconnects => RestartWaits(t)
    BY <2>1, <1>i DEF Calls, RestartWaits, SessionInv, NestedCallAwaited
  <2>5. ASSUME NEW p \in Reconnects, RestartWaits(p)'
        PROVE  FALSE
    <3>1. RestartWaits(p) /\ t # p
      BY <2>5, <1>w
    <3>2. told \notin {"None", "Disconnected"} /\ ended = "no"
          /\ \A q \in Reconnects : RestartWaits(q) => q = p
      BY <2>1, <3>1, WaitingRoom DEF RestartUndisturbed
    <3>3. heard \notin {"None", "Disconnected", "UserLeave"}
      BY <2>1, <3>2 DEF ToldIsHeard, CallsInOrder
    <3> QED BY <2>1, <2>4, <3>1, <3>2, <3>3 DEF Calls, Tasks
  <2>6. ended' = "no"
    BY <2>1, <2>4, WaitingRoom DEF RestartUndisturbed, Tasks
  <2>7. session_generation' \notin finalizers /\ \A g \in finalizers : g <= session_generation'
    BY <2>1, <1>n, <1>i DEF LeaveAccounted, RoomTypes
  <2>8. LeaveAccounted'
    BY <2>6, <2>7, <1>r DEF LeaveAccounted
  <2> QED BY <2>3, <2>5, <2>8 DEF RecoveriesUndisturbed
<1>2. CASE JoinCommit(t)
  <2>1. /\ UNCHANGED <<connection_state, session_generation, ended, reconnect_disabled>>
        /\ connection_state = "Connecting" /\ installed = 0 /\ installed' = call[t].gen
        /\ call[t].gen = session_generation
    BY <1>2 DEF JoinCommit, userVars
  <2>2. ~Retired => ~\E p \in Reconnects : RestartWaits(p)
    BY <2>1, WaitingRoom DEF RestartUndisturbed
  <2> QED BY <2>1, <2>2, <1>q DEF NoSession
<1>3. CASE ConnectCommit(t)
  <2>1. /\ UNCHANGED <<installed, session_generation, ended, reconnect_disabled>>
        /\ connection_state = "Connecting" /\ connection_state' = "Connected"
        /\ installed = session_generation
    BY <1>3 DEF ConnectCommit, userVars
  <2>2. ~Retired => ~\E p \in Reconnects : RestartWaits(p)
    BY <2>1, WaitingRoom DEF RestartUndisturbed
  <2> QED BY <2>1, <2>2, <1>q DEF NoSession
<1>4. CASE ConnectRollback(t)
  <2>1. /\ CallGoto(t, "threw") /\ call[t].pc = "rollback" /\ told' = told
        /\ session_generation' = IF call[t].gen = session_generation
                                 THEN session_generation + 1 ELSE session_generation
        /\ installed' = IF call[t].gen = installed THEN 0 ELSE installed
        /\ connection_state' = IF call[t].gen \in {session_generation, installed}
                               THEN "Disconnected" ELSE connection_state
        /\ UNCHANGED <<ended, reconnect_disabled>>
    BY <1>4 DEF ConnectRollback, RollbackFrame, noticeVars, userVars
  <2>2. CallLive(t) /\ CallWorking(t)
    BY <2>1 DEF CallLive, CallWorking
  <2>w. ASSUME ~Retired, NEW p \in Reconnects, RestartWaits(p)
        PROVE  UNCHANGED <<session_generation, connection_state, installed>>
    BY <2>1, <2>2, <2>w, WaitingRoom
  <2>3. CASE call[t].gen = session_generation
    <3>1. connection_state = "Connecting"
      BY <2>2, <2>3, <1>i DEF RecoveryInv, GenerationsAccounted
    <3>2. NoSession' /\ session_generation' = session_generation + 1
      <4>1. /\ session_generation' = session_generation + 1
            /\ connection_state' = "Disconnected" /\ installed' \in {0, installed}
        BY <2>1, <2>3
      <4>2. installed' # session_generation'
        BY <4>1, <1>n
      <4> QED BY <4>1, <4>2 DEF NoSession
    <3>3. \A q \in Reconnects : Claims(q)' => Claims(q)
      BY <3>1, <3>2, <1>r, <1>i, FailureKeepsClaims
    <3>4. ASSUME ~Retired', NEW p \in Reconnects
          PROVE  Announced(p)' => told' # "None"
      BY <2>1, <3>2, <3>3, <3>4, <1>r, AnnouncedKept DEF Announced, Retired
    <3>5. ASSUME ~Retired', NEW p \in Reconnects, RestartWaits(p)'
          PROVE  FALSE
      <4>1. RestartWaits(p) /\ ~Retired
        BY <3>5, <1>w, <1>r DEF Retired
      <4> QED BY <4>1, <2>2, <2>3, WaitingRoom
    <3>6. session_generation' \notin finalizers /\ \A g \in finalizers : g <= session_generation'
      BY <3>2, <1>n, <1>i DEF LeaveAccounted, RoomTypes
    <3>7. LeaveAccounted'
      BY <2>1, <3>6, <1>r, <1>i DEF LeaveAccounted, Retired
    <3> QED BY <3>4, <3>5, <3>7 DEF RecoveriesUndisturbed
  <2>4. CASE call[t].gen # session_generation
    <3>2. call[t].gen = installed => connection_state = "Disconnected"
      BY <2>2, <2>4, <1>n, <1>i DEF SessionInv, StateOwnsSession, RoomTypes, ConnectionState
    <3>3. CASE call[t].gen = installed
      <4>1. /\ installed' = 0 /\ session_generation' = session_generation
            /\ connection_state' = connection_state /\ connection_state = "Disconnected"
            /\ session_generation > 0 /\ installed # session_generation
        BY <2>1, <2>2, <2>4, <3>2, <3>3, <1>n
      <4>2. NoSession' <=> NoSession
        BY <4>1 DEF NoSession
      <4> QED BY <2>1, <2>w, <4>1, <4>2, <1>q
    <3>4. CASE call[t].gen # installed
      BY <2>1, <2>4, <3>4, <1>q DEF NoSession
    <3> QED BY <3>3, <3>4
  <2> QED BY <2>3, <2>4
<1>5. CASE UNCHANGED <<connection_state, session_generation, installed, ended, reconnect_disabled>>
  BY <1>5, <1>q DEF NoSession
<1> QED
  BY <1>1, <1>2, <1>3, <1>4, <1>5
  DEF ConnectStep, ConnectRefused, SignalJoined, NativeCommit, ConnectReturn, ConnectThrows,
      userVars

LEMMA ServerHandlers ==
  ASSUME ServerInv, disconnects = 0, HandlersStep \/ TeardownEnds \/ ListenerRuns
  PROVE  RecoveriesUndisturbed' /\ LeaveAccounted'
<1> USE DEF roomVars, recoveryVars, noticeVars, userVars, ClosePending, LeavePending, Retired
<1>i. /\ ListenerInv /\ RecoveryInv /\ SessionInv /\ RoomTypes /\ FramesWellFormed
      /\ ClaimsExclusive /\ PhasesAgree /\ LeaveAccounted
  BY DEF ServerInv, ListenerInv, RecoveryInv, SessionInv
<1>n. /\ session_generation \in Nat /\ installed \in Nat /\ installed <= session_generation
      /\ finalizers \subseteq Nat
  BY <1>i DEF RoomTypes, SessionInv, AttemptsDistinct
<1>t. told # "None" => told' # "None"
  BY DEF HandlersStep, HandlerStep, DropStaleEvent, CloseStartsReconnect, CloseFailsConnect,
         CloseElsewhere, CloseDisconnects, BeginServerDisconnect, IgnoreLeave,
         FinalizeServerDisconnect, DeliverDisconnected, Deliver, TeardownEnds, CloseDetached,
         ListenerRuns, ListenerCalled
<1>u. UNCHANGED <<call, retire>>
  BY DEF HandlersStep, HandlerStep, DropStaleEvent, CloseStartsReconnect, CloseFailsConnect,
         CloseElsewhere, CloseDisconnects, BeginServerDisconnect, IgnoreLeave,
         FinalizeServerDisconnect, DeliverDisconnected, TeardownEnds, CloseDetached,
         ListenerRuns, ListenerCalled
\* Nothing of the room changes but the leave, which no waiting restart sees.
<1>q. ASSUME UNCHANGED <<rec, reconnect_active, roomVars>>, LeaveAccounted',
             ~Retired /\ (\E p \in Reconnects : RestartWaits(p)) => UNCHANGED ended
      PROVE  RecoveriesUndisturbed' /\ LeaveAccounted'
  <2>1. \A q \in Reconnects : Claims(q)' => Claims(q)
    BY <1>q, <1>i, UnnoticedStep DEF NoSession
  <2>2. ASSUME ~Retired, NEW p \in Reconnects
        PROVE  Announced(p)' => told' # "None"
    BY <1>q, <1>t, <2>1, <2>2, AnnouncedKept DEF Announced
  <2>3. ASSUME ~Retired, NEW p \in Reconnects, RestartWaits(p)'
        PROVE  RestartUndisturbed(p)'
    <3>1. RestartWaits(p)
      BY <1>q, <1>u, <2>3 DEF RestartWaits
    <3> QED BY <1>q, <2>3, <3>1, WaitKept
  <2> QED BY <1>q, <1>u, <2>2, <2>3 DEF RecoveriesUndisturbed
\* A new generation, or a state, that no restart waits in.
<1>v. ASSUME ~Retired => ~\E p \in Reconnects : RestartWaits(p),
             \A q \in Reconnects : Claims(q)' => Claims(q),
             \A q \in Reconnects :
                \/ rec'[q] = rec[q]
                \/ /\ rec[q].pc = "off" /\ rec'[q].pc = "announce"
                   /\ connection_state' = "Reconnecting"
                   /\ UNCHANGED session_generation,
             \/ session_generation' = session_generation + 1
             \/ /\ UNCHANGED session_generation
                /\ connection_state' = "Disconnected" \/ connection_state = "Connected",
             UNCHANGED <<ended, reconnect_disabled>>, finalizers' \subseteq finalizers
      PROVE  RecoveriesUndisturbed' /\ LeaveAccounted'
  <2>1. ASSUME ~Retired, NEW p \in Reconnects
        PROVE  Announced(p)' => told' # "None"
    <3>1. CASE rec'[p] = rec[p]
      BY <1>v, <1>t, <2>1, <3>1, AnnouncedKept DEF Announced
    <3>2. CASE rec'[p] # rec[p]
      <4>1. ~Claims(p)'
        BY <1>v, <3>2 DEF Claims, Recovering, Restarting, Republishing
      <4> QED BY <1>v, <3>2, <4>1 DEF Announced
    <3> QED BY <3>1, <3>2
  <2>2. ASSUME ~Retired, NEW p \in Reconnects
        PROVE  ~RestartWaits(p)'
    BY <1>v, <1>u, <2>2 DEF RestartWaits
  <2>3. /\ session_generation' \in finalizers' => session_generation' = session_generation
        /\ \A g \in finalizers' : g <= session_generation'
    BY <1>v, <1>n, <1>i DEF LeaveAccounted
  <2>4. LeaveAccounted'
    BY <1>v, <1>u, <1>i, <2>3 DEF LeaveAccounted
  <2> QED BY <1>u, <2>1, <2>2, <2>4 DEF RecoveriesUndisturbed
<1>1. ASSUME NEW g, NEW r \in Reconnects, CloseStartsReconnect(g, r)
      PROVE  RecoveriesUndisturbed' /\ LeaveAccounted'
  <2>1. /\ UNCHANGED <<session_generation, installed, reconnect_active, ended, reconnect_disabled,
                       finalizers>>
        /\ connection_state = "Connected" /\ connection_state' = "Reconnecting"
        /\ rec[r].pc = "off" /\ rec'[r].pc = "announce"
        /\ \A q \in Reconnects \ {r} : rec'[q] = rec[q]
    BY <1>1, <1>i DEF CloseStartsReconnect, RoomTypes
  <2>2. \A q \in Reconnects : Claims(q)' => Claims(q)
    BY <2>1, <1>i, UnnoticedStep DEF NoSession
  <2>3. ~Retired => ~\E p \in Reconnects : RestartWaits(p)
    BY <2>1, WaitingRoom DEF RestartUndisturbed
  <2> QED BY <2>1, <2>2, <2>3, <1>v
<1>2. ASSUME NEW g, CloseFailsConnect(g)
      PROVE  RecoveriesUndisturbed' /\ LeaveAccounted'
  <2>1. /\ connection_state = "Connecting" /\ connection_state' = "Disconnected"
        /\ session_generation' = session_generation + 1
        /\ UNCHANGED <<rec, reconnect_active, installed, ended, reconnect_disabled, finalizers>>
    BY <1>2 DEF CloseFailsConnect
  <2>2. NoSession'
    BY <2>1, <1>n DEF NoSession
  <2>3. \A q \in Reconnects : Claims(q)' => Claims(q)
    BY <2>1, <2>2, <1>i, FailureKeepsClaims
  <2>4. ~Retired => ~\E p \in Reconnects : RestartWaits(p)
    BY <2>1, WaitingRoom DEF RestartUndisturbed
  <2> QED BY <2>1, <2>3, <2>4, <1>v
<1>3. ASSUME NEW g, FinalizeServerDisconnect(g)
      PROVE  RecoveriesUndisturbed' /\ LeaveAccounted'
  <2>0. /\ g \in finalizers /\ finalizers' \subseteq finalizers
        /\ UNCHANGED <<rec, ended, reconnect_disabled>>
    BY <1>3 DEF FinalizeServerDisconnect
  <2>1. CASE UNCHANGED <<roomVars, reconnect_active>>
    <3>1. LeaveAccounted'
      BY <2>0, <2>1, <1>u, <1>i DEF LeaveAccounted
    <3> QED BY <2>0, <2>1, <3>1, <1>q
  <2>2. CASE ~UNCHANGED <<roomVars, reconnect_active>>
    <3>1. /\ session_generation' = session_generation + 1 /\ installed' = 0
          /\ connection_state' = "Disconnected" /\ ~reconnect_active'
          /\ g = session_generation
      BY <1>3, <2>2 DEF FinalizeServerDisconnect, IsSignalGenerationCurrent
    <3>2. ASSUME NEW q \in Reconnects
          PROVE  ~Claims(q)'
      <4>1. rec'[q].rg # session_generation'
        BY <2>0, <3>1, <1>n, <1>i DEF FramesWellFormed, FrameWellFormed, RoomTypes, RecFrame
      <4> QED BY <3>1, <4>1 DEF Claims
    <3>3. ~Retired => ~\E p \in Reconnects : RestartWaits(p)
      BY <2>0, <3>1, WaitingRoom
    <3> QED BY <2>0, <3>1, <3>2, <3>3, <1>v
  <2> QED BY <2>1, <2>2
<1>4. ASSUME NEW g, CloseDisconnects(g)
      PROVE  RecoveriesUndisturbed' /\ LeaveAccounted'
  <2>0. UNCHANGED <<rec, reconnect_active, session_generation, installed, native, ended,
                    reconnect_disabled, finalizers>>
    BY <1>4 DEF CloseDisconnects
  <2>1. CASE UNCHANGED connection_state
    <3>1. LeaveAccounted'
      BY <2>0, <1>u, <1>i DEF LeaveAccounted
    <3> QED BY <2>0, <2>1, <3>1, <1>q
  <2>2. CASE ~UNCHANGED connection_state
    <3>1. /\ g \in closing /\ g = session_generation
          /\ connection_state \notin {"Disconnected", "Reconnecting"}
          /\ connection_state' = "Disconnected"
      BY <1>4, <2>2 DEF CloseDisconnects, IsSignalGenerationCurrent
    <3>2. connection_state = "Connected"
      BY <3>1, <1>i DEF RecoveryInv, GenerationsAccounted, RoomTypes, ConnectionState
    <3>3. \A q \in Reconnects : Claims(q)' => Claims(q)
      BY <2>0, <3>1, <3>2, <1>i, UnnoticedStep DEF NoSession
    <3>4. ~Retired => ~\E p \in Reconnects : RestartWaits(p)
      BY <3>2, WaitingRoom DEF RestartUndisturbed
    <3> QED BY <2>0, <3>1, <3>3, <3>4, <1>v
  <2> QED BY <2>1, <2>2
<1>5. ASSUME NEW g, BeginServerDisconnect(g)
      PROVE  RecoveriesUndisturbed' /\ LeaveAccounted'
  <2>1. /\ UNCHANGED <<rec, reconnect_active, roomVars>> /\ g = session_generation
        /\ connection_state # "Disconnected" /\ reconnect_disabled' /\ ended' = "server"
        /\ finalizers' = finalizers \cup {g}
    BY <1>5 DEF BeginServerDisconnect, IsSignalGenerationCurrent
  <2>2. ~Retired => ~\E p \in Reconnects : RestartWaits(p)
    BY <2>1, WaitingRoom DEF RestartUndisturbed
  <2>3. LeaveAccounted'
    BY <2>1, <1>n, <1>i DEF LeaveAccounted
  <2> QED BY <2>1, <2>2, <2>3, <1>q
<1>6. ASSUME NEW g, NEW kind, CloseElsewhere(g) \/ IgnoreLeave(g) \/ DeliverDisconnected(g, kind)
      PROVE  RecoveriesUndisturbed' /\ LeaveAccounted'
  <2>1. UNCHANGED <<rec, reconnect_active, roomVars, ended, reconnect_disabled, finalizers>>
    BY <1>6 DEF CloseElsewhere, IgnoreLeave, DeliverDisconnected
  <2>2. LeaveAccounted'
    BY <2>1, <1>u, <1>i DEF LeaveAccounted
  <2> QED BY <2>1, <2>2, <1>q
<1>7. ASSUME NEW e \in events, DropStaleEvent(e)
      PROVE  RecoveriesUndisturbed' /\ LeaveAccounted'
  <2>1. UNCHANGED <<rec, reconnect_active, roomVars, ended, reconnect_disabled, finalizers>>
    BY <1>7 DEF DropStaleEvent
  <2>2. LeaveAccounted'
    BY <2>1, <1>u, <1>i DEF LeaveAccounted
  <2> QED BY <2>1, <2>2, <1>q
<1>8. ASSUME NEW d, CloseDetached(d) \/ ListenerCalled(d)
      PROVE  RecoveriesUndisturbed' /\ LeaveAccounted'
  <2>1. UNCHANGED <<rec, reconnect_active, roomVars, ended, reconnect_disabled, finalizers>>
    BY <1>8 DEF CloseDetached, ListenerCalled
  <2>2. LeaveAccounted'
    BY <2>1, <1>u, <1>i DEF LeaveAccounted
  <2> QED BY <2>1, <2>2, <1>q
<1> QED
  BY <1>1, <1>2, <1>3, <1>4, <1>5, <1>6, <1>7, <1>8
  DEF HandlersStep, HandlerStep, TeardownEnds, ListenerRuns

\* Only Retire tears the room down, and then nothing comes back.
LEMMA ServerOutside ==
  ASSUME ServerInv, disconnects = 0, disconnects' = 0,
         Environment \/ RetireDisconnects \/ RetireDrained
  PROVE  RecoveriesUndisturbed' /\ LeaveAccounted'
<1> USE DEF roomVars, recoveryVars, noticeVars, userVars
<1>i. /\ ListenerInv /\ RecoveryInv /\ SessionInv /\ RoomTypes /\ FramesWellFormed
      /\ ClaimsExclusive /\ PhasesAgree /\ LeaveAccounted
  BY DEF ServerInv, ListenerInv, RecoveryInv, SessionInv
<1>1. ASSUME NEW by, TearDownForUser(by)
      PROVE  RecoveriesUndisturbed' /\ LeaveAccounted'
  <2>0. session_generation \in Nat /\ session_generation' = session_generation + 1
    BY <1>1, <1>i DEF RoomTypes, TearDownForUser
  <2>1. RetireDisconnects
    <3>1. ~Disconnect
      BY <2>0 DEF Disconnect, vars
    <3>2. ~RetireBegins /\ ~RetireDrained
      BY <2>0 DEF RetireBegins, RetireDrained
    <3>3. ASSUME NEW g PROVE ~TransportCloses(g) /\ ~ServerSendsLeave(g)
      BY <2>0 DEF TransportCloses, ServerSendsLeave
    <3> QED BY <3>1, <3>2, <3>3 DEF Environment
  <2>2. Retired'
    BY <2>1 DEF RetireDisconnects, Retired
  <2>3. /\ ended' = "user" /\ session_generation' = session_generation + 1
        /\ UNCHANGED finalizers
    BY <1>1 DEF TearDownForUser
  <2>4. /\ session_generation \in Nat /\ finalizers \subseteq Nat
        /\ \A g \in finalizers : g <= session_generation
    BY <1>i DEF RoomTypes, LeaveAccounted
  <2>5. \A g \in finalizers' : g <= session_generation'
    BY <2>3, <2>4
  <2> QED BY <2>2, <2>3, <2>5 DEF RecoveriesUndisturbed, LeaveAccounted
<1>2. CASE UNCHANGED <<rec, call, roomVars, recoveryVars, noticeVars, ended>>
  <2>1. Retired => Retired'
    BY DEF Environment, Disconnect, TransportCloses, ServerSendsLeave, RetireBegins,
           RetireDisconnects, RetireDrained, vars, Retired
  <2>2. LeaveAccounted'
    BY <1>2, <1>i, <2>1 DEF LeaveAccounted
  <2>3. \A q \in Reconnects : Claims(q)' => Claims(q)
    BY <1>2, <1>i, UnnoticedStep DEF NoSession
  <2>4. ASSUME ~Retired', NEW p \in Reconnects
        PROVE  Announced(p)' => told' # "None"
    BY <1>2, <2>1, <2>3, <2>4, AnnouncedKept DEF Announced
  <2>5. ASSUME ~Retired', NEW p \in Reconnects, RestartWaits(p)'
        PROVE  RestartUndisturbed(p)'
    <3>1. RestartWaits(p)
      BY <1>2, <2>5 DEF RestartWaits
    <3> QED BY <1>2, <2>1, <2>5, <3>1, WaitKept
  <2> QED BY <2>2, <2>4, <2>5 DEF RecoveriesUndisturbed
<1>3. CASE Environment /\ ~\E by : TearDownForUser(by)
  <2>1. CASE UNCHANGED vars
    BY <2>1, <1>2 DEF vars
  <2>2. CASE RetireBegins
    BY <2>2, <1>2 DEF RetireBegins
  <2>3. ASSUME NEW g, TransportCloses(g) \/ ServerSendsLeave(g)
        PROVE  RecoveriesUndisturbed' /\ LeaveAccounted'
    BY <2>3, <1>2 DEF TransportCloses, ServerSendsLeave
  <2> QED BY <1>3, <2>1, <2>2, <2>3 DEF Environment, Disconnect
<1>4. CASE (RetireDisconnects \/ RetireDrained) /\ ~\E by : TearDownForUser(by)
  BY <1>2, <1>4 DEF RetireDisconnects, RetireDrained
<1> QED BY <1>1, <1>3, <1>4

LEMMA ServerReconnect ==
  ASSUME ServerInv, disconnects = 0, NEW r \in Reconnects, ReconnectStep(r)
  PROVE  RecoveriesUndisturbed' /\ LeaveAccounted'
<1> USE DEF recFrameOnly, roomVars, recoveryVars, noticeVars, userVars
<1>i. /\ ListenerInv /\ RecoveryInv /\ SessionInv /\ RoomTypes /\ FramesWellFormed
      /\ ClaimsExclusive /\ PhasesAgree /\ LeaveAccounted
  BY DEF ServerInv, ListenerInv, RecoveryInv, SessionInv
<1>n. /\ session_generation \in Nat /\ installed \in Nat /\ installed <= session_generation
      /\ rec[r].rg \in Nat /\ rec[r].cg \in Nat /\ finalizers \subseteq Nat
  BY <1>i DEF SessionInv, RoomTypes, AttemptsDistinct, RecFrame
<1>u. UNCHANGED <<ended, reconnect_disabled, finalizers, retire>>
  BY DEF ReconnectStep, AnnounceReconnecting, ReconnectBegins, NextAttempt,
         AttemptsExhausted, DelayOver, ResumeBegins, SignalRestarts, SyncStateSent,
         ResumeCommit, ResumeThrows, FullRestartTeardown, RestartConnects,
         RestartConnected, Republished, RestartCommit, RestartThrows, RestartFailed,
         GiveUpBegins, GiveUp, AnnounceOutcome, StopIf
<1>g. session_generation' \in {session_generation, session_generation + 1}
  BY DEF ReconnectStep, AnnounceReconnecting, ReconnectBegins, NextAttempt,
         AttemptsExhausted, DelayOver, ResumeBegins, SignalRestarts, SyncStateSent,
         ResumeCommit, ResumeThrows, FullRestartTeardown, RestartConnects,
         RestartConnected, Republished, RestartCommit, RestartThrows, RestartFailed,
         GiveUpBegins, GiveUp, AnnounceOutcome, StopIf
<1>t. told # "None" => told' # "None"
  BY DEF ReconnectStep, AnnounceReconnecting, ReconnectBegins, NextAttempt,
         AttemptsExhausted, DelayOver, ResumeBegins, SignalRestarts, SyncStateSent,
         ResumeCommit, ResumeThrows, FullRestartTeardown, RestartConnects,
         RestartConnected, Republished, RestartCommit, RestartThrows, RestartFailed,
         GiveUpBegins, GiveUp, AnnounceOutcome, StopIf, Deliver
<1>L. LeaveAccounted'
  <2>1. /\ session_generation' \in finalizers => session_generation' = session_generation
        /\ \A x \in finalizers : x <= session_generation'
    BY <1>g, <1>n, <1>i DEF LeaveAccounted
  <2> QED BY <2>1, <1>u, <1>i DEF LeaveAccounted, Retired
<1> SUFFICES RecoveriesUndisturbed'
  BY <1>L
<1>m. ASSUME NEW pc, RecGoto(r, pc)
      PROVE  /\ rec'[r].pc = pc /\ rec'[r].rg = rec[r].rg
             /\ \A q \in Reconnects \ {r} : rec'[q] = rec[q]
  BY <1>m, <1>i DEF RecGoto, RoomTypes, RecFrame
\* Only its own restart is told to connect by reconnector r.
<1>o. ASSUME NEW q \in Reconnects \ {r}, rec'[q] = rec[q], RestartWaits(q)'
      PROVE  RestartWaits(q)
  <2>1. call'[q] = call[q]
    <3>1. call \in [Tasks -> CallFrame] /\ q \in Tasks /\ r \in Tasks
      BY <1>i DEF RoomTypes, Tasks
    <3>2. UNCHANGED call \/ \E pc : CallGoto(r, pc)
      BY DEF ReconnectStep, AnnounceReconnecting, ReconnectBegins, NextAttempt,
             AttemptsExhausted, DelayOver, ResumeBegins, SignalRestarts, SyncStateSent,
             ResumeCommit, ResumeThrows, FullRestartTeardown, RestartConnects,
             RestartConnected, Republished, RestartCommit, RestartThrows, RestartFailed,
             GiveUpBegins, GiveUp, AnnounceOutcome, StopIf
    <3> QED BY <3>1, <3>2 DEF CallGoto
  <2> QED BY <1>o, <2>1 DEF RestartWaits
<1>k. \/ session_generation' = session_generation + 1
      \/ rec[r].pc = "spawned"
      \/ Claims(r)' => Claims(r)
  BY <1>i, RecoveryReconnect
\* Within a generation, only the owner of a recovery changes the state or ends
\* the recovery, and then no restart waits.
<1>q. ASSUME UNCHANGED <<session_generation, installed>>,
             NoSession' <=> NoSession, reconnect_active' => reconnect_active,
             \A q \in Reconnects \ {r} : rec'[q] = rec[q],
             rec'[r].pc \notin {"announce", "spawned"},
             rec[r].pc # "spawned" \/ rec'[r].pc = "done",
             RestartWaits(r)' => RestartWaits(r) /\ rec'[r].rg = rec[r].rg,
             \/ UNCHANGED <<connection_state, reconnect_active>>
             \/ Claims(r) /\ ~RestartWaits(r)'
      PROVE  RecoveriesUndisturbed'
  <2>1. ASSUME NEW q \in Reconnects
        PROVE  Claims(q)' => Claims(q)
    <3>1. CASE q # r
      <4>1. rec'[q] = rec[q]
        BY <1>q, <3>1
      <4>2. /\ Recovering(q)' <=> Recovering(q)
            /\ Restarting(q)' <=> Restarting(q)
            /\ Republishing(q)' <=> Republishing(q)
        BY <4>1 DEF Recovering, Restarting, Republishing
      <4> QED BY <1>q, <4>1, <4>2 DEF Claims
    <3>2. CASE q = r /\ rec[r].pc # "spawned"
      BY <1>k, <1>q, <1>n, <3>2
    <3>3. CASE q = r /\ rec'[r].pc = "done"
      BY <3>3 DEF Claims, Recovering, Restarting, Republishing
    <3> QED BY <1>q, <3>1, <3>2, <3>3
  <2>2. ASSUME ~Retired, NEW p \in Reconnects
        PROVE  Announced(p)' => told' # "None"
    <3>1. UNCHANGED connection_state \/ told # "None"
      BY <1>q, <2>2 DEF ServerInv, RecoveriesUndisturbed, Announced
    <3> QED BY <1>q, <1>t, <2>1, <2>2, <3>1, AnnouncedKept DEF Announced
  <2>3. ASSUME ~Retired, NEW p \in Reconnects, RestartWaits(p)'
        PROVE  RestartUndisturbed(p)'
    <3>1. RestartWaits(p) /\ rec'[p].rg = rec[p].rg
      BY <1>q, <1>o, <2>3
    <3>2. UNCHANGED <<connection_state, reconnect_active>>
      BY <1>q, <2>3, <3>1, WaitingRoom
    <3> QED BY <1>q, <1>u, <2>3, <3>1, <3>2, WaitKept
  <2> QED BY <1>u, <2>2, <2>3 DEF RecoveriesUndisturbed, Retired
\* The owner takes the recovery to a new generation.
<1>v. ASSUME Claims(r), session_generation' = session_generation + 1,
             \A q \in Reconnects \ {r} : rec'[q] = rec[q],
             ~Retired /\ RestartWaits(r)' => RestartUndisturbed(r)'
      PROVE  RecoveriesUndisturbed'
  <2>1. ~Retired => told' # "None"
    BY <1>v, <1>t DEF ServerInv, RecoveriesUndisturbed, Announced
  <2>2. ASSUME ~Retired, NEW p \in Reconnects, RestartWaits(p)'
        PROVE  RestartUndisturbed(p)'
    BY <1>v, <1>o, <2>2, WaitingRoom
  <2> QED BY <1>u, <2>1, <2>2 DEF RecoveriesUndisturbed, Retired
\* A move of r that touches nothing but its frame.
<1>h. ASSUME NEW pc, RecGoto(r, pc), pc \notin {"announce", "spawned", "restart", "connecting"},
             rec[r].pc # "spawned" \/ pc = "done",
             UNCHANGED <<roomVars, reconnect_active>>
      PROVE  RecoveriesUndisturbed'
  BY <1>h, <1>m, <1>q DEF NoSession, RestartWaits
\* A coroutine that stops in its loop.
<1>s. ASSUME NEW stop, StopIf(r, stop), Recovering(r)
      PROVE  RecoveriesUndisturbed'
  <2>1. /\ rec'[r].pc = "done" /\ \A q \in Reconnects \ {r} : rec'[q] = rec[q]
        /\ UNCHANGED roomVars
    BY <1>s, <1>m DEF StopIf
  <2>2. UNCHANGED reconnect_active \/ (Claims(r) /\ ~reconnect_active')
    BY <1>s DEF StopIf, StillOwner, IsSignalGenerationCurrent, Claims
  <2>3. reconnect_active' => reconnect_active
    BY <2>2
  <2>4. NoSession' <=> NoSession
    BY <2>1 DEF NoSession
  <2>5. ~RestartWaits(r)'
    BY <2>1 DEF RestartWaits
  <2> QED BY <2>1, <2>2, <2>3, <2>4, <2>5, <1>q
<1>1. CASE AnnounceReconnecting(r)
  <2>1. /\ rec[r].pc = "announce" /\ rec'[r].pc = "spawned" /\ rec'[r].rg = rec[r].rg
        /\ \A q \in Reconnects \ {r} : rec'[q] = rec[q]
        /\ UNCHANGED <<connection_state, session_generation, installed, reconnect_active>>
    BY <1>1, <1>m DEF AnnounceReconnecting
  <2>2. \A q \in Reconnects : Claims(q)' => Claims(q)
    BY <2>1, <1>i, UnnoticedStep DEF NoSession
  <2>3. ASSUME ~Retired, Announced(r)'
        PROVE  told' # "None"
    <3>1. ~Claims(r)'
      BY <2>1 DEF Claims, Recovering, Restarting, Republishing
    <3>2. /\ rec[r].rg = session_generation
          /\ connection_state \in {"Connected", "Reconnecting"}
      BY <2>1, <2>3, <3>1 DEF Announced
    <3>3. CASE connection_state = "Connected"
      BY <2>1, <2>3, <3>2, <3>3, <1>t DEF ServerInv, RecoveriesUndisturbed, Announced
    <3>4. CASE connection_state = "Reconnecting"
      BY <1>1, <2>3, <3>2, <3>4 DEF AnnounceReconnecting, Deliver, AdmitListener
    <3> QED BY <3>2, <3>3, <3>4
  <2>4. ASSUME ~Retired, NEW p \in Reconnects \ {r}
        PROVE  Announced(p)' => told' # "None"
    BY <2>1, <2>2, <2>4, <1>t, AnnouncedKept DEF Announced
  <2>5. ASSUME ~Retired, NEW p \in Reconnects, RestartWaits(p)'
        PROVE  RestartUndisturbed(p)'
    <3>1. p # r
      BY <2>1, <2>5 DEF RestartWaits
    <3> QED BY <2>1, <2>5, <3>1, <1>o, <1>u, WaitKept
  <2> QED BY <1>u, <2>3, <2>4, <2>5 DEF RecoveriesUndisturbed, Retired
<1>2. CASE ReconnectBegins(r)
  <2>1. CASE RecGoto(r, "done") /\ UNCHANGED reconnect_active
    BY <1>2, <2>1, <1>h DEF ReconnectBegins
  <2>2. CASE ~(RecGoto(r, "done") /\ UNCHANGED reconnect_active)
    <3>1. PICK full \in BOOLEAN : rec' = [rec EXCEPT ![r].pc = "loop", ![r].full = full]
      BY <1>2, <2>2 DEF ReconnectBegins
    <3>2. /\ rec'[r].pc = "loop" /\ rec'[r].rg = rec[r].rg
          /\ \A q \in Reconnects \ {r} : rec'[q] = rec[q]
      BY <3>1, <1>i DEF RoomTypes, RecFrame
    <3>3. /\ rec[r].rg = session_generation /\ rec[r].pc = "spawned"
          /\ connection_state = "Reconnecting" /\ ~Retired
      BY <1>2, <2>2 DEF ReconnectBegins, IsSignalGenerationCurrent
    <3>4. told' # "None"
      BY <3>3, <1>t DEF ServerInv, RecoveriesUndisturbed, Announced
    <3>5. ASSUME NEW p \in Reconnects
          PROVE  ~RestartWaits(p)'
      <4>1. CASE p = r
        BY <3>2, <4>1 DEF RestartWaits
      <4>2. CASE p # r
        BY <3>2, <3>3, <4>2, <1>o, WaitingRoom DEF RestartUndisturbed
      <4> QED BY <4>1, <4>2
    <3> QED BY <3>4, <3>5 DEF RecoveriesUndisturbed
  <2> QED BY <2>1, <2>2
<1>3. CASE NextAttempt(r)
  <2>1. /\ rec[r].pc = "loop" /\ rec'[r].pc = "delay"
        /\ \A q \in Reconnects \ {r} : rec'[q] = rec[q]
        /\ UNCHANGED <<roomVars, reconnect_active>>
    BY <1>3, <1>i DEF NextAttempt, RoomTypes, RecFrame
  <2> QED BY <2>1, <1>q DEF NoSession, RestartWaits
<1>4. CASE AttemptsExhausted(r)
  BY <1>4, <1>h DEF AttemptsExhausted
<1>5. CASE DelayOver(r)
  <2>1. rec[r].pc = "delay" /\ Recovering(r)
    BY <1>5 DEF DelayOver, Recovering
  <2>2. CASE StopIf(r, ToldToStop(r))
    BY <2>1, <2>2, <1>s
  <2>3. CASE ~StopIf(r, ToldToStop(r))
    BY <1>5, <2>1, <2>3, <1>h DEF DelayOver
  <2> QED BY <2>2, <2>3
<1>6. CASE ResumeBegins(r)
  BY <1>6, <1>h DEF ResumeBegins
<1>7. CASE SignalRestarts(r)
  BY <1>7, <1>h DEF SignalRestarts
<1>8. CASE SyncStateSent(r)
  BY <1>8, <1>h DEF SyncStateSent
<1>9. CASE ResumeCommit(r)
  <2>1. /\ rec[r].pc = "ice" /\ rec'[r].pc = "reconnected" /\ rec[r].rg = session_generation
        /\ connection_state = "Reconnecting" /\ connection_state' = "Connected"
        /\ ~reconnect_active' /\ \A q \in Reconnects \ {r} : rec'[q] = rec[q]
        /\ UNCHANGED <<session_generation, installed>>
    BY <1>9, <1>m DEF ResumeCommit, IsSignalGenerationCurrent
  <2>2. Claims(r) /\ ~RestartWaits(r)'
    BY <2>1 DEF Claims, Recovering, RestartWaits
  <2> QED BY <2>1, <2>2, <1>q DEF NoSession
<1>10. CASE ResumeThrows(r)
  <2>1. /\ rec[r].pc \in {"restarting", "sync", "ice"} /\ rec'[r].pc = "teardown"
        /\ \A q \in Reconnects \ {r} : rec'[q] = rec[q]
        /\ UNCHANGED <<roomVars, reconnect_active>>
    BY <1>10, <1>i DEF ResumeThrows, RoomTypes, RecFrame
  <2> QED BY <2>1, <1>q DEF NoSession, RestartWaits
<1>11. CASE FullRestartTeardown(r)
  <2>0. rec[r].pc = "teardown" /\ Recovering(r)
    BY <1>11 DEF FullRestartTeardown, Recovering
  <2>1. CASE StopIf(r, reconnect_disabled)
    BY <2>0, <2>1, <1>s
  <2>2. CASE ~StopIf(r, reconnect_disabled)
    <3>1. /\ rec' = [rec EXCEPT ![r].pc = "restart", ![r].rg = session_generation + 1,
                                ![r].cg = 0]
          /\ rec[r].rg = session_generation /\ session_generation' = session_generation + 1
          /\ installed' = 0 /\ connection_state' = "Disconnected" /\ ~reconnect_disabled
          /\ UNCHANGED reconnect_active /\ ~Retired
      BY <1>11, <2>2 DEF FullRestartTeardown, StillOwner, IsSignalGenerationCurrent
    <3>2. /\ rec'[r].pc = "restart" /\ rec'[r].rg = session_generation + 1
          /\ \A q \in Reconnects \ {r} : rec'[q] = rec[q]
      BY <3>1, <1>i DEF RoomTypes, RecFrame
    <3>3. Claims(r) /\ reconnect_active
      BY <2>0, <3>1, <1>i DEF Claims, ClaimsExclusive
    <3>4. ended = "no"
      BY <3>1, <1>i DEF LeaveAccounted, RoomTypes
    <3>5. RestartUndisturbed(r)'
      BY <3>1, <3>2, <3>3, <3>4, <1>u DEF RestartUndisturbed
    <3> QED BY <3>1, <3>2, <3>3, <3>5, <1>v
  <2> QED BY <2>1, <2>2
<1>12. CASE RestartConnects(r)
  <2>1. /\ rec[r].pc = "restart" /\ rec'[r].pc = "connecting" /\ rec'[r].rg = rec[r].rg
        /\ \A q \in Reconnects \ {r} : rec'[q] = rec[q]
        /\ UNCHANGED <<roomVars, reconnect_active>>
    BY <1>12, <1>i DEF RestartConnects, RoomTypes, RecFrame
  <2>2. RestartWaits(r)
    BY <2>1 DEF RestartWaits
  <2> QED BY <2>1, <2>2, <1>q DEF NoSession
<1>13. CASE RestartConnected(r)
  <2>1. /\ rec[r].pc = "connecting" /\ rec'[r].pc \in {"republish", "catch"}
        /\ \A q \in Reconnects \ {r} : rec'[q] = rec[q]
        /\ UNCHANGED <<roomVars, reconnect_active>>
    BY <1>13, <1>i DEF RestartConnected, RoomTypes, RecFrame
  <2> QED BY <2>1, <1>q DEF NoSession, RestartWaits
<1>14. CASE Republished(r)
  BY <1>14, <1>h DEF Republished
<1>15. CASE RestartCommit(r)
  <2>1. CASE RestartHolds(rec[r].rg)
    <3>1. /\ rec[r].pc = "channel" /\ rec[r].rg = session_generation
          /\ rec'[r].pc = "reconnected" /\ ~reconnect_active' /\ UNCHANGED roomVars
          /\ \A q \in Reconnects \ {r} : rec'[q] = rec[q]
      BY <1>15, <2>1, <1>m DEF RestartCommit, RestartHolds, IsNativeGenerationCurrent
    <3>2. Claims(r) /\ ~RestartWaits(r)'
      BY <3>1 DEF Claims, Republishing, RestartWaits
    <3> QED BY <3>1, <3>2, <1>q DEF NoSession
  <2>2. CASE ~RestartHolds(rec[r].rg)
    BY <1>15, <2>2, <1>h DEF RestartCommit
  <2> QED BY <2>1, <2>2
<1>16. CASE RestartThrows(r)
  BY <1>16, <1>h DEF RestartThrows
<1>17. CASE RestartFailed(r)
  <2>0. /\ rec[r].pc = "catch" /\ rec[r].cg \in {rec[r].rg, rec[r].rg + 1}
        /\ UNCHANGED <<session_generation, installed, reconnect_active>>
    BY <1>17, <1>i DEF RestartFailed, FramesWellFormed, FrameWellFormed
  <2>1. rec'[r].pc \in {"loop", "done"} /\ \A q \in Reconnects \ {r} : rec'[q] = rec[q]
    BY <1>17, <1>m, <1>i DEF RestartFailed, RoomTypes, RecFrame
  <2>2. CASE UNCHANGED connection_state
    BY <2>0, <2>1, <2>2, <1>q DEF NoSession, RestartWaits
  <2>3. CASE ~UNCHANGED connection_state
    <3>1. /\ connection_state' = "Reconnecting" /\ reconnect_active
          /\ rec' = [rec EXCEPT ![r].pc = "loop", ![r].rg = session_generation]
          /\ \/ connection_state = "Connected" /\ session_generation = rec[r].cg
             \/ /\ connection_state = "Disconnected" /\ installed = 0
                /\ session_generation = rec[r].cg + 1
      BY <1>17, <2>3 DEF RestartFailed
    <3>2. NoSession' <=> NoSession
      BY <2>0, <3>1, <1>n DEF NoSession
    <3>3. Claims(r)'
      BY <2>0, <3>1, <1>i DEF Claims, Recovering, RoomTypes, RecFrame
    <3>4. Claims(r)
      BY <1>k, <1>n, <2>0, <3>3
    <3>5. ~RestartWaits(r)'
      BY <2>1 DEF RestartWaits
    <3> QED BY <2>0, <2>1, <3>2, <3>4, <3>5, <1>q
  <2> QED BY <2>2, <2>3
<1>18. CASE GiveUpBegins(r)
  <2>0. rec[r].pc = "exhausted" /\ Recovering(r)
    BY <1>18 DEF GiveUpBegins, Recovering
  <2>1. CASE StopIf(r, reconnect_disabled)
    BY <2>0, <2>1, <1>s
  <2>2. CASE ~StopIf(r, reconnect_disabled)
    BY <1>18, <2>0, <2>2, <1>h DEF GiveUpBegins
  <2> QED BY <2>1, <2>2
<1>19. CASE GiveUp(r)
  <2>0. rec[r].pc = "giveup" /\ Recovering(r)
    BY <1>19 DEF GiveUp, Recovering
  <2>1. CASE StopIf(r, FALSE)
    BY <2>0, <2>1, <1>s
  <2>2. CASE ~StopIf(r, FALSE)
    <3>1. /\ rec' = [rec EXCEPT ![r].pc = "disconnected", ![r].rg = session_generation + 1]
          /\ rec[r].rg = session_generation /\ session_generation' = session_generation + 1
      BY <1>19, <2>2 DEF GiveUp, StillOwner, IsSignalGenerationCurrent
    <3>2. rec'[r].pc = "disconnected" /\ \A q \in Reconnects \ {r} : rec'[q] = rec[q]
      BY <3>1, <1>i DEF RoomTypes, RecFrame
    <3>3. Claims(r) /\ ~RestartWaits(r)'
      BY <2>0, <3>1, <3>2 DEF Claims, RestartWaits
    <3> QED BY <3>1, <3>2, <3>3, <1>v
  <2> QED BY <2>1, <2>2
<1>20. CASE AnnounceOutcome(r)
  BY <1>20, <1>h DEF AnnounceOutcome
<1> QED
  BY <1>1, <1>2, <1>3, <1>4, <1>5, <1>6, <1>7, <1>8, <1>9, <1>10, <1>11,
     <1>12, <1>13, <1>14, <1>15, <1>16, <1>17, <1>18, <1>19, <1>20
  DEF ReconnectStep

\* Disconnects are counted and never forgotten, nor is a retirement, and nobody else
\* has a farewell to say on a thread of its own.
LEMMA DisconnectsCount ==
  ASSUME RoomTypes, [Next]_vars, disconnects' = 0
  PROVE  disconnects = 0 /\ (~Retired' => ~Retired /\ goodbyes' \subseteq goodbyes)
<1> USE DEF userVars, vars, recFrameOnly, noticeVars
<1> DEFINE Q == UNCHANGED <<disconnects, retire>> /\ goodbyes' \subseteq goodbyes
<1>0. UNCHANGED vars => Q
  OBVIOUS
<1>1. ASSUME NEW t \in Tasks, ConnectStep(t)
      PROVE  Q
  BY <1>1 DEF ConnectStep, ConnectRefused, ConnectStart, SignalJoined, JoinCommit, NativeCommit,
       ConnectCommit, ConnectReturn, ConnectThrows, ConnectRollback, RollbackFrame
<1>2. ASSUME NEW r \in Reconnects, ReconnectStep(r)
      PROVE  Q
  BY <1>2 DEF ReconnectStep, AnnounceReconnecting, ReconnectBegins, NextAttempt,
       AttemptsExhausted, DelayOver, ResumeBegins, SignalRestarts, SyncStateSent,
       ResumeCommit, ResumeThrows, FullRestartTeardown, RestartConnects,
       RestartConnected, Republished, RestartCommit, RestartThrows, RestartFailed,
       GiveUpBegins, GiveUp, AnnounceOutcome, StopIf
<1>3. HandlersStep \/ TeardownEnds \/ ListenerRuns => Q
  BY DEF HandlersStep, HandlerStep, DropStaleEvent, CloseStartsReconnect, CloseFailsConnect,
         CloseElsewhere, CloseDisconnects, BeginServerDisconnect, IgnoreLeave,
         FinalizeServerDisconnect, DeliverDisconnected, ClosePending, LeavePending,
         TeardownEnds, CloseDetached, ListenerRuns, ListenerCalled
<1>4. Disconnect => Q \/ disconnects' = disconnects + 1
  BY DEF Disconnect
<1>5. RetireBegins \/ RetireDisconnects \/ RetireDrained => UNCHANGED disconnects /\ Retired'
  BY DEF RetireBegins, RetireDisconnects, RetireDrained, Retired
<1>6. ASSUME NEW g, TransportCloses(g) \/ ServerSendsLeave(g)
      PROVE  Q
  BY <1>6 DEF TransportCloses, ServerSendsLeave
<1>7. \/ Q
      \/ disconnects' = disconnects + 1
      \/ UNCHANGED disconnects /\ Retired'
  BY <1>0, <1>1, <1>2, <1>3, <1>4, <1>5, <1>6 DEF Next, Environment
<1>8. disconnects' # disconnects + 1
  BY DEF RoomTypes
<1> QED BY <1>7, <1>8 DEF Retired

\* Of such a room, what was admitted has been heard, or is being heard.
LEMMA HearingInit == Init => ToldIsHeard
  BY DEF Init, ToldIsHeard

LEMMA HearingNext ==
  ASSUME HoldingInv, ToldIsHeard, [Next]_vars
  PROVE  ToldIsHeard'
<1> SUFFICES ASSUME disconnects' = 0, ~Retired' PROVE ToldIsHeard'
  BY DEF ToldIsHeard
<1>1. disconnects = 0 /\ ~Retired /\ goodbyes' \subseteq goodbyes
  BY DisconnectsCount DEF HoldingInv, SessionInv
<1>2. /\ goodbyes = {} /\ heard # "UserLeave"
      /\ \A c \in calls : c.kind # "UserLeave"
      /\ told = "None" \/ heard # "None" \/ ExecutorBusy
  BY <1>1 DEF ToldIsHeard
<1>3. goodbyes' = {} /\ ~DisconnectAdmits
  BY <1>1, <1>2 DEF DisconnectAdmits
<1>4. UNCHANGED <<told, calls, heard>> \/ ExecutorAdmits \/ CallEnds
  BY <1>3, Deliveries DEF HoldingInv, SessionInv, OutsideTypes
<1>5. CASE UNCHANGED <<told, calls, heard>>
  BY <1>2, <1>3, <1>5 DEF ToldIsHeard, ExecutorBusy
<1>6. CASE ExecutorAdmits
  <2>1. PICK kind \in Executors, ticket \in Ticket :
          calls' = calls \cup {[kind |-> kind, ticket |-> ticket]}
    BY <1>6 DEF ExecutorAdmits
  <2>2. PICK c : c = [kind |-> kind, ticket |-> ticket]
    OBVIOUS
  <2>3. calls' = calls \cup {c} /\ c.kind # "UserLeave"
    BY <2>1, <2>2 DEF Executors
  <2> QED BY <1>2, <1>3, <1>6, <2>3 DEF ToldIsHeard, ExecutorBusy, ExecutorAdmits
<1>7. CASE CallEnds
  <2>1. PICK c \in calls : calls' = calls \ {c} /\ heard' = c.kind
    BY <1>7 DEF CallEnds, ListenerCalled
  <2>2. c.kind \notin {"None", "UserLeave"}
    BY <1>2 DEF HoldingInv, OutsideTypes, ListenerCall
  <2> QED BY <1>2, <1>3, <2>1, <2>2 DEF ToldIsHeard
<1> QED BY <1>4, <1>5, <1>6, <1>7

\* Until somebody calls Disconnect or Retire, whatever was last admitted for the
\* listener is what it has last heard, or is being told to it by the executor.
THEOREM ListenersAreTold == Spec => []ToldIsHeard
  BY HearingInit, HearingNext, HoldingInvariant, PTL DEF Spec

LEMMA ServerNext ==
  ASSUME HoldingInv, CallsInOrder, ToldIsHeard, ServerInv, [Next]_vars
  PROVE  ServerInv'
<1>1. ListenerInv'
  BY ListenerNext DEF ServerInv
<1> SUFFICES ASSUME disconnects' = 0
             PROVE  RecoveriesUndisturbed' /\ LeaveAccounted'
  BY <1>1 DEF ServerInv
<1>0. disconnects = 0
  BY DisconnectsCount DEF ServerInv, ListenerInv, RecoveryInv, SessionInv
<1>2. CASE UNCHANGED vars
  <2>1. UNCHANGED <<connection_state, session_generation, installed, reconnect_active, rec, call,
                    told, ended, retire, reconnect_disabled, finalizers>>
    BY <1>2 DEF vars, roomVars, recoveryVars, noticeVars, userVars
  <2>2. LeaveAccounted'
    BY <2>1, <1>0 DEF ServerInv, LeaveAccounted, Retired
  <2>3. \A q \in Reconnects : Claims(q)' => Claims(q)
    BY <2>1, UnnoticedStep DEF NoSession, ServerInv, ListenerInv, RecoveryInv
  <2>4. ASSUME ~Retired', NEW p \in Reconnects
        PROVE  Announced(p)' => told' # "None"
    BY <2>1, <2>3, <2>4, <1>0, AnnouncedKept DEF Announced, Retired
  <2>5. ASSUME ~Retired', NEW p \in Reconnects, RestartWaits(p)'
        PROVE  RestartUndisturbed(p)'
    <3>1. RestartWaits(p)
      BY <2>1, <2>5 DEF RestartWaits
    <3> QED BY <2>1, <2>5, <3>1, <1>0, WaitKept DEF Retired
  <2> QED BY <2>2, <2>4, <2>5 DEF RecoveriesUndisturbed
<1>3. CASE Next
  BY <1>0, <1>3, ServerConnect, ServerReconnect, ServerHandlers, ServerOutside DEF Next
<1> QED BY <1>2, <1>3

\* Of a room nobody has called Disconnect on: a restart that waits to connect has
\* the room for itself, and a leave that was accepted has disabled recovery.
THEOREM ServerInvariant == Spec => []ServerInv
  BY ServerInit, ServerNext, HoldingInvariant, ListenerCalledInOrder, ListenersAreTold, PTL
  DEF Spec

\* After the server's LeaveRequest no recovery brings such a room back, whatever
\* attempts, closes and restarts the leave overtakes.
THEOREM LeavesAreFinal == Spec => ServerLeaveIsFinal
<1>1. ServerInv /\ [Next]_vars =>
        [disconnects' = 0 /\ ended = "server" /\ ended' = "server" =>
           \/ connection_state' \in {connection_state, "Disconnected"}
           \/ connection_state = "Connecting" /\ connection_state' = "Connected"]_vars
  <2> SUFFICES ASSUME ServerInv, Next, disconnects' = 0, ended = "server", ended' = "server"
               PROVE  \/ connection_state' \in {connection_state, "Disconnected"}
                      \/ connection_state = "Connecting" /\ connection_state' = "Connected"
    OBVIOUS
  <2> USE DEF roomVars
  <2>0. disconnects = 0
    BY DisconnectsCount DEF ServerInv, ListenerInv, RecoveryInv, SessionInv
  <2>1. reconnect_disabled
    BY <2>0 DEF ServerInv, LeaveAccounted
  <2>2. ASSUME NEW t \in Tasks, ConnectStep(t), ~ConnectStart(t)
        PROVE  \/ connection_state' \in {connection_state, "Disconnected"}
               \/ connection_state = "Connecting" /\ connection_state' = "Connected"
    BY <2>2 DEF ConnectStep, ConnectRefused, SignalJoined, JoinCommit, NativeCommit,
         ConnectCommit, ConnectReturn, ConnectThrows, ConnectRollback
  <2>3. ASSUME NEW t \in Tasks
        PROVE  ~ConnectStart(t)
    <3> SUFFICES ASSUME ConnectStart(t) PROVE FALSE
      OBVIOUS
    <3>1. t \in Reconnects /\ ~Retired /\ call[t].pc = "ready"
      BY DEF ConnectStart, ConnectAdmitted, Calls, Tasks
    <3>2. RestartWaits(t)
      BY <3>1 DEF ServerInv, ListenerInv, RecoveryInv, SessionInv, NestedCallAwaited, RestartWaits
    <3> QED BY <2>0, <3>1, <3>2, WaitingRoom DEF RestartUndisturbed
  <2>4. ASSUME NEW r \in Reconnects, ReconnectStep(r)
        PROVE  connection_state' \in {connection_state, "Disconnected"}
    BY <2>1, <2>4 DEF ReconnectStep, AnnounceReconnecting, ReconnectBegins, NextAttempt,
         AttemptsExhausted, DelayOver, ResumeBegins, SignalRestarts, SyncStateSent,
         ResumeCommit, ResumeThrows, FullRestartTeardown, RestartConnects,
         RestartConnected, Republished, RestartCommit, RestartThrows, RestartFailed,
         GiveUpBegins, GiveUp, AnnounceOutcome, StopIf, recFrameOnly
  <2>5. HandlersStep \/ TeardownEnds \/ ListenerRuns => connection_state' \in {connection_state, "Disconnected"}
    BY <2>1 DEF HandlersStep, HandlerStep, DropStaleEvent, CloseStartsReconnect,
         CloseFailsConnect, CloseElsewhere, CloseDisconnects, BeginServerDisconnect,
         IgnoreLeave, FinalizeServerDisconnect, DeliverDisconnected, LeavePending,
         TeardownEnds, CloseDetached, ListenerRuns, ListenerCalled
  <2>6. Environment \/ RetireDisconnects \/ RetireDrained =>
          connection_state' \in {connection_state, "Disconnected"}
    BY DEF Environment, Disconnect, TearDownForUser, TransportCloses, ServerSendsLeave,
           RetireBegins, RetireDisconnects, RetireDrained, vars
  <2> QED BY <2>2, <2>3, <2>4, <2>5, <2>6 DEF Next
<1> QED BY <1>1, ServerInvariant, PTL DEF Spec, ServerLeaveIsFinal

=============================================================================
