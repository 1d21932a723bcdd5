---------------------------- MODULE SignalClient ----------------------------
(* The signal connection of a session (signal_client.cpp) and the resume   *)
(* that the room runs over it (Room::AttemptReconnect).  The client owns   *)
(* one stream; requests made while it is being replaced are queued, and    *)
(* events that come before the room has sent its SyncState are buffered.   *)
(*                                                                         *)
(* One thread runs the coroutines, the handlers and the requests of the    *)
(* room: each action is what it does between two suspensions.  The native  *)
(* signaling thread sends ICE candidates through the same client.  A link  *)
(* is one WebSocket; links are numbered, and what was spawned for an older *)
(* one is lost.  A full restart makes a new client: the session of this    *)
(* one has then "Ended", as after Disconnect.                              *)
(***************************************************************************)
EXTENDS Naturals, Sequences

CONSTANTS MaxRequests,    \* bound: requests of the room that may be queued
          MaxEvents,      \* bound: events of the server
          MaxFaults,      \* bound: links that die
          MaxCandidates   \* bound: ICE candidates sent

ASSUME SignalAssumption ==
  /\ MaxRequests \in Nat /\ MaxEvents \in Nat
  /\ MaxFaults \in Nat /\ MaxCandidates \in Nat

VARIABLES
  room,          \* "Connected", "Reconnecting", or "Ended" for this client
  resume,        \* where AttemptReconnect is
  reconnecting,  \* reconnecting_
  eventReady,    \* event_ready_
  heartbeat,     \* a HeartbeatLoop of the current generation runs
  link,          \* the WebSocket: number, state, and whether stream_ is it
  waited,        \* wait_state of ReconnectInternal
  queue,         \* queued_requests_
  spawned,       \* requests handed to coroutines, with the link they use
  buffered,      \* buffered_events_
  native,        \* the signaling thread in Send
  stuck,         \* the I/O thread waits for a mutex nobody will release
  inbox,         \* what has arrived on the link
  wire,          \* history: the requests the server has got
  received,      \* history: the events the client has got
  delivered,     \* history: the events the room has got
  ignored,       \* history: a Close of the new stream came while Reconnecting
  requested, emitted, faults, candidates   \* what the bounds count

clientVars == <<reconnecting, eventReady, heartbeat>>
eventVars == <<buffered, received, delivered>>
budgetVars == <<requested, emitted, faults, candidates>>
vars == <<room, resume, clientVars, link, waited, queue, spawned, eventVars,
          native, stuck, inbox, wire, ignored, budgetVars>>

NoLink == [number |-> 0, state |-> "none", held |-> FALSE]
IsConnected == link.state \in {"open", "silent", "reset"}
StreamConnected == link.held /\ IsConnected
Closed == room = "Ended"

\* Restart closes the old stream with stream_mutex_ held.
StreamLocked == resume = "closing"
QueueMutexFree == native # "holding"

Init ==
  /\ room = "Connected" /\ resume = "idle"
  /\ reconnecting = FALSE /\ eventReady = TRUE /\ heartbeat = TRUE
  /\ link = [number |-> 1, state |-> "open", held |-> TRUE]
  /\ waited = "none"
  /\ queue = <<>> /\ spawned = <<>>
  /\ buffered = <<>> /\ received = <<>> /\ delivered = <<>>
  /\ native = "idle" /\ stuck = FALSE
  /\ inbox = <<>> /\ wire = <<>>
  /\ ignored = FALSE
  /\ requested = 0 /\ emitted = 0 /\ faults = 0 /\ candidates = 0

-----------------------------------------------------------------------------
(* Requests.                                                               *)

OnLink(requests) == [i \in 1 .. Len(requests) |->
                       [request |-> requests[i], link |-> link.number]]

\* Faulty variant: the queue is not cleared once its requests are spawned.
FlushKeeping(connected) ==
  /\ spawned' = IF connected THEN spawned \o OnLink(queue) ELSE spawned
  /\ UNCHANGED queue

\* Faulty variant: nothing is flushed, the next request will see to it.
FlushLater(connected) == UNCHANGED <<queue, spawned>>

\* FlushQueue, with connected the state of the stream it finds.
FlushQueue(connected) ==
  IF connected
  THEN /\ spawned' = spawned \o OnLink(queue)
       /\ queue' = <<>>
  ELSE UNCHANGED <<queue, spawned>>

\* Send of a request that may be queued.  It waits for queue_mutex_: in vain when
\* the signaling thread holds it and waits for the mutex of Restart.
Send ==
  /\ ~stuck /\ ~Closed /\ requested < MaxRequests
  /\ QueueMutexFree \/ StreamLocked
  /\ IF ~QueueMutexFree
     THEN /\ stuck' = TRUE
          /\ UNCHANGED <<queue, spawned, requested>>
     ELSE /\ requested' = requested + 1
          /\ IF ~reconnecting /\ StreamConnected
             THEN /\ spawned' = spawned \o OnLink(Append(queue, requested'))
                  /\ queue' = <<>>
             ELSE /\ queue' = Append(queue, requested')
                  /\ UNCHANGED spawned
          /\ UNCHANGED stuck
  /\ UNCHANGED <<room, resume, clientVars, link, waited, eventVars, native, inbox,
                 wire, ignored, emitted, faults, candidates>>

\* A coroutine spawned by Send or FlushQueue writes its frame.  Nothing fails
\* when the stream is gone: the frame stays in the write queue of a socket
\* that will write no more.
StreamSend ==
  /\ ~stuck /\ spawned # <<>>
  /\ spawned' = Tail(spawned)
  /\ wire' = IF link.state = "open" /\ Head(spawned).link = link.number
             THEN Append(wire, Head(spawned).request) ELSE wire
  /\ UNCHANGED <<room, resume, clientVars, link, waited, queue, eventVars, native,
                 stuck, inbox, ignored, budgetVars>>

\* SendAsync of another coroutine (an offer, a publication, a subscription)
\* asks for the mutex the suspended Restart holds, on the same thread.
SendAsync ==
  /\ ~stuck /\ StreamLocked
  /\ stuck' = TRUE
  /\ UNCHANGED <<room, resume, clientVars, link, waited, queue, spawned, eventVars,
                 native, inbox, wire, ignored, budgetVars>>

\* The signaling thread sends a candidate: it reads reconnecting_ ...
SendTrickle ==
  /\ native = "idle" /\ candidates < MaxCandidates /\ ~Closed /\ ~reconnecting
  /\ native' = "flushing" /\ candidates' = candidates + 1
  /\ UNCHANGED <<room, resume, clientVars, link, waited, queue, spawned, eventVars,
                 stuck, inbox, wire, ignored, requested, emitted, faults>>

\* ... and flushes the queue, keeping queue_mutex_ while it waits for the stream.
NativeFlush ==
  /\ \/ /\ native = "flushing" /\ StreamLocked /\ queue # <<>>
        /\ native' = "holding"
        /\ UNCHANGED <<queue, spawned>>
     \/ /\ native \in {"flushing", "holding"} /\ (StreamLocked => queue = <<>>)
        /\ native' = "idle"
        /\ FlushQueue(StreamConnected)
  /\ UNCHANGED <<room, resume, clientVars, link, waited, eventVars, stuck, inbox,
                 wire, ignored, budgetVars>>

-----------------------------------------------------------------------------
(* Closing, as the room hears of it.                                       *)

\* HandleClose, and the handler of the room: a Close starts a recovery when
\* the room is Connected and is ignored when it is Reconnecting.
HandleClose ==
  /\ heartbeat' = FALSE
  /\ IF room = "Connected"
     THEN /\ room' = "Reconnecting" /\ resume' = "delay"
          /\ UNCHANGED ignored
     ELSE /\ ignored' = (ignored \/ resume \in {"handshake", "syncing", "negotiating", "media"})
          /\ UNCHANGED <<room, resume>>

\* The read loop or the write loop meets an error.  One that Close of the
\* socket itself causes is not reported.
NoticeError ==
  /\ ~stuck /\ link.state \in {"silent", "reset"}
  /\ link' = [link EXCEPT !.state = "down"]
  /\ inbox' = <<>>
  /\ CASE StreamLocked -> UNCHANGED <<room, resume, heartbeat, ignored, waited>>
       [] ~StreamLocked /\ ~link.held ->
            /\ waited' = IF waited = "none" THEN "closed" ELSE waited
            /\ UNCHANGED <<room, resume, heartbeat, ignored>>
       [] OTHER -> HandleClose /\ UNCHANGED waited
  /\ UNCHANGED <<reconnecting, eventReady, queue, spawned, eventVars, native, stuck,
                 wire, budgetVars>>

\* The heartbeat gives up when nothing has come for the ping timeout.  Its ping
\* also flushes the queue, which is empty then (QueuedOnlyWhileDown).
PingTimeout ==
  /\ ~stuck /\ heartbeat /\ link.state # "open" /\ inbox = <<>>
  /\ HandleClose
  /\ UNCHANGED <<reconnecting, eventReady, link, waited, queue, spawned, eventVars,
                 native, stuck, inbox, wire, budgetVars>>

\* The session of this client ends: Disconnect, or the teardown of a full
\* restart.  Close waits for the stream mutex; a link that the coroutine of a
\* resume still holds stays with it.
Close ==
  /\ room' = "Ended"
  /\ heartbeat' = FALSE
  /\ link' = IF link.held THEN NoLink ELSE link

Disconnect ==
  /\ ~Closed /\ ~StreamLocked
  /\ Close
  /\ inbox' = IF link.held THEN <<>> ELSE inbox
  /\ resume' = IF resume = "delay" THEN "idle" ELSE resume
  /\ UNCHANGED <<reconnecting, eventReady, waited, queue, spawned, eventVars, native,
                 stuck, wire, ignored, budgetVars>>

-----------------------------------------------------------------------------
(* The server and the network.                                             *)

Answers == {"reconnect", "leave", "answer"}
Underway(kind) == \E i \in DOMAIN inbox : inbox[i].kind = kind

LinkDies(how) ==
  /\ link.state = "open" /\ faults < MaxFaults
  /\ link' = [link EXCEPT !.state = how]
  /\ faults' = faults + 1
  /\ UNCHANGED <<room, resume, clientVars, waited, queue, spawned, eventVars, native,
                 stuck, inbox, wire, ignored, requested, emitted, candidates>>

ServerSends(kind, event) ==
  /\ inbox' = Append(inbox, [kind |-> kind, event |-> event])
  /\ UNCHANGED <<room, resume, clientVars, link, waited, queue, spawned, eventVars,
                 native, stuck, wire, ignored, requested, faults, candidates>>

\* An update, once the server has accepted the link.
ServerEvent ==
  /\ link.state = "open" /\ emitted < MaxEvents
  /\ link.held \/ waited = "reconnect" \/ Underway("reconnect")
  /\ emitted' = emitted + 1
  /\ ServerSends("event", emitted')

\* The answer to a reconnection, and to the offer of the resume.
ServerAnswer(kind) ==
  /\ link.state = "open" /\ \A k \in Answers : ~Underway(k)
  /\ \/ resume = "waiting" /\ waited = "none" /\ kind \in {"reconnect", "leave"}
     \/ resume = "negotiating" /\ kind = "answer"
  /\ ServerSends(kind, 0)
  /\ UNCHANGED emitted

-----------------------------------------------------------------------------
(* Incoming messages.                                                      *)

\* Faulty variant: event_ready_ is not looked at.
HandleAtOnce(event) ==
  delivered' = Append(delivered, event) /\ UNCHANGED buffered

\* HandleIncomingMessage for an event of the room.
HandleIncomingMessage(event) ==
  IF eventReady
  THEN delivered' = Append(delivered, event) /\ UNCHANGED buffered
  ELSE buffered' = Append(buffered, event) /\ UNCHANGED delivered

\* The handler of ReconnectInternal, for what is not the answer.
BufferEvent(event) ==
  /\ buffered' = IF eventReady THEN buffered ELSE Append(buffered, event)
  /\ UNCHANGED delivered

Receive ==
  /\ ~stuck /\ inbox # <<>> /\ IsConnected
  /\ inbox' = Tail(inbox)
  /\ LET message == Head(inbox)
     IN  CASE message.kind = "event" /\ ~(link.held /\ Closed) ->
                /\ received' = Append(received, message.event)
                /\ IF link.held THEN HandleIncomingMessage(message.event)
                   ELSE BufferEvent(message.event)
                /\ UNCHANGED <<waited, resume>>
           [] message.kind \in {"reconnect", "leave"} ->
                /\ waited' = message.kind
                /\ UNCHANGED <<eventVars, resume>>
           [] message.kind = "answer" ->
                /\ resume' = IF resume = "negotiating" THEN "media" ELSE resume
                /\ UNCHANGED <<eventVars, waited>>
           [] OTHER -> UNCHANGED <<eventVars, waited, resume>>
  /\ UNCHANGED <<room, clientVars, link, queue, spawned, native, stuck, wire, ignored,
                 budgetVars>>

-----------------------------------------------------------------------------
(* The resume.                                                             *)

\* The coroutine ends without a connection: the stream it holds goes, and a
\* full restart closes this client.
ResumeFails ==
  /\ resume' = "idle"
  /\ room' = "Ended" /\ heartbeat' = FALSE
  /\ link' = NoLink /\ inbox' = <<>>

\* Restart, after the delay of the attempt.  The stream is closed with the
\* mutex held; the coroutine is suspended when there is a frame to send.
Restart ==
  /\ ~stuck /\ resume = "delay"
  /\ reconnecting' = TRUE /\ eventReady' = FALSE /\ heartbeat' = FALSE
  /\ ignored' = FALSE /\ waited' = "none"
  /\ IF IsConnected
     THEN resume' = "closing" /\ UNCHANGED <<link, inbox>>
     ELSE /\ resume' = "connecting"
          /\ link' = [link EXCEPT !.state = "none", !.held = FALSE]
          /\ inbox' = <<>>
  /\ UNCHANGED <<room, queue, spawned, eventVars, native, stuck, wire, budgetVars>>

StreamClosed ==
  /\ ~stuck /\ StreamLocked
  /\ resume' = "connecting"
  /\ link' = [link EXCEPT !.state = "none", !.held = FALSE]
  /\ inbox' = <<>>
  /\ UNCHANGED <<room, clientVars, waited, queue, spawned, eventVars, native, stuck,
                 wire, ignored, budgetVars>>

\* SignalStream::Connect.
Connected ==
  /\ ~stuck /\ resume = "connecting"
  /\ resume' = "waiting"
  /\ link' = [number |-> link.number + 1, state |-> "open", held |-> FALSE]
  /\ UNCHANGED <<room, clientVars, waited, queue, spawned, eventVars, native, stuck,
                 inbox, wire, ignored, budgetVars>>

\* Faulty variant: the heartbeat is not started again.
StreamReplacedUnwatched ==
  /\ ~stuck /\ resume = "waiting" /\ waited = "reconnect"
  /\ resume' = "handshake"
  /\ link' = [link EXCEPT !.held = TRUE]
  /\ UNCHANGED <<room, clientVars, waited, queue, spawned, eventVars, native, stuck,
                 inbox, wire, ignored, budgetVars>>

\* The new stream replaces the old one.  Closed clients take it as well, and
\* let it go when the coroutine that holds them ends.
StreamReplaced ==
  /\ ~stuck /\ resume = "waiting" /\ waited = "reconnect"
  /\ resume' = "handshake"
  /\ link' = [link EXCEPT !.held = TRUE]
  /\ heartbeat' = ~Closed
  /\ UNCHANGED <<room, reconnecting, eventReady, waited, queue, spawned, eventVars,
                 native, stuck, inbox, wire, ignored, budgetVars>>

\* Media has been asked to get ready, or has not in 250 ms.  SyncState is sent
\* when this is still the session and its stream is connected.
SendSyncState ==
  /\ ~stuck /\ resume = "handshake" /\ ~Closed /\ StreamConnected
  /\ resume' = "syncing"
  /\ UNCHANGED <<room, clientVars, link, waited, queue, spawned, eventVars, native,
                 stuck, inbox, wire, ignored, budgetVars>>

\* SetReconnected and SetEventReady, then RestartIceConnections sends an offer.
SyncStateSent ==
  /\ ~stuck /\ resume = "syncing" /\ ~Closed /\ QueueMutexFree
  /\ resume' = "negotiating"
  /\ reconnecting' = FALSE /\ eventReady' = TRUE
  /\ FlushQueue(StreamConnected)
  /\ delivered' = delivered \o buffered
  /\ buffered' = <<>>
  /\ UNCHANGED <<room, heartbeat, link, waited, received, native, stuck, inbox, wire,
                 ignored, budgetVars>>

\* Faulty variant: the commit does not look at the session either.
ResumeCommitsAnyway ==
  /\ ~stuck /\ resume = "media"
  /\ room' = "Connected" /\ resume' = "idle"
  /\ UNCHANGED <<clientVars, link, waited, queue, spawned, eventVars, native, stuck,
                 inbox, wire, ignored, budgetVars>>

\* The commit looks at the session and not at the signal.
ResumeCommits ==
  /\ ~stuck /\ resume = "media" /\ ~Closed
  /\ room' = "Connected" /\ resume' = "idle"
  /\ UNCHANGED <<clientVars, link, waited, queue, spawned, eventVars, native, stuck,
                 inbox, wire, ignored, budgetVars>>

\* A refusal, a closed or replaced stream, a timeout, a session that has ended.
ResumeStepFails ==
  /\ ~stuck
  /\ CASE resume = "connecting" -> TRUE
       [] resume = "waiting" -> waited # "reconnect"
       [] resume = "handshake" -> Closed \/ ~StreamConnected
       [] resume = "syncing" -> Closed
       [] resume \in {"negotiating", "media"} -> TRUE
       [] OTHER -> FALSE
  /\ ResumeFails
  /\ UNCHANGED <<reconnecting, eventReady, waited, queue, spawned, eventVars, native,
                 stuck, wire, ignored, budgetVars>>

-----------------------------------------------------------------------------
ResumeStep ==
  \/ Restart \/ StreamClosed \/ Connected \/ StreamReplaced
  \/ SendSyncState \/ SyncStateSent \/ ResumeCommits \/ ResumeStepFails

Next ==
  \/ Send \/ StreamSend \/ SendAsync \/ SendTrickle \/ NativeFlush
  \/ NoticeError \/ PingTimeout \/ Disconnect
  \/ \E how \in {"silent", "reset"} : LinkDies(how)
  \/ ServerEvent \/ \E kind \in Answers : ServerAnswer(kind)
  \/ Receive
  \/ ResumeStep

Spec == Init /\ [][Next]_vars

\* The I/O thread runs what is ready.  A reset connection is noticed, a silent
\* one only by the heartbeat; every wait of the resume has a timeout.
Fairness ==
  /\ WF_vars(StreamSend) /\ WF_vars(Receive) /\ WF_vars(NativeFlush)
  /\ WF_vars(link.state = "reset" /\ NoticeError)
  /\ WF_vars(PingTimeout)
  /\ WF_vars(ResumeStep)

FairSpec == Spec /\ Fairness

-----------------------------------------------------------------------------
(* Properties.                                                             *)

\* Types of all variables; a Connected room has the stream and no resume.
TypeOK ==
  /\ room = "Connected" => link.held /\ resume = "idle"
  /\ room \in {"Connected", "Reconnecting", "Ended"}
  /\ resume \in {"idle", "delay", "closing", "connecting", "waiting", "handshake",
                 "syncing", "negotiating", "media"}
  /\ reconnecting \in BOOLEAN /\ eventReady \in BOOLEAN /\ heartbeat \in BOOLEAN
  /\ link \in [number : Nat, state : {"none", "open", "silent", "reset", "down"},
               held : BOOLEAN]
  /\ waited \in {"none", "reconnect", "leave", "closed"}
  /\ queue \in Seq(Nat)
  /\ spawned \in Seq([request : Nat, link : Nat])
  /\ buffered \in Seq(Nat) /\ received \in Seq(Nat) /\ delivered \in Seq(Nat)
  /\ native \in {"idle", "flushing", "holding"}
  /\ stuck \in BOOLEAN /\ ignored \in BOOLEAN
  /\ inbox \in Seq([kind : {"event"} \cup Answers, event : Nat])
  /\ wire \in Seq(Nat)
  /\ requested \in Nat /\ emitted \in Nat /\ faults \in Nat /\ candidates \in Nat

\* Requests reach the server in the order in which the room made them and none
\* twice, whatever was queued, flushed by whom, and sent meanwhile.
RequestsInOrder ==
  LET handed == [i \in DOMAIN spawned |-> spawned[i].request]
      all == wire \o handed \o queue
  IN  \A i, j \in DOMAIN all : i < j => all[i] < all[j]

\* A request waits in the queue only while there is no connection it could be
\* sent over, or while that connection has not got its SyncState.  It would wait
\* for the next request otherwise.
QueuedOnlyWhileDown ==
  queue # <<>> => reconnecting \/ ~StreamConnected \/ Closed

\* The room gets every event the client got, once and in the order of the
\* server, and none between Restart and the SyncState of the new stream.
EventsInOrder ==
  [][/\ received' = delivered' \o buffered'
     /\ delivered' # delivered => ~reconnecting']_vars

\* The link under a Connected room that has died is noticed, unless its Close
\* came during the resume that installed it.
DeathIsNoticed ==
  (room = "Connected" /\ link.state # "open") ~> (room # "Connected" \/ ignored)

\* A room whose signal connection has died leaves Connected.
DeadSignalIsNoticed ==
  (room = "Connected" /\ link.state # "open") ~> (room # "Connected")

=============================================================================
