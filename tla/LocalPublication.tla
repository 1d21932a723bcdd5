------------------------- MODULE LocalPublication -------------------------
(* The local publications of room.cpp: the transactions that publish and   *)
(* unpublish a track, the negotiation of the publisher connection that     *)
(* they share, and what a resume or a full restart does with them.         *)
(*                                                                         *)
(* A transaction is a coroutine of the room's executor with an await       *)
(* between any two of its stages; every action but the signaling thread's  *)
(* is one turn of the executor.  A sender, and the publication made of it, *)
(* has the number of the transaction that installed it.  The server acts   *)
(* on a message when it is sent, and its answer travels: a broken link     *)
(* loses it, as it would lose the message.  An unanswered offer is the     *)
(* only one, since the connection is not stable before the answer.         *)
(*                                                                         *)
(* The application does not publish a track that it is publishing or has   *)
(* published.  Any wait may time out at any moment.                        *)
(***************************************************************************)
EXTENDS Naturals, Sequences, FiniteSets

CONSTANTS Tracks,
          SinglePC,        \* one peer connection for both directions
          MaxAttempts,     \* kMaxReconnectAttempts (5)
          MaxPublishes,    \* bound: publications by the application
          MaxUnpublishes,  \* bound: removals by the application
          MaxFaults        \* bound: broken links, failed offers, refused answers

ASSUME PublicationAssumption ==
  /\ SinglePC \in BOOLEAN /\ MaxAttempts \in Nat \ {0}
  /\ MaxPublishes \in Nat /\ MaxUnpublishes \in Nat /\ MaxFaults \in Nat

VARIABLES
  room,          \* connection_state_
  driver,        \* where AttemptReconnect waits
  active,        \* reconnect_active_
  full,          \* full_restart
  attempts,      \* attempts of the running AttemptReconnect
  generation,    \* session_generation_
  link,          \* the stream of the signal client
  closing,       \* its Close event is on the way to the room
  ops,           \* the transactions, in the order they began
  published,     \* publications of local_participant_
  unpublishing,  \* pending_local_unpublishes_
  records,       \* published_track_records_
  queue,         \* records a full restart has still to publish
  tasks,         \* posted to the signaling thread, by transaction
  senders,       \* senders of publisher_pc_
  answered,      \* senders in the last answer applied
  signaling,     \* signaling state of publisher_pc_
  creating,      \* CreateOffer is running
  offer,         \* the senders in the offer that SetLocalDescription is given
  negotiation,   \* negotiation_state_
  waiters,       \* negotiation_waiters_
  timer,         \* the 50 ms retry timer
  acks,          \* TrackPublished messages in flight
  answer,        \* the answer in flight
  missed,        \* history: what the last failed offer left the server without
  faults

recoveryVars == <<room, driver, active, full, attempts, generation>>
linkVars == <<link, closing, acks, answer>>
bookVars == <<published, unpublishing, records, queue>>
pcVars == <<senders, answered, signaling, creating, offer, tasks>>
negotiationVars == <<negotiation, waiters, timer>>
vars == <<recoveryVars, linkVars, ops, bookVars, pcVars, negotiationVars, missed, faults>>

Resume == 0          \* the waiter of RestartIceConnections
None == {Resume}    \* no offer, no answer: neither holds Resume

Ids == DOMAIN ops
Current(n) == ops[n].gen = generation
At(n, stage) == ops[n].stage = stage
Ended(n) == ops[n].stage \in {"done", "failed", "uncertain"}
TracksOf(ids) == {ops[p].track : p \in ids}
Count(kind) == Cardinality({n \in Ids : ops[n].kind = kind})

Operation(kind, track, of, stage) ==
  [kind |-> kind, track |-> track, of |-> of, stage |-> stage,
   gen |-> generation, removed |-> FALSE, calm |-> ~active]
MoveAll(ids, stage) ==
  ops' = [n \in Ids |-> IF n \in ids THEN [ops[n] EXCEPT !.stage = stage] ELSE ops[n]]
Move(n, stage) == MoveAll({n}, stage)

Init ==
  /\ room = "Connected" /\ driver = "idle" /\ active = FALSE /\ full = FALSE
  /\ attempts = 0 /\ generation = 1
  /\ link = "open" /\ closing = FALSE /\ acks = {} /\ answer = None
  /\ ops = <<>>
  /\ published = {} /\ unpublishing = {} /\ records = {} /\ queue = {}
  /\ senders = {} /\ answered = {} /\ signaling = "stable"
  /\ creating = FALSE /\ offer = None /\ tasks = <<>>
  /\ negotiation = "Idle" /\ waiters = {} /\ timer = FALSE
  /\ missed = {} /\ faults = 0

-----------------------------------------------------------------------------
(* Negotiation.                                                            *)

\* ExecuteNegotiatePublisher: an offer, or a retry later when the
\* connection still waits for an answer.
Execute(state) ==
  IF state = "stable"
  THEN negotiation' = "InProgress" /\ creating' = TRUE /\ UNCHANGED timer
  ELSE negotiation' = "PendingRetry" /\ timer' = TRUE /\ UNCHANGED creating

\* Faulty variant: a request during a round is taken to be part of it.
NegotiateOnce(new) ==
  /\ waiters' = waiters \cup new
  /\ IF negotiation = "Idle" THEN Execute(signaling)
     ELSE UNCHANGED <<negotiation, creating, timer>>

\* NegotiatePublisherAsync: a request during a round asks for another.
Negotiate(new) ==
  /\ waiters' = waiters \cup new
  /\ IF negotiation = "Idle" THEN Execute(signaling)
     ELSE negotiation' = "PendingRetry" /\ UNCHANGED <<creating, timer>>

\* CompleteNegotiation: every waiter goes on, the recovery included.
Complete(stage) ==
  /\ MoveAll(waiters, stage)
  /\ driver' = IF Resume \notin waiters THEN driver
               ELSE IF stage = "negotiated" THEN "resumed" ELSE "restarting"
  /\ waiters' = {}

\* The offer has the senders of this moment, not those that are added
\* before it is sent.
CreateOffer ==
  /\ creating
  /\ creating' = FALSE /\ offer' = senders /\ missed' = {}
  /\ UNCHANGED <<recoveryVars, linkVars, ops, bookVars, senders, answered, signaling,
                 tasks, negotiationVars, faults>>

\* Senders that the server still has without the connection, or lacks.
Differing == (senders \ answered) \cup (answered \ senders)

\* OnNegotiationFailed: the waiters fail, and no round is left for what they
\* and a rollback that waits for nothing have changed.
OnNegotiationFailed ==
  /\ faults < MaxFaults
  /\ faults' = faults + 1
  /\ Complete("failing") /\ negotiation' = "Idle"
  /\ missed' = Differing

\* CreateOffer calls back with an error.
OfferFails ==
  /\ creating
  /\ creating' = FALSE
  /\ OnNegotiationFailed
  /\ UNCHANGED <<room, active, full, attempts, generation, linkVars, bookVars,
                 senders, answered, signaling, offer, tasks, timer>>

\* SetLocalDescription calls back with an error: the connection is stable.
SetLocalFails ==
  /\ offer # None
  /\ offer' = None
  /\ OnNegotiationFailed
  /\ UNCHANGED <<room, active, full, attempts, generation, linkVars, bookVars,
                 senders, answered, signaling, creating, tasks, timer>>

\* SetLocalDescription and the send: the connection waits for an answer
\* even when the send fails.
SendOffer ==
  /\ offer # None
  /\ offer' = None /\ signaling' = "offer"
  /\ IF link = "open"
     THEN answer' = offer /\ UNCHANGED <<ops, driver, waiters, negotiation>>
     ELSE Complete("failing") /\ negotiation' = "Idle" /\ UNCHANGED answer
  /\ UNCHANGED <<room, active, full, attempts, generation, link, closing, acks,
                 bookVars, senders, answered, creating, tasks, timer, missed, faults>>

\* Faulty variant: the round that was asked for is not begun.
ApplyAnswerOnce ==
  /\ answer # None
  /\ answer' = None
  /\ answered' = answer /\ signaling' = "stable"
  /\ IF negotiation = "PendingRetry"
     THEN UNCHANGED <<ops, driver, waiters, negotiation>>
     ELSE Complete("negotiated") /\ negotiation' = "Idle"
  /\ UNCHANGED <<room, active, full, attempts, generation, link, closing, acks,
                 bookVars, senders, creating, offer, tasks, timer, missed, faults>>

\* HandleAnswerSignal: another round when one was asked for.
ApplyAnswer ==
  /\ answer # None
  /\ answer' = None
  /\ answered' = answer /\ signaling' = "stable"
  /\ IF negotiation = "PendingRetry"
     THEN Execute("stable") /\ UNCHANGED <<ops, driver, waiters>>
     ELSE Complete("negotiated") /\ negotiation' = "Idle" /\ UNCHANGED <<creating, timer>>
  /\ UNCHANGED <<room, active, full, attempts, generation, link, closing, acks,
                 bookVars, senders, offer, tasks, missed, faults>>

\* SetRemoteDescription fails: with two connections a round that was asked
\* for begins all the same.
RefuseAnswer ==
  /\ answer # None
  /\ faults < MaxFaults
  /\ faults' = faults + 1
  /\ answer' = None
  /\ Complete("failing")
  /\ IF ~SinglePC /\ negotiation = "PendingRetry"
     THEN Execute(signaling)
     ELSE negotiation' = "Idle" /\ UNCHANGED <<creating, timer>>
  /\ UNCHANGED <<room, active, full, attempts, generation, link, closing, acks,
                 bookVars, senders, answered, signaling, offer, tasks, missed>>

RetryTimer ==
  /\ timer
  /\ IF negotiation = "PendingRetry"
     THEN Execute(signaling)
     ELSE timer' = FALSE /\ UNCHANGED <<negotiation, creating>>
  /\ UNCHANGED <<recoveryVars, linkVars, ops, bookVars, senders, answered, signaling,
                 offer, tasks, waiters, missed, faults>>

-----------------------------------------------------------------------------
(* Publishing: PublishLocalTrackAsync.                                     *)

\* Up to the send: a transaction that cannot send ends before it began.
PublishTrack(kind, t) ==
  LET n == Len(ops) + 1
      sent == link = "open"
  IN  /\ ops' = Append(ops, Operation(kind, t, n, IF sent THEN "acking" ELSE "refused"))
      /\ acks' = IF sent THEN acks \cup {n} ELSE acks

Publish(t) ==
  /\ room = "Connected"
  /\ Count("publish") < MaxPublishes
  /\ t \notin TracksOf(published) \cup queue
  /\ \A n \in Ids : ops[n].track = t => Ended(n)
  /\ PublishTrack("publish", t)
  /\ UNCHANGED <<recoveryVars, link, closing, answer, bookVars, pcVars,
                 negotiationVars, missed, faults>>

\* TrackPublished is matched by the cid of the track.
Acknowledge(n) ==
  /\ n \in acks
  /\ acks' = acks \ {n}
  /\ MoveAll({m \in Ids : At(m, "acking") /\ ops[m].track = ops[n].track}, "acked")
  /\ UNCHANGED <<recoveryVars, link, closing, answer, bookVars, pcVars,
                 negotiationVars, missed, faults>>

\* AddTrackToPublisherAsync, to the task of the signaling thread.
PostInstall(n) ==
  /\ At(n, "acked")
  /\ IF Current(n) /\ room = "Connected"
     THEN Move(n, "installing") /\ tasks' = Append(tasks, n)
     ELSE Move(n, "failing") /\ UNCHANGED tasks
  /\ UNCHANGED <<recoveryVars, linkVars, bookVars, senders, answered, signaling, creating, offer,
                 negotiationVars, missed, faults>>

\* The task.  One that finds the transaction timed out takes back what it
\* has done, and changes nothing.
Install(n) ==
  /\ tasks # <<>> /\ n = Head(tasks) /\ ops[n].kind # "unpublish"
  /\ tasks' = Tail(tasks)
  /\ IF ~At(n, "installing") THEN UNCHANGED <<ops, senders>>
     ELSE IF Current(n)
     THEN Move(n, "installed") /\ senders' = senders \cup {n}
     ELSE Move(n, "failing") /\ UNCHANGED senders
  /\ UNCHANGED <<recoveryVars, linkVars, bookVars, answered, signaling, creating, offer,
                 negotiationVars, missed, faults>>

NegotiateTrack(n) ==
  /\ At(n, "installed")
  /\ IF Current(n)
     THEN Move(n, "negotiating") /\ Negotiate({n})
     ELSE Move(n, "failing") /\ UNCHANGED <<negotiationVars, creating>>
  /\ UNCHANGED <<recoveryVars, linkVars, bookVars, senders, answered, signaling,
                 offer, tasks, missed, faults>>

\* The commit does not ask for a connected room.
CommitPublish(n) ==
  /\ At(n, "negotiated") /\ ops[n].kind # "unpublish"
  /\ IF Current(n)
     THEN /\ ops' = [ops EXCEPT ![n].stage = "done", ![n].calm = ~active]
          /\ published' = published \cup {n}
     ELSE Move(n, "failing") /\ UNCHANGED published
  /\ UNCHANGED <<recoveryVars, linkVars, unpublishing, records, queue, pcVars,
                 negotiationVars, missed, faults>>

\* A publication that fails during a full restart fails the attempt.
AttemptFails ==
  /\ driver' = "backoff"
  /\ room' = "Reconnecting"

\* Faulty variant: the server is left with what it has.
RollBackLocally(n) ==
  /\ ops[n].stage \in {"refused", "failing"} /\ ops[n].kind # "unpublish"
  /\ Move(n, "failed")
  /\ senders' = senders \ {n}
  /\ IF ops[n].kind = "republish" THEN AttemptFails ELSE UNCHANGED <<room, driver>>
  /\ UNCHANGED <<active, full, attempts, generation, linkVars, bookVars, answered,
                 signaling, creating, offer, tasks, negotiationVars, missed, faults>>

\* Faulty variant: the sender stays.
RollBackKeepsSender(n) ==
  /\ ops[n].stage \in {"refused", "failing"} /\ ops[n].kind # "unpublish"
  /\ Move(n, "failed")
  /\ IF At(n, "failing") /\ Current(n)
     THEN Negotiate({})
     ELSE UNCHANGED <<negotiationVars, creating>>
  /\ IF ops[n].kind = "republish" THEN AttemptFails ELSE UNCHANGED <<room, driver>>
  /\ UNCHANGED <<active, full, attempts, generation, linkVars, bookVars, senders, answered,
                 signaling, offer, tasks, missed, faults>>

\* The catch of the transaction: after the acknowledgement the server is
\* told by another negotiation, which nobody waits for.
RollBack(n) ==
  /\ ops[n].stage \in {"refused", "failing"} /\ ops[n].kind # "unpublish"
  /\ Move(n, "failed")
  /\ senders' = senders \ {n}
  /\ IF At(n, "failing") /\ Current(n)
     THEN Negotiate({})
     ELSE UNCHANGED <<negotiationVars, creating>>
  /\ IF ops[n].kind = "republish" THEN AttemptFails ELSE UNCHANGED <<room, driver>>
  /\ UNCHANGED <<active, full, attempts, generation, linkVars, bookVars, answered,
                 signaling, offer, tasks, missed, faults>>

-----------------------------------------------------------------------------
(* Unpublishing: UnpublishLocalTrackAsync.                                 *)

Unpublish(p) ==
  LET m == Len(ops) + 1
  IN  /\ room = "Connected"
      /\ p \in published \ unpublishing
      /\ Count("unpublish") < MaxUnpublishes
      /\ ops' = Append(ops, Operation("unpublish", ops[p].track, p, "removing"))
      /\ unpublishing' = unpublishing \cup {p}
      /\ tasks' = Append(tasks, m)
      /\ UNCHANGED <<recoveryVars, linkVars, published, records, queue, senders,
                     answered, signaling, creating, offer, negotiationVars, missed, faults>>

\* The task of the signaling thread, which a timeout does not stop.
RemoveSenders(m) ==
  LET own == {n \in senders : Current(m) /\ ops[n].track = ops[m].track}
  IN  /\ tasks # <<>> /\ m = Head(tasks) /\ ops[m].kind = "unpublish"
      /\ tasks' = Tail(tasks)
      /\ senders' = senders \ own
      /\ IF At(m, "removing")
         THEN Move(m, IF own = {} THEN "failing" ELSE "removed")
         ELSE UNCHANGED ops
      /\ UNCHANGED <<recoveryVars, linkVars, bookVars, answered, signaling, creating, offer,
                     negotiationVars, missed, faults>>

NegotiateRemoval(m) ==
  /\ At(m, "removed")
  /\ IF Current(m)
     THEN /\ ops' = [ops EXCEPT ![m].stage = "negotiating", ![m].removed = TRUE]
          /\ Negotiate({m})
     ELSE Move(m, "failing") /\ UNCHANGED <<negotiationVars, creating>>
  /\ UNCHANGED <<recoveryVars, linkVars, bookVars, senders, answered, signaling,
                 offer, tasks, missed, faults>>

CommitUnpublish(m) ==
  LET p == ops[m].of
  IN  /\ At(m, "negotiated") /\ ops[m].kind = "unpublish"
      /\ IF Current(m) /\ room = "Connected" /\ p \in unpublishing
         THEN /\ Move(m, "done")
              /\ published' = published \ {p}
              /\ unpublishing' = unpublishing \ {p}
              /\ records' = records \ {ops[m].track}
         ELSE Move(m, "failing") /\ UNCHANGED <<published, unpublishing, records>>
      /\ UNCHANGED <<recoveryVars, linkVars, queue, pcVars, negotiationVars, missed, faults>>

\* The catch: the intent is kept when the sender is gone.
UnpublishFails(m) ==
  LET p == ops[m].of
      uncertain == p \in unpublishing /\ ops[m].removed
  IN  /\ At(m, "failing") /\ ops[m].kind = "unpublish"
      /\ Move(m, IF uncertain THEN "uncertain" ELSE "failed")
      /\ unpublishing' = IF uncertain THEN unpublishing ELSE unpublishing \ {p}
      /\ UNCHANGED <<recoveryVars, linkVars, published, records, queue, pcVars,
                     negotiationVars, missed, faults>>

\* Faulty variant: the waiter of the negotiation is left behind.
TimeoutKeepsWaiter(n) ==
  /\ ops[n].stage \in {"acking", "installing", "removing", "negotiating"}
  /\ Move(n, IF At(n, "acking") THEN "refused" ELSE "failing")
  /\ UNCHANGED <<recoveryVars, linkVars, bookVars, pcVars, negotiationVars, missed, faults>>

\* WaitAwaitable gives up, or the senders refuse their scalability modes.
Timeout(n) ==
  /\ \/ ops[n].stage \in {"acking", "installing", "removing", "negotiating"}
     \/ At(n, "negotiated") /\ ops[n].kind # "unpublish"
  /\ Move(n, IF At(n, "acking") THEN "refused" ELSE "failing")
  /\ waiters' = waiters \ {n}
  /\ UNCHANGED <<recoveryVars, linkVars, bookVars, pcVars, negotiation, timer, missed, faults>>

-----------------------------------------------------------------------------
(* The link and the recovery.                                              *)

\* What has arrived is still handled.
BreakLink ==
  /\ link = "open" /\ faults < MaxFaults
  /\ faults' = faults + 1
  /\ link' = "broken" /\ closing' = TRUE
  /\ acks' \in SUBSET acks /\ answer' \in {answer, None}
  /\ UNCHANGED <<recoveryVars, ops, bookVars, pcVars, negotiationVars, missed>>

\* The Close event; outside of a connected room it is ignored.
NoticeClose ==
  /\ closing
  /\ closing' = FALSE
  /\ room' = IF room = "Connected" THEN "Reconnecting" ELSE room
  /\ UNCHANGED <<driver, active, full, attempts, generation, link, acks, answer, ops,
                 bookVars, pcVars, negotiationVars, missed, faults>>

\* Faulty variant: the tracks being removed are recorded as well.
RecordAll == records' = TracksOf(published)

\* RecordPublishedTracks.
RecordPublishedTracks == records' = TracksOf(published \ unpublishing)

\* AttemptReconnect; the server may have asked for full restarts.
StartReconnect ==
  /\ room = "Reconnecting" /\ ~active
  /\ active' = TRUE /\ driver' = "backoff" /\ attempts' = 0
  /\ full' \in BOOLEAN
  /\ RecordPublishedTracks
  /\ UNCHANGED <<room, generation, linkVars, ops, published, unpublishing, queue,
                 pcVars, negotiationVars, missed, faults>>

BeginAttempt ==
  /\ driver = "backoff" /\ attempts < MaxAttempts
  /\ attempts' = attempts + 1
  /\ driver' = IF full THEN "restarting" ELSE "connecting stream"
  /\ UNCHANGED <<room, active, full, generation, linkVars, ops, bookVars, pcVars,
                 negotiationVars, missed, faults>>

\* A new stream for the same session, then RestartIceConnections.
ResumeStream ==
  /\ driver = "connecting stream"
  /\ driver' = "resuming"
  /\ link' = "open" /\ closing' = FALSE /\ acks' = {} /\ answer' = None
  /\ Negotiate({Resume})
  /\ UNCHANGED <<room, active, full, attempts, generation, ops, bookVars, senders,
                 answered, signaling, offer, tasks, missed, faults>>

\* The resume is refused or times out; the attempt goes on as a restart.
ResumeFails ==
  /\ driver \in {"connecting stream", "resuming", "resumed"}
  /\ driver' = "restarting"
  /\ waiters' = waiters \ {Resume}
  /\ UNCHANGED <<room, active, full, attempts, generation, linkVars, ops, bookVars,
                 pcVars, negotiation, timer, missed, faults>>

CommitResume ==
  /\ driver = "resumed"
  /\ room' = "Connected" /\ driver' = "idle" /\ active' = FALSE
  /\ UNCHANGED <<full, attempts, generation, linkVars, ops, bookVars, pcVars,
                 negotiationVars, missed, faults>>

\* The teardown of the session: TakePendingOperationsLocked fails what
\* waits for the server, the rest finds the generation changed.
TearDown ==
  /\ generation' = generation + 1
  /\ ops' = [n \in Ids |->
       CASE n \in waiters -> [ops[n] EXCEPT !.stage = "failing"]
         [] At(n, "acking") -> [ops[n] EXCEPT !.stage = "refused"]
         [] OTHER -> ops[n]]
  /\ published' = {} /\ unpublishing' = {}
  /\ senders' = {} /\ answered' = {} /\ signaling' = "stable"
  /\ creating' = FALSE /\ offer' = None /\ missed' = {}
  /\ negotiation' = "Idle" /\ waiters' = {} /\ timer' = FALSE
  /\ link' = "broken" /\ closing' = FALSE /\ acks' = {} /\ answer' = None
  /\ room' = "Disconnected"

Restart ==
  /\ driver = "restarting"
  /\ driver' = "connecting" /\ full' = TRUE
  /\ TearDown
  /\ UNCHANGED <<active, attempts, records, queue, tasks, faults>>

\* The attempts, or the time for all of them, are used up.
GiveUp ==
  /\ driver = "backoff" /\ attempts > 0
  /\ driver' = "idle" /\ active' = FALSE
  /\ TearDown
  /\ UNCHANGED <<full, attempts, records, queue, tasks, faults>>

\* Faulty variant: the records are moved out, not copied.
RejoinMoves ==
  /\ driver = "connecting"
  /\ driver' = "republishing" /\ room' = "Connected" /\ link' = "open"
  /\ queue' = records /\ records' = {}
  /\ UNCHANGED <<active, full, attempts, generation, closing, acks, answer, ops,
                 published, unpublishing, pcVars, negotiationVars, missed, faults>>

\* ConnectAsync has joined; RepublishLocalTracks copies the records.
Rejoin ==
  /\ driver = "connecting"
  /\ driver' = "republishing" /\ room' = "Connected" /\ link' = "open"
  /\ queue' = records
  /\ UNCHANGED <<active, full, attempts, generation, closing, acks, answer, ops,
                 published, unpublishing, records, pcVars, negotiationVars, missed, faults>>

Republishing == \E n \in Ids : ops[n].kind = "republish" /\ ~Ended(n)
Republished == driver = "republishing" /\ queue = {} /\ ~Republishing

Republish(t) ==
  /\ driver = "republishing" /\ t \in queue /\ ~Republishing
  /\ queue' = queue \ {t}
  /\ IF room = "Connected"
     THEN PublishTrack("republish", t) /\ UNCHANGED <<room, driver>>
     ELSE AttemptFails /\ UNCHANGED <<ops, acks>>
  /\ UNCHANGED <<active, full, attempts, generation, link, closing, answer, published,
                 unpublishing, records, pcVars, negotiationVars, missed, faults>>

\* ConnectAsync fails, or the data channel after the republication.
RestartFails ==
  /\ driver = "connecting" \/ Republished
  /\ AttemptFails
  /\ UNCHANGED <<active, full, attempts, generation, linkVars, ops, bookVars, pcVars,
                 negotiationVars, missed, faults>>

\* When the room is no longer connected the coroutine returns and leaves
\* reconnect_active_ set.
CommitRestart ==
  /\ Republished
  /\ driver' = "idle" /\ active' = (room # "Connected")
  /\ UNCHANGED <<room, full, attempts, generation, linkVars, ops, bookVars, pcVars,
                 negotiationVars, missed, faults>>

-----------------------------------------------------------------------------

Transaction(n) ==
  \/ Acknowledge(n) \/ PostInstall(n) \/ Install(n) \/ NegotiateTrack(n)
  \/ CommitPublish(n) \/ RollBack(n)
  \/ RemoveSenders(n) \/ NegotiateRemoval(n) \/ CommitUnpublish(n) \/ UnpublishFails(n)

Negotiation == CreateOffer \/ SendOffer \/ ApplyAnswer \/ RetryTimer

Recovery ==
  \/ NoticeClose \/ StartReconnect \/ BeginAttempt
  \/ ResumeStream \/ ResumeFails \/ CommitResume
  \/ Restart \/ GiveUp \/ Rejoin \/ CommitRestart
  \/ \E t \in Tracks : Republish(t)

Next ==
  \/ \E t \in Tracks : Publish(t)
  \/ \E p \in published : Unpublish(p)
  \/ \E n \in Ids : Transaction(n) \/ Timeout(n)
  \/ Negotiation \/ OfferFails \/ SetLocalFails \/ RefuseAnswer
  \/ Recovery \/ BreakLink \/ RestartFails

Spec == Init /\ [][Next]_vars

\* The executor and the signaling thread run what is posted, the server
\* answers, and the waits end, those of a recovery and of a transaction.
FairSpec == Spec /\ WF_vars(Recovery)
                 /\ WF_vars(Negotiation \/ \E n \in Ids : Transaction(n) \/ Timeout(n))

-----------------------------------------------------------------------------
(* Properties.                                                             *)

Stages == {"acking", "acked", "refused", "installing", "installed", "removing",
           "removed", "negotiating", "negotiated", "failing", "done", "failed",
           "uncertain"}

Posted == {tasks[i] : i \in DOMAIN tasks}

TypeOK ==
  /\ room \in {"Connected", "Reconnecting", "Disconnected"}
  /\ driver \in {"idle", "backoff", "connecting stream", "resuming", "resumed",
                 "restarting", "connecting", "republishing"}
  /\ link \in {"open", "broken"} /\ signaling \in {"stable", "offer"}
  /\ negotiation \in {"Idle", "InProgress", "PendingRetry"}
  /\ \A n \in Ids : ops[n].stage \in Stages /\ ops[n].gen <= generation
  /\ published \cup unpublishing \cup senders \cup answered \cup Posted \subseteq Ids
  /\ waiters \subseteq {n \in Ids : At(n, "negotiating")} \cup {Resume}
  /\ creating => negotiation # "Idle"

\* The removal of the sender of p has been carried out.
TakenAway(p) ==
  \E m \in Ids : ops[m].kind = "unpublish" /\ ops[m].of = p /\ m \notin Posted

\* What the room lists as published is sent, and the server has answered
\* for it; what it has unpublished the server has answered to be gone.  No
\* interleaving of transactions that share negotiation rounds lets one
\* commit on the answer to an offer made before its change.
\* (NegotiatePublisherAsync, HandleAnswerSignal, the commits)
CommitsAreNegotiated ==
  /\ \A p \in published : p \in senders \cap answered \/ TakenAway(p)
  /\ \A m \in Ids : (ops[m].kind = "unpublish" /\ At(m, "done") /\ Current(m))
                     => ops[m].of \notin senders \cup answered

\* Every sender belongs to a publication or to a transaction that will
\* publish it or take it back: whichever stage fails or times out, nothing
\* goes on sending behind the back of the room.
\* (PublishLocalTrackAsync, its catch, AddTrackToPublisherAsync)
SendersAreOwned ==
  \A n \in senders : n \in published \/ ~Ended(n)

\* When nothing is under way the server has exactly the senders of the
\* connection, failed transactions included, but for what an offer that failed
\* before it was sent left it without and no later offer has told it, unless
\* a removal was given up before the signaling thread carried it out.
\* (the negotiation after a rollback, PendingRetry, OnNegotiationFailed)
ServerReconciled ==
  (/\ room = "Connected" /\ negotiation = "Idle" /\ signaling = "stable"
   /\ \A n \in Ids : Ended(n))
    => \/ Differing \subseteq missed
       \/ \E m \in Ids : ops[m].kind = "unpublish" /\ At(m, "failed") /\ Current(m)

Republishes(t, first) ==
  {n \in Ids : n > first /\ ops[n].kind = "republish" /\ ops[n].track = t}

\* A track whose sender the application has had removed is not published
\* again by a restart, even when the removal was never confirmed, unless it
\* was removed while a restart was publishing.
\* (PendingLocalUnpublish, RecordPublishedTracks)
RemovedStaysRemoved ==
  \A m \in Ids : (ops[m].kind = "unpublish" /\ ops[m].removed /\ ops[m].calm) =>
    \A n \in Republishes(ops[m].track, m) :
      \E k \in m .. n : ops[k].kind = "publish" /\ ops[k].track = ops[m].track

\* What the application published stays published through any recovery that
\* succeeds, until the application removes it, unless it was committed
\* while the recovery was under way.
\* (RecordPublishedTracks, RepublishLocalTracks)
PublicationsSurvive ==
  (room = "Connected" /\ ~active) =>
    \A n \in Ids : (ops[n].kind = "publish" /\ At(n, "done") /\ ops[n].calm) =>
      \/ ops[n].track \in TracksOf(published)
      \/ \E m \in Ids : m > n /\ ops[m].track = ops[n].track /\ ops[m].kind = "unpublish"

\* The negotiation comes to rest after any timeout, broken link, resume or
\* restart, but for an answer that was refused: the connection waits for it
\* until a recovery replaces the connection.
\* (CompleteNegotiation, ExecuteNegotiatePublisher, TakePendingOperationsLocked)
NegotiationSettles ==
  []<>(negotiation = "Idle" \/ (signaling = "offer" /\ answer = None /\ driver = "idle"))

=============================================================================
