--------------------------- MODULE ShutdownService ---------------------------
(* SessionShutdownService (src/src/core/session_shutdown_service.h): the   *)
(* worker that runs native cleanup off the Qt thread, and the queue of the *)
(* Qt thread through which it reports back.                                *)
(*                                                                         *)
(* One action is one critical section of State::mutex, one post to the Qt  *)
(* event queue, or one callback on the Qt thread.  What a job does is      *)
(* abstracted to "it returns" or "it throws".                              *)
(***************************************************************************)
EXTENDS Naturals, FiniteSets, SequencesExt

CONSTANTS Tasks,     \* jobs given to Submit
          Cleanups,  \* jobs given to SubmitCleanup (retainOnFailure)
          Drains,    \* calls of DrainAsync
          Stops      \* calls of ShutdownAsync

ASSUME JobsAssumption == Tasks \cap Cleanups = {} /\ Drains \cap Stops = {}

Jobs == Tasks \cup Cleanups

VARIABLES
  accepting, stopping, pending,
  jobs,         \* the queue
  failed_jobs,  \* cleanups that threw: kept, with all they own
  drains,       \* callbacks of DrainAsync not yet run
  stopped,      \* callbacks of ShutdownAsync not yet run
  worker,       \* where the worker is
  in_hand,      \* the job it has taken, as a set
  qt,           \* events posted to the Qt thread
  doing,        \* the loop the Qt thread is in
  status,       \* history: what became of each job
  called        \* history: callbacks of DrainAsync and ShutdownAsync run

serviceVars == <<accepting, stopping, pending, jobs, failed_jobs, drains, stopped>>
vars == <<serviceVars, worker, in_hand, qt, doing, status, called>>

Init ==
  /\ accepting = TRUE
  /\ stopping = FALSE
  /\ pending = 0
  /\ jobs = <<>>
  /\ failed_jobs = {}
  /\ drains = <<>>
  /\ stopped = <<>>
  /\ worker = "waiting"
  /\ in_hand = {}
  /\ qt = <<>>
  /\ doing = "events"
  /\ status = [j \in Jobs |-> "new"]
  /\ called = {}

WorkerExiting == worker \in {"exiting", "exited", "gone"}
WorkerExited == worker \in {"exited", "gone"}

\* The Qt event queue keeps the order of the posts.
Post(e) == qt' = Append(qt, e)

SetStatus(j, s) == status' = [status EXCEPT ![j] = s]

-----------------------------------------------------------------------------
(* Submission, from any thread.                                            *)

\* Faulty variant: the job is queued and not counted.
EnqueueUncounted(j) ==
  /\ jobs' = Append(jobs, j)
  /\ SetStatus(j, "accepted")
  /\ UNCHANGED <<accepting, stopping, pending, failed_jobs, drains, stopped, worker,
                 in_hand, qt, doing, called>>

Enqueue(j) ==
  /\ jobs' = Append(jobs, j)
  /\ pending' = pending + 1
  /\ SetStatus(j, "accepted")
  /\ UNCHANGED <<accepting, stopping, failed_jobs, drains, stopped, worker, in_hand, qt,
                 doing, called>>

Submit(j) ==
  /\ j \in Tasks
  /\ status[j] = "new"
  /\ \/ accepting /\ Enqueue(j)
     \/ /\ ~accepting
        /\ SetStatus(j, "refused")
        /\ UNCHANGED <<serviceVars, worker, in_hand, qt, doing, called>>

\* Faulty variant: admission does not end when the worker decides to leave.
SubmitCleanupLate(j) ==
  /\ j \in Cleanups
  /\ status[j] = "new"
  /\ worker # "gone"
  /\ Enqueue(j)

\* Cleanup is accepted until the worker has committed to leave.  After that the
\* process is terminated; it is up to the application not to call then.
SubmitCleanup(j) ==
  /\ j \in Cleanups
  /\ status[j] = "new"
  /\ ~WorkerExiting
  /\ Enqueue(j)

-----------------------------------------------------------------------------
(* DrainAsync and ShutdownAsync, from the Qt thread.                       *)

Undelivered == {j \in Jobs : status[j] \in {"accepted", "ran"}}

Requested(c) == c \in called \cup ToSet(drains) \cup ToSet(stopped)

\* Faulty variant: an idle service is left to the worker to notice.
DrainAsyncNoPost(d) ==
  /\ d \in Drains
  /\ ~Requested(d)
  /\ drains' = Append(drains, d)
  /\ UNCHANGED <<accepting, stopping, pending, jobs, failed_jobs, stopped, worker, in_hand,
                 qt, doing, status, called>>

DrainAsync(d) ==
  /\ d \in Drains
  /\ ~Requested(d)
  /\ drains' = Append(drains, d)
  /\ IF pending = 0 THEN Post(<<"DeliverDrains">>) ELSE UNCHANGED qt
  /\ UNCHANGED <<accepting, stopping, pending, jobs, failed_jobs, stopped, worker, in_hand,
                 doing, status, called>>

ShutdownAsync(s) ==
  /\ s \in Stops
  /\ ~Requested(s)
  /\ accepting' = FALSE
  /\ stopping' = TRUE
  /\ stopped' = Append(stopped, s)
  /\ IF WorkerExited THEN Post(<<"DeliverStopped">>) ELSE UNCHANGED qt
  /\ UNCHANGED <<pending, jobs, failed_jobs, drains, worker, in_hand, doing, status,
                 called>>

-----------------------------------------------------------------------------
(* Run: the worker.                                                        *)

WorkerGoto(l) ==
  worker' = l /\ UNCHANGED <<accepting, stopping, drains, stopped, doing, called>>

TakeJob ==
  /\ worker = "waiting"
  /\ jobs # <<>>
  /\ in_hand' = {Head(jobs)}
  /\ jobs' = Tail(jobs)
  /\ WorkerGoto("running")
  /\ UNCHANGED <<pending, failed_jobs, qt, status>>

\* Faulty variant: a failed cleanup does not keep the worker.
LeaveLoopEmpty ==
  /\ worker = "waiting"
  /\ jobs = <<>>
  /\ stopping
  /\ WorkerGoto("exiting")
  /\ UNCHANGED <<pending, jobs, failed_jobs, in_hand, qt, status>>

\* Nothing is pending and the service is stopping: workerExiting.
LeaveLoop ==
  /\ worker = "waiting"
  /\ jobs = <<>>
  /\ stopping /\ pending = 0
  /\ WorkerGoto("exiting")
  /\ UNCHANGED <<pending, jobs, failed_jobs, in_hand, qt, status>>

\* The job returns, or it throws; a cleanup that threw is retained.
RunJob ==
  /\ worker = "running"
  /\ \E j \in in_hand :
       /\ SetStatus(j, "ran")
       /\ \/ UNCHANGED failed_jobs
          \/ j \in Cleanups /\ failed_jobs' = failed_jobs \cup {j}
  /\ WorkerGoto("ran")
  /\ UNCHANGED <<pending, jobs, in_hand, qt>>

\* The job's completion, if it has one, is posted.
PostCompleted ==
  /\ worker = "ran"
  /\ \E j \in in_hand :
       \/ Post(<<"Completed", j>>) /\ UNCHANGED status
       \/ SetStatus(j, "delivered") /\ UNCHANGED qt
  /\ WorkerGoto("posted")
  /\ UNCHANGED <<pending, jobs, failed_jobs, in_hand>>

\* Faulty variant: a retained cleanup is accounted for like the others.
AccountAll ==
  /\ worker = "posted"
  /\ pending' = pending - 1
  /\ in_hand' = {}
  /\ WorkerGoto(IF pending' = 0 THEN "idle" ELSE "waiting")
  /\ UNCHANGED <<jobs, failed_jobs, qt, status>>

\* A job is over unless its cleanup was retained.
Account ==
  /\ worker = "posted"
  /\ pending' = IF in_hand \subseteq failed_jobs THEN pending ELSE pending - 1
  /\ in_hand' = {}
  /\ WorkerGoto(IF pending' = 0 THEN "idle" ELSE "waiting")
  /\ UNCHANGED <<jobs, failed_jobs, qt, status>>

PostDrains ==
  /\ worker = "idle"
  /\ Post(<<"DeliverDrains">>)
  /\ WorkerGoto("waiting")
  /\ UNCHANGED <<pending, jobs, failed_jobs, in_hand, status>>

\* workerExited is set, and then the last event is posted.
ExitLoop ==
  /\ worker = "exiting"
  /\ WorkerGoto("exited")
  /\ UNCHANGED <<pending, jobs, failed_jobs, in_hand, qt, status>>

PostStopped ==
  /\ worker = "exited"
  /\ Post(<<"DeliverStopped">>)
  /\ WorkerGoto("gone")
  /\ UNCHANGED <<pending, jobs, failed_jobs, in_hand, status>>

WorkerStep ==
  \/ TakeJob \/ LeaveLoop \/ RunJob \/ PostCompleted \/ Account \/ PostDrains
  \/ ExitLoop \/ PostStopped

-----------------------------------------------------------------------------
(* The Qt thread.                                                          *)

qtFrame == <<accepting, stopping, pending, jobs, failed_jobs, worker, in_hand>>

NextEvent(e) == doing = "events" /\ qt # <<>> /\ Head(qt) = e /\ qt' = Tail(qt)

DeliverCompleted(j) ==
  /\ NextEvent(<<"Completed", j>>)
  /\ SetStatus(j, "delivered")
  /\ UNCHANGED <<qtFrame, drains, stopped, doing, called>>

BeginDrains ==
  /\ NextEvent(<<"DeliverDrains">>)
  /\ doing' = "drains"
  /\ UNCHANGED <<qtFrame, drains, stopped, status, called>>

\* DeliverStopped joins the worker, then delivers the drains.
BeginStopped ==
  /\ NextEvent(<<"DeliverStopped">>)
  /\ worker = "gone"
  /\ doing' = "finalDrains"
  /\ UNCHANGED <<qtFrame, drains, stopped, status, called>>

\* One round of DeliverDrains: pending is looked at before each callback.
DrainsRound ==
  /\ doing \in {"drains", "finalDrains"}
  /\ IF pending # 0 \/ drains = <<>>
     THEN /\ doing' = IF doing = "drains" THEN "events" ELSE "stops"
          /\ UNCHANGED <<drains, called>>
     ELSE /\ called' = called \cup {Head(drains)}
          /\ drains' = Tail(drains)
          /\ UNCHANGED doing
  /\ UNCHANGED <<qtFrame, qt, stopped, status>>

\* Faulty variant: one callback for each event.
StopsRoundOnce ==
  /\ doing = "stops"
  /\ stopped # <<>>
  /\ called' = called \cup {Head(stopped)}
  /\ stopped' = Tail(stopped)
  /\ doing' = "events"
  /\ UNCHANGED <<qtFrame, qt, drains, status>>

StopsRound ==
  /\ doing = "stops"
  /\ IF stopped = <<>>
     THEN doing' = "events" /\ UNCHANGED <<stopped, called>>
     ELSE /\ called' = called \cup {Head(stopped)}
          /\ stopped' = Tail(stopped)
          /\ UNCHANGED doing
  /\ UNCHANGED <<qtFrame, qt, drains, status>>

QtStep ==
  \/ \E j \in Jobs : DeliverCompleted(j)
  \/ BeginDrains \/ BeginStopped \/ DrainsRound \/ StopsRound

-----------------------------------------------------------------------------

Next ==
  \/ \E j \in Jobs : Submit(j) \/ SubmitCleanup(j)
  \/ \E d \in Drains : DrainAsync(d)
  \/ \E s \in Stops : ShutdownAsync(s)
  \/ WorkerStep \/ QtStep

Spec == Init /\ [][Next]_vars

\* The worker thread runs, jobs end, and the Qt event loop is kept alive until
\* the stopped callback, as the class requires.  Nobody has to call.
FairSpec == Spec /\ WF_vars(WorkerStep) /\ WF_vars(QtStep)

-----------------------------------------------------------------------------
(* Properties.                                                             *)

Events == {<<"Completed", j>> : j \in Jobs} \cup {<<"DeliverDrains">>, <<"DeliverStopped">>}

\* Types of all variables.
TypeOK ==
  /\ accepting \in BOOLEAN /\ stopping \in BOOLEAN /\ pending \in Nat
  /\ jobs \in Seq(Jobs) /\ failed_jobs \subseteq Cleanups
  /\ drains \in Seq(Drains) /\ stopped \in Seq(Stops)
  /\ worker \in {"waiting", "running", "ran", "posted", "idle", "exiting", "exited", "gone"}
  /\ in_hand \subseteq Jobs
  /\ qt \in Seq(Events)
  /\ doing \in {"events", "drains", "finalDrains", "stops"}
  /\ status \in [Jobs -> {"new", "accepted", "refused", "ran", "delivered"}]
  /\ called \subseteq Drains \cup Stops

\* pending counts the queue, the job in hand and every cleanup that failed:
\* resources that are still owned are never reported as released.
PendingIsExact ==
  pending = Len(jobs) + Cardinality(in_hand \ failed_jobs) + Cardinality(failed_jobs)

\* When the service says it has stopped, every job it accepted has run, its
\* completion has been delivered, and no failed cleanup holds resources.
StoppedIsLast ==
  called \cap Stops # {} => Undelivered = {} /\ failed_jobs = {}

\* The worker leaves no job behind.
ExitedIsEmpty == WorkerExiting => jobs = <<>> /\ pending = 0

\* Every ShutdownAsync is answered, unless a failed cleanup keeps the service.
ShutdownCompletes ==
  \A s \in Stops : Requested(s) ~> (s \in called \/ failed_jobs # {})

\* Every DrainAsync is answered, under the same condition.
DrainCompletes ==
  \A d \in Drains : Requested(d) ~> (d \in called \/ failed_jobs # {})

-----------------------------------------------------------------------------
(* The inductive invariant behind the safety properties.                   *)

Queued(j) == \E i \in DOMAIN jobs : jobs[i] = j
Posted(e) == \E i \in DOMAIN qt : qt[i] = e

\* A queued job is queued once and has not been run; the worker has one job in
\* hand from the time it takes it until it accounts for it.
JobsAreAccountedFor ==
  /\ IsFiniteSet(failed_jobs)
  /\ \A i, k \in DOMAIN jobs : jobs[i] = jobs[k] => i = k
  /\ \A j \in Jobs : Queued(j) => status[j] = "accepted" /\ j \notin in_hand
  /\ \A j \in failed_jobs : status[j] \in {"ran", "delivered"}
  /\ worker \in {"running", "ran", "posted"} => \E j \in Jobs : in_hand = {j}
  /\ worker \notin {"running", "ran", "posted"} => in_hand = {}
  /\ worker = "running" => \A j \in in_hand : status[j] = "accepted"
  /\ worker # "running" => \A j \in in_hand : status[j] \in {"ran", "delivered"}

\* Admission has ended before the worker leaves.
AdmissionEnds ==
  /\ accepting <=> ~stopping
  /\ WorkerExiting => stopping

\* Every job that is not settled is in the queue, in the worker's hand or in
\* an event of the Qt thread.
CompletionsAreOwed ==
  \A j \in Jobs :
    /\ status[j] = "accepted" => (worker = "running" /\ j \in in_hand) \/ Queued(j)
    /\ status[j] = "ran" =>
         (worker = "ran" /\ j \in in_hand) \/ Posted(<<"Completed", j>>)
    /\ Posted(<<"Completed", j>>) => status[j] \in {"ran", "delivered"}

\* No completion is posted behind the event that ends the service.
StopsInOrder ==
  \A i, k \in DOMAIN qt : \A j \in Jobs :
    qt[i] = <<"DeliverStopped">> /\ qt[k] = <<"Completed", j>> => k < i

StopsFollowCompletions ==
  /\ StopsInOrder
  /\ Posted(<<"DeliverStopped">>) => WorkerExited
  /\ doing \in {"finalDrains", "stops"} \/ called \cap Stops # {} =>
       worker = "gone" /\ \A j \in Jobs : ~Posted(<<"Completed", j>>)

ServiceInv ==
  /\ TypeOK /\ PendingIsExact /\ JobsAreAccountedFor /\ AdmissionEnds
  /\ ExitedIsEmpty /\ CompletionsAreOwed /\ StopsFollowCompletions

=============================================================================
