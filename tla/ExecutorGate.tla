---------------------------- MODULE ExecutorGate ----------------------------
(* ExecutorCallbackGate and CancellableExecutorCallback of                 *)
(* src/src/core/executor_lifetime.h, with the AwaitableState protocol of   *)
(* operation.h that CancelWhenClosed guards in room.cpp.                   *)
(*                                                                         *)
(* A call enters the gate, does one thing, and leaves.  There are three    *)
(* kinds: a posted callback; the creator of a single-shot                  *)
(* CancellableExecutorCallback, a coroutine that awaits it or a handler    *)
(* that leaves it behind; and a coroutine that waits on an AwaitableState  *)
(* with a timeout, its native work running on the WebRTC signaling thread. *)
(* One action is one critical section of the gate's mutex_, of a           *)
(* completion's mutex_ or of an AwaitableState's mutex.                    *)
(***************************************************************************)
EXTENDS Naturals, FiniteSets

CONSTANTS Posts,        \* callbacks given to Post
          Completions,  \* calls that create a CancellableExecutorCallback
          Waits         \* coroutines that await an AwaitableState

ASSUME KindsAssumption ==
  /\ IsFiniteSet(Posts) /\ IsFiniteSet(Completions) /\ IsFiniteSet(Waits)
  /\ Posts \cap Completions = {} /\ Posts \cap Waits = {}
  /\ Completions \cap Waits = {}

Calls == Posts \cup Completions \cup Waits

VARIABLES
  closer,         \* Close: "open", "cancelling" (closed_), "closed"
                  \*        (cancellations_finished_)
  drained,        \* WaitForDrain has returned
  in_flight,
  cancellations,  \* calls whose cancellation is registered
  batch,          \* cancellations Close has taken and not yet run
  pc,             \* where each call is
  callback,       \* callback_ of a completion: "none", "held", "posted", "run"
  holder,         \* who holds the mutex_ of a completion
  runs,           \* how often the callback of a completion has run
  result,         \* of an AwaitableState: "none" until it is completed
  wakers,         \* who completed it and has yet to cancel its timer
  native          \* the native work of a wait: "none", "queued", "done",
                  \* "kept" (its answer was taken) or "undone"

gateVars == <<closer, drained, in_flight, cancellations, batch>>
completionVars == <<callback, holder, runs>>
waitVars == <<result, wakers, native>>
vars == <<gateVars, pc, completionVars, waitVars>>

Closed == closer # "open"

Goto(c, l) == pc' = [pc EXCEPT ![c] = l]

Init ==
  /\ closer = "open"
  /\ drained = FALSE
  /\ in_flight = 0
  /\ cancellations = {}
  /\ batch = {}
  /\ pc = [c \in Calls |-> "idle"]
  /\ callback = [c \in Completions |-> "none"]
  /\ holder = [c \in Completions |-> "nobody"]
  /\ runs = [c \in Completions |-> 0]
  /\ result = [c \in Waits |-> "none"]
  /\ wakers = [c \in Waits |-> {}]
  /\ native = [c \in Waits |-> "none"]

-----------------------------------------------------------------------------
(* Admission.                                                              *)

\* Faulty variant: a closed gate still admits.
EnterAlways(c) ==
  /\ pc[c] = "idle"
  /\ in_flight' = in_flight + 1
  /\ Goto(c, "inside")
  /\ UNCHANGED <<closer, drained, cancellations, batch, completionVars, waitVars>>

\* Enter, by a coroutine or inside Post; a closed gate refuses.
Enter(c) ==
  /\ pc[c] = "idle"
  /\ IF Closed
     THEN Goto(c, "refused") /\ UNCHANGED in_flight
     ELSE Goto(c, "inside") /\ in_flight' = in_flight + 1
  /\ UNCHANGED <<closer, drained, cancellations, batch, completionVars, waitVars>>

\* The ticket dies: a posted callback has run, a coroutine has returned.
Release(c) ==
  /\ \/ c \in Posts /\ pc[c] = "inside"
     \/ pc[c] = "resumed"
  /\ in_flight' = in_flight - 1
  /\ Goto(c, "left")
  /\ UNCHANGED <<closer, drained, cancellations, batch, completionVars, waitVars>>

-----------------------------------------------------------------------------
(* CancellableExecutorCallback.                                            *)

\* Faulty variant: registration does not look at closed_.
CreateIgnoresClose(c) ==
  /\ c \in Completions
  /\ pc[c] = "inside"
  /\ callback' = [callback EXCEPT ![c] = "held"]
  /\ holder' = [holder EXCEPT ![c] = "creator"]
  /\ cancellations' = cancellations \cup {c}
  /\ Goto(c, "creating")
  /\ UNCHANGED <<closer, drained, in_flight, batch, runs, waitVars>>

\* Create: under the completion's own mutex_, RegisterCancellation.  A closed
\* gate gives the id 0 and registers nothing.
Create(c) ==
  /\ c \in Completions
  /\ pc[c] = "inside"
  /\ callback' = [callback EXCEPT ![c] = "held"]
  /\ holder' = [holder EXCEPT ![c] = "creator"]
  /\ cancellations' = IF Closed THEN cancellations ELSE cancellations \cup {c}
  /\ Goto(c, IF Closed THEN "declined" ELSE "creating")
  /\ UNCHANGED <<closer, drained, in_flight, batch, runs, waitVars>>

\* Create returns the completion, or has yet to complete it with the cancelled
\* values.  A coroutine goes on to await it, a handler does not.
Created(c) ==
  /\ pc[c] \in {"creating", "declined"}
  /\ holder' = [holder EXCEPT ![c] = "nobody"]
  /\ IF pc[c] = "creating"
     THEN \E next \in {"waiting", "resumed"} : Goto(c, next)
     ELSE Goto(c, "declining")
  /\ UNCHANGED <<gateVars, callback, runs, waitVars>>

\* Faulty variant: callback_ is not cleared.
TakeAgain(c) ==
  /\ holder[c] = "nobody"
  /\ callback[c] \in {"held", "run"}
  /\ callback' = [callback EXCEPT ![c] = "posted"]
  /\ in_flight' = in_flight + 1

\* Faulty variant: the posted completion is not counted.
TakeUncounted(c) ==
  /\ holder[c] = "nobody"
  /\ callback[c] = "held"
  /\ callback' = [callback EXCEPT ![c] = "posted"]
  /\ UNCHANGED in_flight

\* Complete, first half: take callback_ and PostCompletion it.
Take(c) ==
  /\ holder[c] = "nobody"
  /\ callback[c] = "held"
  /\ callback' = [callback EXCEPT ![c] = "posted"]
  /\ in_flight' = in_flight + 1

\* Create completes a declined one itself; there is nothing to forget.
CreatorCompletes(c) ==
  /\ pc[c] = "declining"
  /\ Take(c)
  /\ \E next \in {"waiting", "resumed"} : Goto(c, next)
  /\ UNCHANGED <<closer, drained, cancellations, batch, holder, runs, waitVars>>

\* The native observer (or a timer) completes; Create has returned by then.
NativeCompletes(c) ==
  /\ c \in Completions
  /\ pc[c] \in {"waiting", "resumed", "left"}
  /\ Take(c)
  /\ holder' = [holder EXCEPT ![c] = "native"]
  /\ UNCHANGED <<closer, drained, cancellations, batch, pc, runs, waitVars>>

\* Complete, second half: ForgetCancellation, still under mutex_.
Completed(c) ==
  /\ holder[c] \in {"native", "closer"}
  /\ cancellations' = cancellations \ {c}
  /\ batch' = IF holder[c] = "closer" THEN batch \ {c} ELSE batch
  /\ holder' = [holder EXCEPT ![c] = "nobody"]
  /\ UNCHANGED <<closer, drained, in_flight, pc, callback, runs, waitVars>>

\* Faulty variant: only a completion somebody awaits gives its ticket back.
RunCompletionKeepsTicket(c) ==
  /\ c \in Completions
  /\ callback[c] = "posted"
  /\ callback' = [callback EXCEPT ![c] = "run"]
  /\ runs' = [runs EXCEPT ![c] = @ + 1]
  /\ IF pc[c] = "waiting"
     THEN Goto(c, "resumed") /\ in_flight' = in_flight - 1
     ELSE UNCHANGED <<pc, in_flight>>
  /\ UNCHANGED <<closer, drained, cancellations, batch, holder, waitVars>>

\* The executor runs the posted completion: a coroutine that awaits it resumes.
RunCompletion(c) ==
  /\ c \in Completions
  /\ callback[c] = "posted"
  /\ callback' = [callback EXCEPT ![c] = "run"]
  /\ runs' = [runs EXCEPT ![c] = @ + 1]
  /\ in_flight' = in_flight - 1
  /\ IF pc[c] = "waiting" THEN Goto(c, "resumed") ELSE UNCHANGED pc
  /\ UNCHANGED <<closer, drained, cancellations, batch, holder, waitVars>>

-----------------------------------------------------------------------------
(* CancelWhenClosed, AwaitableState and WaitAwaitable.                     *)

\* CompleteAwaitable and FailAwaitable: the first one wins, and has yet to
\* cancel the timer.
CompleteAwaitable(c, value, who) ==
  /\ result[c] = "none"
  /\ result' = [result EXCEPT ![c] = value]
  /\ wakers' = [wakers EXCEPT ![c] = @ \cup {who}]

\* CancelWhenClosed registers; a closed gate cancels at once.  Then the native
\* work is posted to the signaling thread.
GuardWait(c) ==
  /\ c \in Waits
  /\ pc[c] = "inside"
  /\ IF Closed
     THEN /\ result' = [result EXCEPT ![c] = "cancelled"]
          /\ UNCHANGED cancellations
     ELSE /\ cancellations' = cancellations \cup {c}
          /\ UNCHANGED result
  /\ native' = [native EXCEPT ![c] = "queued"]
  /\ Goto(c, "guarded")
  /\ UNCHANGED <<closer, drained, in_flight, batch, completionVars, wakers>>

\* WaitAwaitable looks at the state and sets the deadline of the timer ...
ArmTimer(c) ==
  /\ pc[c] = "guarded"
  /\ Goto(c, IF result[c] = "none" THEN "armed" ELSE "unguarding")
  /\ UNCHANGED <<gateVars, completionVars, waitVars>>

\* ... and starts to wait after it has unlocked it.
StartTimer(c) ==
  /\ pc[c] = "armed"
  /\ Goto(c, "sleeping")
  /\ UNCHANGED <<gateVars, completionVars, waitVars>>

\* timer->cancel() ends a wait that has begun, and does nothing before.
CancelTimer(c, who) ==
  /\ c \in Waits
  /\ who \in wakers[c]
  /\ wakers' = [wakers EXCEPT ![c] = @ \ {who}]
  /\ batch' = IF who = "closer" THEN batch \ {c} ELSE batch
  /\ IF pc[c] = "sleeping" THEN Goto(c, "woken") ELSE UNCHANGED pc
  /\ UNCHANGED <<closer, drained, in_flight, cancellations, completionVars, result,
                 native>>

TimerExpires(c) ==
  /\ pc[c] = "sleeping"
  /\ Goto(c, "woken")
  /\ UNCHANGED <<gateVars, completionVars, waitVars>>

\* The waiter takes the result; without one it times out.
TakeResult(c) ==
  /\ pc[c] = "woken"
  /\ result' = IF result[c] = "none" THEN [result EXCEPT ![c] = "timeout"] ELSE result
  /\ Goto(c, "unguarding")
  /\ UNCHANGED <<gateVars, completionVars, wakers, native>>

\* The guard dies with the coroutine's frame: ForgetCancellation.
Unguard(c) ==
  /\ pc[c] = "unguarding"
  /\ cancellations' = cancellations \ {c}
  /\ Goto(c, "resumed")
  /\ UNCHANGED <<closer, drained, in_flight, batch, completionVars, waitVars>>

\* The signaling thread does the native work ...
NativeWorks(c) ==
  /\ native[c] = "queued"
  /\ native' = [native EXCEPT ![c] = "done"]
  /\ UNCHANGED <<gateVars, pc, completionVars, result, wakers>>

\* Faulty variant: a late answer is not rolled back.
NativeAnswersLate(c) ==
  /\ native[c] = "done"
  /\ native' = [native EXCEPT ![c] = "kept"]
  /\ \/ CompleteAwaitable(c, "value", "native")
     \/ result[c] # "none" /\ UNCHANGED <<result, wakers>>
  /\ UNCHANGED <<gateVars, pc, completionVars>>

\* ... and completes the wait; when that is over already it undoes the work.
NativeAnswers(c) ==
  /\ native[c] = "done"
  /\ \/ /\ CompleteAwaitable(c, "value", "native")
        /\ native' = [native EXCEPT ![c] = "kept"]
     \/ /\ result[c] # "none"
        /\ native' = [native EXCEPT ![c] = "undone"]
        /\ UNCHANGED <<result, wakers>>
  /\ UNCHANGED <<gateVars, pc, completionVars>>

\* Or it fails, or finds that the session has changed.
NativeFails(c) ==
  /\ native[c] = "queued"
  /\ native' = [native EXCEPT ![c] = "undone"]
  /\ \/ CompleteAwaitable(c, "error", "native")
     \/ result[c] # "none" /\ UNCHANGED <<result, wakers>>
  /\ UNCHANGED <<gateVars, pc, completionVars>>

-----------------------------------------------------------------------------
(* Close and WaitForDrain, on the shutdown worker.                         *)

\* Faulty variant: the cancellations are left in place.
CloseBeginsKeeping ==
  /\ closer = "open"
  /\ closer' = "cancelling"
  /\ UNCHANGED <<drained, in_flight, cancellations, batch, pc, completionVars, waitVars>>

\* Close refuses new calls and takes the registered cancellations.
CloseBegins ==
  /\ closer = "open"
  /\ closer' = "cancelling"
  /\ batch' = cancellations
  /\ cancellations' = {}
  /\ UNCHANGED <<drained, in_flight, pc, completionVars, waitVars>>

\* It runs them one by one, outside its mutex_.
CancelCompletion(c) ==
  /\ c \in batch \cap Completions
  /\ \/ /\ Take(c)
        /\ holder' = [holder EXCEPT ![c] = "closer"]
        /\ UNCHANGED batch
     \/ /\ holder[c] = "nobody" /\ callback[c] # "held"
        /\ batch' = batch \ {c}
        /\ UNCHANGED <<callback, holder, in_flight>>
  /\ UNCHANGED <<closer, drained, cancellations, pc, runs, waitVars>>

\* The closure of a wait whose frame is gone finds its weak pointer expired.
CancelWait(c) ==
  /\ c \in batch \cap Waits
  /\ "closer" \notin wakers[c]
  /\ \/ /\ CompleteAwaitable(c, "cancelled", "closer")
        /\ UNCHANGED batch
     \/ /\ result[c] # "none"
        /\ batch' = batch \ {c}
        /\ UNCHANGED <<result, wakers>>
  /\ UNCHANGED <<closer, drained, in_flight, cancellations, pc, completionVars, native>>

CloseEnds ==
  /\ closer = "cancelling"
  /\ batch = {}
  /\ closer' = "closed"
  /\ UNCHANGED <<drained, in_flight, cancellations, batch, pc, completionVars, waitVars>>

\* Faulty variant: it does not wait for the cancellations to have run.
DrainsWhenClosed ==
  /\ Closed
  /\ in_flight = 0
  /\ drained' = TRUE
  /\ UNCHANGED <<closer, in_flight, cancellations, batch, pc, completionVars, waitVars>>

WaitForDrain ==
  /\ closer = "closed"
  /\ in_flight = 0
  /\ ~drained
  /\ drained' = TRUE
  /\ UNCHANGED <<closer, in_flight, cancellations, batch, pc, completionVars, waitVars>>

-----------------------------------------------------------------------------

CallStep(c) == Enter(c) \/ Release(c)

CompletionStep(c) ==
  \/ Create(c) \/ Created(c) \/ CreatorCompletes(c)
  \/ Completed(c) \/ RunCompletion(c)

WaitStep(c) ==
  \/ GuardWait(c) \/ ArmTimer(c) \/ StartTimer(c) \/ TimerExpires(c)
  \/ TakeResult(c) \/ Unguard(c)
  \/ \E who \in {"native", "closer"} : CancelTimer(c, who)

NativeStep(c) == NativeWorks(c) \/ NativeAnswers(c) \/ NativeFails(c)

CloseStep ==
  \/ \E c \in Completions : CancelCompletion(c)
  \/ \E c \in Waits : CancelWait(c)
  \/ CloseEnds \/ WaitForDrain

Next ==
  \/ \E c \in Calls : CallStep(c)
  \/ \E c \in Completions : CompletionStep(c) \/ NativeCompletes(c)
  \/ \E c \in Waits : WaitStep(c) \/ NativeStep(c)
  \/ CloseBegins \/ CloseStep

Spec == Init /\ [][Next]_vars

\* The executor runs what is ready, a timer that was started expires, and the
\* shutdown worker goes on.  Native code promises nothing, and nobody has to
\* call or to close.
Fairness ==
  /\ \A c \in Calls : WF_vars(Release(c))
  /\ \A c \in Completions : WF_vars(CompletionStep(c))
  /\ \A c \in Waits : WF_vars(WaitStep(c))
  /\ WF_vars(CloseStep)

FairSpec == Spec /\ Fairness

-----------------------------------------------------------------------------
(* Properties.                                                             *)

Pc == {"idle", "refused", "inside", "creating", "declined", "declining", "waiting",
       "guarded", "armed", "sleeping", "woken", "unguarding", "resumed", "left"}

\* Types of all variables.
TypeOK ==
  /\ closer \in {"open", "cancelling", "closed"}
  /\ drained \in BOOLEAN
  /\ in_flight \in Nat
  /\ cancellations \subseteq Completions \cup Waits
  /\ batch \subseteq Completions \cup Waits
  /\ pc \in [Calls -> Pc]
  /\ callback \in [Completions -> {"none", "held", "posted", "run"}]
  /\ holder \in [Completions -> {"nobody", "creator", "native", "closer"}]
  /\ runs \in [Completions -> Nat]
  /\ result \in [Waits -> {"none", "value", "error", "cancelled", "timeout"}]
  /\ wakers \in [Waits -> SUBSET {"native", "closer"}]
  /\ native \in [Waits -> {"none", "queued", "done", "kept", "undone"}]

HasTicket(c) == pc[c] \notin {"idle", "refused", "left"}

Tickets == {c \in Calls : HasTicket(c)}
Posted == {c \in Completions : callback[c] = "posted"}
Held == {c \in Completions : callback[c] = "held"}

\* What is inside: calls that hold a ticket, posted callbacks that hold one, and
\* completions left behind that somebody still has to complete.
Unfinished == Tickets \cup Posted \cup Held

\* in_flight_ counts the tickets, one for each call that is inside and one for
\* each posted completion: none is lost and none is returned twice.
InFlightIsExact == in_flight = Cardinality(Tickets) + Cardinality(Posted)

\* Once Close has returned nothing waits for native code: each registered
\* completion was completed, and so was each wait.  Only a creator that saw the
\* closed gate may still have to complete its own.
CloseCancelsAll ==
  closer = "closed" =>
    /\ \A c \in Held : pc[c] \in {"declined", "declining"}
    /\ \A c \in Waits : result[c] = "none" => pc[c] \in {"idle", "refused", "inside"}

\* After WaitForDrain nothing of the room runs again: no call is inside, and no
\* completion is left to be posted.
DrainedIsFinal == drained => Unfinished = {}

\* However Close, native code and the creator race, a completion runs its
\* callback at most once, and has run it by the time the gate has drained.
CompletesOnce ==
  \A c \in Completions :
    /\ runs[c] <= 1
    /\ drained /\ callback[c] # "none" => runs[c] = 1

\* Native work is kept only when the waiter got its answer: what comes after a
\* timeout or a cancellation is undone.
LateAnswersAreUndone ==
  \A c \in Waits :
    /\ native[c] = "kept" => result[c] = "value"
    /\ native[c] = "undone" => result[c] # "value"

\* The gate keeps the promise of DrainGate.
Gate == INSTANCE DrainGate WITH
  phase <- CASE drained -> "drained" [] closer = "open" -> "open" [] OTHER -> "closed",
  inside <- Unfinished

IsDrainGate == Gate!Spec

\* Once Close has begun the gate drains.
CloseDrains == Closed ~> drained

-----------------------------------------------------------------------------
(* The inductive invariant behind the safety properties.                   *)

\* The stages of a completion, by its callback and by where its creator is.
CompletionStages ==
  \A c \in Completions :
    /\ pc[c] \in {"idle", "refused", "inside", "creating", "declined", "declining",
                  "waiting", "resumed", "left"}
    /\ callback[c] = "none" <=> pc[c] \in {"idle", "refused", "inside"}
    /\ callback[c] \in {"posted", "run"} => pc[c] \in {"waiting", "resumed", "left"}
    /\ pc[c] = "waiting" => callback[c] # "run"
    /\ c \in cancellations \cup batch =>
         callback[c] # "none" /\ pc[c] \notin {"declined", "declining"}
    /\ holder[c] = "creator" <=> pc[c] \in {"creating", "declined"}
    /\ holder[c] \in {"native", "closer"} => callback[c] \in {"posted", "run"}
    /\ runs[c] = IF callback[c] = "run" THEN 1 ELSE 0

WaitStages ==
  \A c \in Waits :
    /\ pc[c] \notin {"creating", "declined", "declining", "waiting"}
    /\ pc[c] \in {"unguarding", "resumed", "left"} => result[c] # "none"
    /\ wakers[c] # {} => result[c] # "none"
    /\ native[c] # "none" => pc[c] \notin {"idle", "refused", "inside"}
    /\ native[c] \in {"none", "queued", "done"} => result[c] # "value"

\* Close can reach whatever still waits for native code, and once it is done
\* there is nothing left to reach.
CloseReaches ==
  /\ Closed => cancellations = {}
  /\ closer # "cancelling" => batch = {}
  /\ \A c \in Held : pc[c] \in {"declined", "declining"} \/ c \in cancellations \cup batch
  /\ \A c \in Waits : result[c] = "none" =>
       pc[c] \in {"idle", "refused", "inside"} \/ c \in cancellations \cup batch

DrainedStaysClosed == drained => closer = "closed"

GateInv ==
  /\ TypeOK /\ InFlightIsExact
  /\ CompletionStages /\ WaitStages /\ LateAnswersAreUndone
  /\ CloseReaches /\ DrainedStaysClosed /\ DrainedIsFinal

=============================================================================
