------------------------ MODULE ShutdownService_proofs ------------------------
(* Proofs about ShutdownService, for any jobs and any number of callers.   *)
EXTENDS ShutdownService, SequenceTheorems, FiniteSetTheorems, TLAPS

\* What an element at the end, or the removal of the first, does to a queue.
LEMMA AppendSeq ==
  ASSUME NEW S, NEW s \in Seq(S), NEW e \in S
  PROVE  /\ Append(s, e) \in Seq(S)
         /\ Len(s) \in Nat /\ Len(Append(s, e)) = Len(s) + 1
         /\ DOMAIN s = 1 .. Len(s) /\ DOMAIN Append(s, e) = 1 .. (Len(s) + 1)
         /\ \A i \in 1 .. Len(s) : Append(s, e)[i] = s[i] /\ s[i] \in S
         /\ Append(s, e)[Len(s) + 1] = e
BY AppendProperties, LenProperties, ElementOfSeq

LEMMA TailSeq ==
  ASSUME NEW S, NEW s \in Seq(S), s # <<>>
  PROVE  /\ Tail(s) \in Seq(S) /\ Head(s) \in S /\ Head(s) = s[1]
         /\ Len(s) \in Nat /\ Len(s) >= 1 /\ Len(Tail(s)) = Len(s) - 1
         /\ DOMAIN s = 1 .. Len(s) /\ DOMAIN Tail(s) = 1 .. (Len(s) - 1)
         /\ \A i \in 1 .. (Len(s) - 1) : Tail(s)[i] = s[i + 1]
<1>1. Len(s) \in Nat \ {0}
  BY EmptySeq
<1>2. Tail(s) \in Seq(S) /\ Head(s) \in S /\ Len(Tail(s)) = Len(s) - 1
      /\ \A i \in 1 .. Len(Tail(s)) : Tail(s)[i] = s[i + 1]
  BY HeadTailProperties
<1>3. Head(s) = s[1]
  OBVIOUS
<1> QED BY <1>1, <1>2, <1>3, LenProperties

\* The three kinds of events differ.
LEMMA EventKinds ==
  /\ <<"DeliverDrains">> \in Events /\ <<"DeliverStopped">> \in Events
  /\ <<"DeliverDrains">> # <<"DeliverStopped">>
  /\ \A j \in Jobs : /\ <<"Completed", j>> \in Events
                     /\ <<"Completed", j>> # <<"DeliverDrains">>
                     /\ <<"Completed", j>> # <<"DeliverStopped">>
  /\ \A j, k \in Jobs : <<"Completed", j>> = <<"Completed", k>> => j = k
BY DEF Events

\* failed_jobs, and what is in hand and not in it, can be counted.
LEMMA Counts ==
  ASSUME JobsAreAccountedFor
  PROVE  /\ Cardinality(failed_jobs) \in Nat
         /\ Cardinality(in_hand \ failed_jobs) \in Nat
         /\ Cardinality({}) = 0
         /\ \A j : Cardinality({j}) = 1
         /\ \A j : j \notin failed_jobs =>
              Cardinality(failed_jobs \cup {j}) = Cardinality(failed_jobs) + 1
<1>1. IsFiniteSet(failed_jobs)
  BY DEF JobsAreAccountedFor
<1>2. IsFiniteSet(in_hand)
  <2>1. in_hand = {} \/ \E j \in Jobs : in_hand = {j}
    BY DEF JobsAreAccountedFor
  <2> QED BY <2>1, FS_EmptySet, FS_Singleton
<1>3. IsFiniteSet(in_hand \ failed_jobs)
  BY <1>2, FS_Difference
<1> QED BY <1>1, <1>3, FS_CardinalityType, FS_EmptySet, FS_Singleton, FS_AddElement

\* A post, or the next event, in terms of what is posted and in which order.
LEMMA PostEffect ==
  ASSUME TypeOK, NEW e \in Events, Post(e)
  PROVE  /\ qt' \in Seq(Events)
         /\ \A f : Posted(f)' <=> Posted(f) \/ f = e
         /\ StopsInOrder /\ (\/ \A j \in Jobs : e # <<"Completed", j>>
                             \/ ~Posted(<<"DeliverStopped">>) /\ e # <<"DeliverStopped">>)
              => StopsInOrder'
<1>1. qt \in Seq(Events) /\ qt' = Append(qt, e)
  BY DEF TypeOK, Post
<1>2. /\ qt' \in Seq(Events)
      /\ Len(qt) \in Nat
      /\ DOMAIN qt = 1 .. Len(qt) /\ DOMAIN qt' = 1 .. (Len(qt) + 1)
      /\ \A i \in 1 .. Len(qt) : qt'[i] = qt[i]
      /\ qt'[Len(qt) + 1] = e
  BY <1>1, AppendSeq
<1>3. \A f : Posted(f)' <=> Posted(f) \/ f = e
  <2> SUFFICES ASSUME NEW f PROVE Posted(f)' <=> Posted(f) \/ f = e
    OBVIOUS
  <2>1. ASSUME NEW i \in DOMAIN qt', qt'[i] = f PROVE Posted(f) \/ f = e
    <3>1. CASE i = Len(qt) + 1
      BY <2>1, <1>2, <3>1
    <3>2. CASE i # Len(qt) + 1
      <4>1. i \in 1 .. Len(qt)
        BY <1>2, <3>2
      <4> QED BY <2>1, <4>1, <1>2 DEF Posted
    <3> QED BY <3>1, <3>2
  <2>2. ASSUME NEW i \in DOMAIN qt, qt[i] = f PROVE Posted(f)'
    <3>1. i \in DOMAIN qt' /\ qt'[i] = f
      BY <2>2, <1>2
    <3> QED BY <3>1 DEF Posted
  <2>3. Len(qt) + 1 \in DOMAIN qt' /\ qt'[Len(qt) + 1] = e
    BY <1>2
  <2> QED BY <2>1, <2>2, <2>3 DEF Posted
<1>4. ASSUME StopsInOrder, \A j \in Jobs : e # <<"Completed", j>>
      PROVE  StopsInOrder'
  <2> SUFFICES ASSUME NEW i \in DOMAIN qt', NEW k \in DOMAIN qt', NEW j \in Jobs,
                      qt'[i] = <<"DeliverStopped">>, qt'[k] = <<"Completed", j>>
               PROVE  k < i
    BY DEF StopsInOrder
  <2>1. k \in DOMAIN qt /\ qt[k] = <<"Completed", j>>
    <3>1. k # Len(qt) + 1
      BY <1>2, <1>4
    <3>2. k \in 1 .. Len(qt)
      BY <1>2, <3>1
    <3> QED BY <3>2, <1>2
  <2>2. CASE i \in DOMAIN qt
    BY <1>2, <1>4, <2>1, <2>2 DEF StopsInOrder
  <2>3. CASE i \notin DOMAIN qt
    BY <1>2, <2>1, <2>3
  <2> QED BY <2>2, <2>3
<1>5. ASSUME ~Posted(<<"DeliverStopped">>), e # <<"DeliverStopped">>
      PROVE  StopsInOrder'
  <2>1. ~Posted(<<"DeliverStopped">>)'
    BY <1>3, <1>5
  <2> QED BY <2>1 DEF Posted, StopsInOrder
<1> QED BY <1>2, <1>3, <1>4, <1>5

LEMMA EventEffect ==
  ASSUME TypeOK, NEW e, NextEvent(e)
  PROVE  /\ qt' \in Seq(Events)
         /\ Posted(e)
         /\ \A f : Posted(f)' => Posted(f)
         /\ \A f : Posted(f) => Posted(f)' \/ f = e
         /\ StopsInOrder => StopsInOrder'
         /\ StopsInOrder /\ e = <<"DeliverStopped">> =>
              \A j \in Jobs : ~Posted(<<"Completed", j>>)
<1>1. qt \in Seq(Events) /\ qt # <<>> /\ qt' = Tail(qt) /\ Head(qt) = e
  BY DEF TypeOK, NextEvent
<1>2. /\ qt' \in Seq(Events) /\ qt[1] = e
      /\ Len(qt) \in Nat /\ Len(qt) >= 1
      /\ DOMAIN qt = 1 .. Len(qt) /\ DOMAIN qt' = 1 .. (Len(qt) - 1)
      /\ \A i \in 1 .. (Len(qt) - 1) : qt'[i] = qt[i + 1]
  BY <1>1, TailSeq
<1>3. 1 \in DOMAIN qt /\ Posted(e)
  BY <1>2 DEF Posted
<1>4. \A i \in DOMAIN qt' : i + 1 \in DOMAIN qt /\ qt'[i] = qt[i + 1]
  BY <1>2
<1>5. \A f : Posted(f)' => Posted(f)
  BY <1>4 DEF Posted
<1>6. ASSUME NEW f, Posted(f) PROVE Posted(f)' \/ f = e
  <2>1. PICK i \in DOMAIN qt : qt[i] = f
    BY <1>6 DEF Posted
  <2>2. CASE i = 1
    BY <2>1, <2>2, <1>2
  <2>3. CASE i # 1
    <3>1. i - 1 \in DOMAIN qt' /\ (i - 1) + 1 = i
      BY <1>2, <2>3
    <3>2. qt'[i - 1] = f
      BY <3>1, <1>4, <2>1
    <3> QED BY <3>1, <3>2 DEF Posted
  <2> QED BY <2>2, <2>3
<1>7. ASSUME StopsInOrder PROVE StopsInOrder'
  <2> SUFFICES ASSUME NEW i \in DOMAIN qt', NEW k \in DOMAIN qt', NEW j \in Jobs,
                      qt'[i] = <<"DeliverStopped">>, qt'[k] = <<"Completed", j>>
               PROVE  k < i
    BY DEF StopsInOrder
  <2>1. k + 1 < i + 1
    BY <1>4, <1>7 DEF StopsInOrder
  <2> QED BY <2>1, <1>2
<1>8. ASSUME StopsInOrder, e = <<"DeliverStopped">>, NEW j \in Jobs
      PROVE  ~Posted(<<"Completed", j>>)
  <2> SUFFICES ASSUME NEW k \in DOMAIN qt, qt[k] = <<"Completed", j>> PROVE FALSE
    BY DEF Posted
  <2>1. k < 1
    BY <1>2, <1>3, <1>8 DEF StopsInOrder
  <2> QED BY <2>1, <1>2
<1> QED BY <1>2, <1>3, <1>5, <1>6, <1>7, <1>8

\* The same for the queue of jobs.
LEMMA EnqueueEffect ==
  ASSUME TypeOK, JobsAreAccountedFor, NEW j \in Jobs, status[j] = "new", Enqueue(j)
  PROVE  /\ jobs' \in Seq(Jobs) /\ Len(jobs') = Len(jobs) + 1 /\ Len(jobs) \in Nat
         /\ \A h : Queued(h)' <=> Queued(h) \/ h = j
         /\ \A i, k \in DOMAIN jobs' : jobs'[i] = jobs'[k] => i = k
<1>1. jobs \in Seq(Jobs) /\ jobs' = Append(jobs, j)
  BY DEF TypeOK, Enqueue
<1>2. /\ jobs' \in Seq(Jobs)
      /\ Len(jobs) \in Nat /\ Len(jobs') = Len(jobs) + 1
      /\ DOMAIN jobs = 1 .. Len(jobs) /\ DOMAIN jobs' = 1 .. (Len(jobs) + 1)
      /\ \A i \in 1 .. Len(jobs) : jobs'[i] = jobs[i]
      /\ jobs'[Len(jobs) + 1] = j
  BY <1>1, AppendSeq
<1>3. ~Queued(j)
  BY DEF JobsAreAccountedFor
<1>4. \A i \in DOMAIN jobs : jobs[i] # j
  BY <1>3 DEF Queued
<1>5. \A i \in DOMAIN jobs' : i \in DOMAIN jobs \/ i = Len(jobs) + 1
  BY <1>2
<1>6. \A h : Queued(h)' <=> Queued(h) \/ h = j
  <2> SUFFICES ASSUME NEW h PROVE Queued(h)' <=> Queued(h) \/ h = j
    OBVIOUS
  <2>1. Queued(h)' => Queued(h) \/ h = j
    BY <1>2, <1>5 DEF Queued
  <2>2. Queued(h) => Queued(h)'
    <3> SUFFICES ASSUME NEW i \in DOMAIN jobs, jobs[i] = h PROVE Queued(h)'
      BY DEF Queued
    <3>1. i \in DOMAIN jobs' /\ jobs'[i] = h
      BY <1>2
    <3> QED BY <3>1 DEF Queued
  <2>3. Queued(j)'
    <3>1. Len(jobs) + 1 \in DOMAIN jobs' /\ jobs'[Len(jobs) + 1] = j
      BY <1>2
    <3> QED BY <3>1 DEF Queued
  <2> QED BY <2>1, <2>2, <2>3
<1>7. ASSUME NEW i \in DOMAIN jobs', NEW k \in DOMAIN jobs', jobs'[i] = jobs'[k]
      PROVE  i = k
  <2>1. CASE i \in DOMAIN jobs /\ k \in DOMAIN jobs
    BY <1>2, <1>7, <2>1 DEF JobsAreAccountedFor
  <2>2. CASE i \notin DOMAIN jobs \/ k \notin DOMAIN jobs
    BY <1>2, <1>4, <1>5, <1>7, <2>2
  <2> QED BY <2>1, <2>2
<1> QED BY <1>2, <1>6, <1>7

LEMMA TakeEffect ==
  ASSUME TypeOK, JobsAreAccountedFor, TakeJob
  PROVE  \E j \in Jobs :
           /\ in_hand' = {j} /\ Queued(j)
           /\ jobs' \in Seq(Jobs) /\ Len(jobs') = Len(jobs) - 1 /\ Len(jobs) \in Nat \ {0}
           /\ \A h : Queued(h)' <=> Queued(h) /\ h # j
           /\ \A i, k \in DOMAIN jobs' : jobs'[i] = jobs'[k] => i = k
<1>1. jobs \in Seq(Jobs) /\ jobs # <<>> /\ jobs' = Tail(jobs) /\ in_hand' = {Head(jobs)}
  BY DEF TypeOK, TakeJob
<1>2. /\ jobs' \in Seq(Jobs) /\ Head(jobs) \in Jobs /\ Head(jobs) = jobs[1]
      /\ Len(jobs) \in Nat /\ Len(jobs) >= 1 /\ Len(jobs') = Len(jobs) - 1
      /\ DOMAIN jobs = 1 .. Len(jobs) /\ DOMAIN jobs' = 1 .. (Len(jobs) - 1)
      /\ \A i \in 1 .. (Len(jobs) - 1) : jobs'[i] = jobs[i + 1]
  BY <1>1, TailSeq
<1> DEFINE j == Head(jobs)
<1>3. Queued(j)
  BY <1>2 DEF Queued
<1>4. \A i \in DOMAIN jobs' : i + 1 \in DOMAIN jobs /\ jobs'[i] = jobs[i + 1] /\ i + 1 # 1
  BY <1>2
<1>5. \A h : Queued(h)' <=> Queued(h) /\ h # j
  <2> SUFFICES ASSUME NEW h PROVE Queued(h)' <=> Queued(h) /\ h # j
    OBVIOUS
  <2>1. Queued(h)' => Queued(h) /\ h # j
    <3> SUFFICES ASSUME NEW i \in DOMAIN jobs', jobs'[i] = h PROVE Queued(h) /\ h # j
      BY DEF Queued
    <3>1. i + 1 \in DOMAIN jobs /\ jobs[i + 1] = h /\ i + 1 # 1 /\ 1 \in DOMAIN jobs
      BY <1>2, <1>4
    <3>2. jobs[i + 1] # jobs[1]
      BY <3>1 DEF JobsAreAccountedFor
    <3> QED BY <3>1, <3>2, <1>2 DEF Queued
  <2>2. Queued(h) /\ h # j => Queued(h)'
    <3> SUFFICES ASSUME NEW i \in DOMAIN jobs, jobs[i] = h, h # j PROVE Queued(h)'
      BY DEF Queued
    <3>1. i # 1
      BY <1>2
    <3>2. i - 1 \in DOMAIN jobs' /\ (i - 1) + 1 = i
      BY <3>1, <1>2
    <3>3. jobs'[i - 1] = h
      BY <3>2, <1>4
    <3> QED BY <3>2, <3>3 DEF Queued
  <2> QED BY <2>1, <2>2
<1>6. ASSUME NEW i \in DOMAIN jobs', NEW k \in DOMAIN jobs', jobs'[i] = jobs'[k]
      PROVE  i = k
  <2>1. i + 1 = k + 1
    BY <1>4, <1>6 DEF JobsAreAccountedFor
  <2> QED BY <2>1, <1>2
<1>7. Len(jobs) \in Nat \ {0}
  BY <1>2
<1> QED BY <1>1, <1>2, <1>3, <1>5, <1>6, <1>7

\* A job enters the queue.
LEMMA EnqueueKeeps ==
  ASSUME ServiceInv, NEW j \in Jobs, status[j] = "new", ~WorkerExiting,
         Enqueue(j)
  PROVE  ServiceInv'
<1> USE DEF ServiceInv
<1>1. /\ jobs' \in Seq(Jobs) /\ Len(jobs') = Len(jobs) + 1 /\ Len(jobs) \in Nat
      /\ \A h : Queued(h)' <=> Queued(h) \/ h = j
      /\ \A i, k \in DOMAIN jobs' : jobs'[i] = jobs'[k] => i = k
  BY EnqueueEffect
<1>2. TypeOK'
  BY <1>1 DEF TypeOK, Enqueue, SetStatus, WorkerExiting
<1>3. PendingIsExact'
  BY <1>1, Counts DEF PendingIsExact, JobsAreAccountedFor, Enqueue, SetStatus, WorkerExiting
<1>4. JobsAreAccountedFor'
  BY <1>1 DEF JobsAreAccountedFor, TypeOK, Enqueue, SetStatus, WorkerExiting
<1>5. AdmissionEnds'
  BY <1>1 DEF AdmissionEnds, WorkerExiting, Enqueue, SetStatus, WorkerExiting
<1>6. ExitedIsEmpty'
  BY <1>1 DEF ExitedIsEmpty, AdmissionEnds, WorkerExiting, Enqueue, SetStatus, WorkerExiting
<1>7. CompletionsAreOwed'
  BY <1>1 DEF CompletionsAreOwed, JobsAreAccountedFor, TypeOK, Posted, Enqueue, SetStatus, WorkerExiting
<1>8. StopsFollowCompletions'
  BY <1>1 DEF StopsFollowCompletions, StopsInOrder, Posted, WorkerExited, TypeOK, Enqueue, SetStatus, WorkerExiting
<1> QED BY <1>2, <1>3, <1>4, <1>5, <1>6, <1>7, <1>8

\* A job is refused.
LEMMA SubmitRefusedKeeps ==
  ASSUME ServiceInv, NEW j \in Jobs, Submit(j), ~accepting
  PROVE  ServiceInv'
<1> USE DEF ServiceInv
<1>1. /\ status[j] = "new" /\ status' = [status EXCEPT ![j] = "refused"]
      /\ UNCHANGED <<jobs, failed_jobs, worker, in_hand, qt, doing, called>>
  BY DEF Submit, SetStatus, serviceVars
<1>2. /\ \A h : Queued(h)' <=> Queued(h)
      /\ \A f : Posted(f)' <=> Posted(f)
  BY <1>1 DEF Queued, Posted
<1>3. TypeOK'
  BY <1>1, <1>2 DEF TypeOK, Submit, SetStatus, serviceVars
<1>4. PendingIsExact'
  BY <1>1, <1>2 DEF PendingIsExact, JobsAreAccountedFor, Submit, SetStatus, serviceVars
<1>5. JobsAreAccountedFor'
  BY <1>1, <1>2 DEF JobsAreAccountedFor, TypeOK
<1>6. AdmissionEnds'
  BY <1>1, <1>2 DEF AdmissionEnds, WorkerExiting, Submit, SetStatus, serviceVars
<1>7. ExitedIsEmpty'
  BY <1>1, <1>2 DEF ExitedIsEmpty, AdmissionEnds, WorkerExiting, Submit, SetStatus, serviceVars
<1>8. CompletionsAreOwed'
  BY <1>1, <1>2 DEF CompletionsAreOwed, TypeOK
<1>9. StopsFollowCompletions'
  BY <1>1, <1>2 DEF StopsFollowCompletions, StopsInOrder, Posted, WorkerExited, TypeOK, Submit, SetStatus, serviceVars
<1> QED BY <1>3, <1>4, <1>5, <1>6, <1>7, <1>8, <1>9

\* DrainAsync on a busy service.
LEMMA DrainAsyncKeeps ==
  ASSUME ServiceInv, NEW d \in Drains, DrainAsync(d), pending # 0
  PROVE  ServiceInv'
<1> USE DEF ServiceInv
<1>1. drains' \in Seq(Drains)
  BY AppendSeq DEF TypeOK, DrainAsync
<1>2. TypeOK'
  BY <1>1 DEF TypeOK, DrainAsync, Undelivered
<1>3. PendingIsExact'
  BY <1>1 DEF PendingIsExact, JobsAreAccountedFor, DrainAsync, Undelivered
<1>4. JobsAreAccountedFor'
  BY <1>1 DEF JobsAreAccountedFor, TypeOK, Queued, DrainAsync, Undelivered
<1>5. AdmissionEnds'
  BY <1>1 DEF AdmissionEnds, WorkerExiting, DrainAsync, Undelivered
<1>6. ExitedIsEmpty'
  BY <1>1 DEF ExitedIsEmpty, AdmissionEnds, WorkerExiting, DrainAsync, Undelivered
<1>7. CompletionsAreOwed'
  BY <1>1 DEF CompletionsAreOwed, JobsAreAccountedFor, TypeOK, Queued, Posted, DrainAsync, Undelivered
<1>8. StopsFollowCompletions'
  BY <1>1 DEF StopsFollowCompletions, StopsInOrder, Posted, WorkerExited, TypeOK, DrainAsync, Undelivered
<1> QED BY <1>2, <1>3, <1>4, <1>5, <1>6, <1>7, <1>8

\* DrainAsync on an idle service posts an event.
LEMMA DrainAsyncIdleKeeps ==
  ASSUME ServiceInv, NEW d \in Drains, DrainAsync(d), pending = 0
  PROVE  ServiceInv'
<1> USE DEF ServiceInv
<1>1. <<"DeliverDrains">> \in Events
  BY EventKinds
<1>2. /\ qt' \in Seq(Events)
      /\ \A f : Posted(f)' <=> Posted(f) \/ f = <<"DeliverDrains">>
      /\ StopsInOrder /\ (\/ \A j \in Jobs : <<"DeliverDrains">> # <<"Completed", j>>
                          \/ ~Posted(<<"DeliverStopped">>) /\ <<"DeliverDrains">> # <<"DeliverStopped">>)
           => StopsInOrder'
  BY <1>1, PostEffect DEF DrainAsync
<1>3. drains' \in Seq(Drains)
  BY AppendSeq DEF TypeOK, DrainAsync
<1>4. TypeOK'
  BY <1>1, <1>2, <1>3 DEF TypeOK, DrainAsync, Undelivered
<1>5. PendingIsExact'
  BY <1>1, <1>2, <1>3 DEF PendingIsExact, JobsAreAccountedFor, DrainAsync, Undelivered
<1>6. JobsAreAccountedFor'
  BY <1>1, <1>2, <1>3 DEF JobsAreAccountedFor, TypeOK, Queued, DrainAsync, Undelivered
<1>7. AdmissionEnds'
  BY <1>1, <1>2, <1>3 DEF AdmissionEnds, WorkerExiting, DrainAsync, Undelivered
<1>8. ExitedIsEmpty'
  BY <1>1, <1>2, <1>3 DEF ExitedIsEmpty, AdmissionEnds, WorkerExiting, DrainAsync, Undelivered
<1>9. CompletionsAreOwed'
  BY <1>1, <1>2, <1>3, EventKinds DEF CompletionsAreOwed, JobsAreAccountedFor, TypeOK, Queued, DrainAsync, Undelivered
<1>10. StopsFollowCompletions'
  BY <1>1, <1>2, <1>3, EventKinds DEF StopsFollowCompletions, WorkerExited, TypeOK, DrainAsync, Undelivered
<1> QED BY <1>4, <1>5, <1>6, <1>7, <1>8, <1>9, <1>10

\* ShutdownAsync before the worker has left.
LEMMA ShutdownAsyncKeeps ==
  ASSUME ServiceInv, NEW s \in Stops, ShutdownAsync(s), ~WorkerExited
  PROVE  ServiceInv'
<1> USE DEF ServiceInv
<1>1. stopped' \in Seq(Stops)
  BY AppendSeq DEF TypeOK, ShutdownAsync
<1>2. TypeOK'
  BY <1>1 DEF TypeOK, ShutdownAsync
<1>3. PendingIsExact'
  BY <1>1 DEF PendingIsExact, JobsAreAccountedFor, ShutdownAsync
<1>4. JobsAreAccountedFor'
  BY <1>1 DEF JobsAreAccountedFor, TypeOK, Queued, ShutdownAsync
<1>5. AdmissionEnds'
  BY <1>1 DEF AdmissionEnds, WorkerExiting, ShutdownAsync
<1>6. ExitedIsEmpty'
  BY <1>1 DEF ExitedIsEmpty, AdmissionEnds, WorkerExiting, ShutdownAsync
<1>7. CompletionsAreOwed'
  BY <1>1 DEF CompletionsAreOwed, JobsAreAccountedFor, TypeOK, Queued, Posted, ShutdownAsync
<1>8. StopsFollowCompletions'
  BY <1>1 DEF StopsFollowCompletions, StopsInOrder, Posted, WorkerExited, TypeOK, ShutdownAsync
<1> QED BY <1>2, <1>3, <1>4, <1>5, <1>6, <1>7, <1>8

\* ShutdownAsync after the worker has left posts an event.
LEMMA ShutdownAsyncLateKeeps ==
  ASSUME ServiceInv, NEW s \in Stops, ShutdownAsync(s), WorkerExited
  PROVE  ServiceInv'
<1> USE DEF ServiceInv
<1>1. <<"DeliverStopped">> \in Events
  BY EventKinds
<1>2. /\ qt' \in Seq(Events)
      /\ \A f : Posted(f)' <=> Posted(f) \/ f = <<"DeliverStopped">>
      /\ StopsInOrder /\ (\/ \A j \in Jobs : <<"DeliverStopped">> # <<"Completed", j>>
                          \/ ~Posted(<<"DeliverStopped">>) /\ <<"DeliverStopped">> # <<"DeliverStopped">>)
           => StopsInOrder'
  BY <1>1, PostEffect DEF ShutdownAsync
<1>3. stopped' \in Seq(Stops)
  BY AppendSeq DEF TypeOK, ShutdownAsync
<1>4. TypeOK'
  BY <1>1, <1>2, <1>3 DEF TypeOK, ShutdownAsync
<1>5. PendingIsExact'
  BY <1>1, <1>2, <1>3 DEF PendingIsExact, JobsAreAccountedFor, ShutdownAsync
<1>6. JobsAreAccountedFor'
  BY <1>1, <1>2, <1>3 DEF JobsAreAccountedFor, TypeOK, Queued, ShutdownAsync
<1>7. AdmissionEnds'
  BY <1>1, <1>2, <1>3 DEF AdmissionEnds, WorkerExiting, ShutdownAsync
<1>8. ExitedIsEmpty'
  BY <1>1, <1>2, <1>3 DEF ExitedIsEmpty, AdmissionEnds, WorkerExiting, ShutdownAsync
<1>9. CompletionsAreOwed'
  BY <1>1, <1>2, <1>3, EventKinds DEF CompletionsAreOwed, JobsAreAccountedFor, TypeOK, Queued, ShutdownAsync
<1>10. StopsFollowCompletions'
  BY <1>1, <1>2, <1>3, EventKinds DEF StopsFollowCompletions, WorkerExited, TypeOK, ShutdownAsync
<1> QED BY <1>4, <1>5, <1>6, <1>7, <1>8, <1>9, <1>10

\* The worker takes the first job.
LEMMA TakeJobKeeps ==
  ASSUME ServiceInv, TakeJob
  PROVE  ServiceInv'
<1> USE DEF ServiceInv
<1>1. PICK j \in Jobs :
         /\ in_hand' = {j} /\ Queued(j)
         /\ jobs' \in Seq(Jobs) /\ Len(jobs') = Len(jobs) - 1 /\ Len(jobs) \in Nat \ {0}
         /\ \A h : Queued(h)' <=> Queued(h) /\ h # j
         /\ \A i, k \in DOMAIN jobs' : jobs'[i] = jobs'[k] => i = k
  BY TakeEffect
<1>2. TypeOK'
  BY <1>1 DEF TypeOK, TakeJob, WorkerGoto
<1>3. PendingIsExact'
  <2>1. in_hand = {} /\ j \notin failed_jobs
    BY <1>1 DEF JobsAreAccountedFor, TakeJob
  <2>2. in_hand \ failed_jobs = {} /\ in_hand' \ failed_jobs = {j}
    BY <1>1, <2>1
  <2>3. failed_jobs' = failed_jobs /\ pending' = pending
    BY DEF TakeJob, WorkerGoto
  <2>4. /\ Cardinality(in_hand \ failed_jobs) = 0
        /\ Cardinality(in_hand' \ failed_jobs') = 1
        /\ Cardinality(failed_jobs) \in Nat
    BY <2>2, <2>3, Counts
  <2>5. pending = Len(jobs) + 0 + Cardinality(failed_jobs)
    BY <2>4 DEF PendingIsExact
  <2>6. pending' = Len(jobs') + 1 + Cardinality(failed_jobs')
    BY <1>1, <2>3, <2>4, <2>5
  <2> QED BY <2>4, <2>6 DEF PendingIsExact
<1>4. JobsAreAccountedFor'
  BY <1>1 DEF JobsAreAccountedFor, TypeOK, TakeJob, WorkerGoto
<1>5. AdmissionEnds'
  BY <1>1 DEF AdmissionEnds, WorkerExiting, TakeJob, WorkerGoto
<1>6. ExitedIsEmpty'
  BY <1>1 DEF ExitedIsEmpty, AdmissionEnds, WorkerExiting, TakeJob, WorkerGoto
<1>7. CompletionsAreOwed'
  BY <1>1 DEF CompletionsAreOwed, JobsAreAccountedFor, TypeOK, Posted, TakeJob, WorkerGoto
<1>8. StopsFollowCompletions'
  BY <1>1 DEF StopsFollowCompletions, StopsInOrder, Posted, WorkerExited, TypeOK, TakeJob, WorkerGoto
<1> QED BY <1>2, <1>3, <1>4, <1>5, <1>6, <1>7, <1>8

\* The worker decides to leave.
LEMMA LeaveLoopKeeps ==
  ASSUME ServiceInv, LeaveLoop
  PROVE  ServiceInv'
<1> USE DEF ServiceInv
<1>1. TypeOK'
  BY DEF TypeOK, LeaveLoop, WorkerGoto
<1>2. PendingIsExact'
  BY DEF PendingIsExact, JobsAreAccountedFor, LeaveLoop, WorkerGoto
<1>3. JobsAreAccountedFor'
  BY DEF JobsAreAccountedFor, TypeOK, Queued, LeaveLoop, WorkerGoto
<1>4. AdmissionEnds'
  BY DEF AdmissionEnds, WorkerExiting, LeaveLoop, WorkerGoto
<1>5. ExitedIsEmpty'
  BY DEF ExitedIsEmpty, AdmissionEnds, WorkerExiting, LeaveLoop, WorkerGoto
<1>6. CompletionsAreOwed'
  BY DEF CompletionsAreOwed, JobsAreAccountedFor, TypeOK, Queued, Posted, LeaveLoop, WorkerGoto
<1>7. StopsFollowCompletions'
  BY DEF StopsFollowCompletions, StopsInOrder, Posted, WorkerExited, TypeOK, LeaveLoop, WorkerGoto
<1> QED BY <1>1, <1>2, <1>3, <1>4, <1>5, <1>6, <1>7

\* The job in hand runs.
LEMMA RunJobKeeps ==
  ASSUME ServiceInv, RunJob
  PROVE  ServiceInv'
<1> USE DEF ServiceInv
<1>1. PICK j \in Jobs : in_hand = {j} /\ status[j] = "accepted" /\ j \notin failed_jobs
  BY DEF JobsAreAccountedFor, RunJob
<1>2. /\ status' = [status EXCEPT ![j] = "ran"]
      /\ failed_jobs' = failed_jobs \/ failed_jobs' = failed_jobs \cup {j}
  BY <1>1 DEF RunJob, SetStatus
<1>3. ~Queued(j) /\ in_hand' = in_hand /\ jobs' = jobs /\ pending' = pending
  BY <1>1 DEF JobsAreAccountedFor, RunJob
<1>4. \A h : Queued(h)' <=> Queued(h)
  BY <1>3 DEF Queued
<1>5. IsFiniteSet(failed_jobs')
  BY <1>2, FS_AddElement DEF JobsAreAccountedFor
<1>6. failed_jobs' \subseteq failed_jobs \cup {j} /\ worker' = "ran"
  BY <1>2 DEF RunJob, WorkerGoto
<1>7. TypeOK'
  BY <1>1, <1>2, <1>3, <1>4, <1>5, <1>6 DEF TypeOK, RunJob, WorkerGoto, SetStatus
<1>8. PendingIsExact'
  <2>1. CASE failed_jobs' = failed_jobs
    BY <1>3, <2>1 DEF PendingIsExact
  <2>2. CASE failed_jobs' = failed_jobs \cup {j}
    <3>1. in_hand \ failed_jobs = {j} /\ in_hand' \ failed_jobs' = {}
      BY <1>1, <1>3, <2>2
    <3>2. Cardinality(failed_jobs') = Cardinality(failed_jobs) + 1 /\ Cardinality(failed_jobs) \in Nat
      BY <1>1, <2>2, Counts
    <3>3. Len(jobs) \in Nat
      BY LenProperties DEF TypeOK
    <3>4. /\ Cardinality(in_hand \ failed_jobs) = 1
          /\ Cardinality(in_hand' \ failed_jobs') = 0
      BY <3>1, Counts
    <3>5. pending = Len(jobs) + 1 + Cardinality(failed_jobs)
      BY <3>4 DEF PendingIsExact
    <3>6. pending' = Len(jobs') + 0 + Cardinality(failed_jobs')
      BY <1>3, <3>2, <3>3, <3>5
    <3> QED BY <3>4, <3>6 DEF PendingIsExact
  <2> QED BY <1>2, <2>1, <2>2
<1>9. JobsAreAccountedFor'
  <2>1. status'[j] = "ran" /\ \A h \in Jobs : h # j => status'[h] = status[h]
    BY <1>2 DEF TypeOK
  <2>2. \A i, k \in DOMAIN jobs' : jobs'[i] = jobs'[k] => i = k
    BY <1>3 DEF JobsAreAccountedFor
  <2>3. \A h \in Jobs : Queued(h)' => status'[h] = "accepted" /\ h \notin in_hand'
    BY <1>1, <1>3, <1>4, <2>1 DEF JobsAreAccountedFor
  <2>4. \A h \in failed_jobs' : status'[h] \in {"ran", "delivered"}
    <3>1. /\ \A h \in failed_jobs : status[h] \in {"ran", "delivered"}
          /\ failed_jobs \subseteq Jobs
      BY DEF JobsAreAccountedFor, TypeOK, Jobs
    <3> QED BY <1>6, <2>1, <3>1
  <2>5. in_hand' = {j}
    BY <1>1, <1>3
  <2>6. \A h \in in_hand' : status'[h] \in {"ran", "delivered"}
    BY <2>1, <2>5
  <2>7. worker' = "ran"
    BY <1>6
  <2> HIDE DEF ServiceInv
  <2> QED BY <1>5, <2>2, <2>3, <2>4, <2>5, <2>6, <2>7 DEF JobsAreAccountedFor
<1>10. AdmissionEnds'
  BY <1>1, <1>2, <1>3, <1>4, <1>5, <1>6 DEF AdmissionEnds, WorkerExiting, RunJob, WorkerGoto, SetStatus
<1>11. ExitedIsEmpty'
  BY <1>1, <1>2, <1>3, <1>4, <1>5, <1>6 DEF ExitedIsEmpty, AdmissionEnds, WorkerExiting, RunJob, WorkerGoto, SetStatus
<1>12. CompletionsAreOwed'
  BY <1>1, <1>2, <1>3, <1>4, <1>5, <1>6 DEF CompletionsAreOwed, JobsAreAccountedFor, TypeOK, Queued, Posted, RunJob, WorkerGoto, SetStatus
<1>13. StopsFollowCompletions'
  BY <1>1, <1>2, <1>3, <1>4, <1>5, <1>6 DEF StopsFollowCompletions, StopsInOrder, Posted, WorkerExited, TypeOK, RunJob, WorkerGoto, SetStatus
<1> QED BY <1>7, <1>8, <1>9, <1>10, <1>11, <1>12, <1>13

\* The completion of the job in hand is posted.
LEMMA PostCompletedKeeps ==
  ASSUME ServiceInv, NEW j \in Jobs, in_hand = {j}, PostCompleted,
         Post(<<"Completed", j>>), status' = status
  PROVE  ServiceInv'
<1> USE DEF ServiceInv
<1>1. <<"Completed", j>> \in Events
  BY EventKinds
<1>2. /\ qt' \in Seq(Events)
      /\ \A f : Posted(f)' <=> Posted(f) \/ f = <<"Completed", j>>
      /\ StopsInOrder /\ ~Posted(<<"DeliverStopped">>) => StopsInOrder'
  BY <1>1, PostEffect, EventKinds
<1>3. TypeOK'
  BY <1>1, <1>2 DEF TypeOK, PostCompleted, WorkerGoto
<1>4. PendingIsExact'
  BY <1>1, <1>2 DEF PendingIsExact, JobsAreAccountedFor, PostCompleted, WorkerGoto
<1>5. JobsAreAccountedFor'
  BY <1>1, <1>2 DEF JobsAreAccountedFor, TypeOK, Queued, PostCompleted, WorkerGoto
<1>6. AdmissionEnds'
  BY <1>1, <1>2 DEF AdmissionEnds, WorkerExiting, PostCompleted, WorkerGoto
<1>7. ExitedIsEmpty'
  BY <1>1, <1>2 DEF ExitedIsEmpty, AdmissionEnds, WorkerExiting, PostCompleted, WorkerGoto
<1>8. CompletionsAreOwed'
  BY <1>1, <1>2, EventKinds DEF CompletionsAreOwed, JobsAreAccountedFor, TypeOK, Queued, PostCompleted, WorkerGoto
<1>9. StopsFollowCompletions'
  BY <1>1, <1>2, EventKinds DEF StopsFollowCompletions, WorkerExited, TypeOK, PostCompleted, WorkerGoto
<1> QED BY <1>3, <1>4, <1>5, <1>6, <1>7, <1>8, <1>9

\* The job in hand has no completion.
LEMMA NoCompletionKeeps ==
  ASSUME ServiceInv, NEW j \in Jobs, in_hand = {j}, PostCompleted,
         SetStatus(j, "delivered"), qt' = qt
  PROVE  ServiceInv'
<1> USE DEF ServiceInv
<1>1. TypeOK'
  BY DEF TypeOK, PostCompleted, WorkerGoto, SetStatus
<1>2. PendingIsExact'
  BY DEF PendingIsExact, JobsAreAccountedFor, PostCompleted, WorkerGoto, SetStatus
<1>3. JobsAreAccountedFor'
  BY DEF JobsAreAccountedFor, TypeOK, Queued, PostCompleted, WorkerGoto, SetStatus
<1>4. AdmissionEnds'
  BY DEF AdmissionEnds, WorkerExiting, PostCompleted, WorkerGoto, SetStatus
<1>5. ExitedIsEmpty'
  BY DEF ExitedIsEmpty, AdmissionEnds, WorkerExiting, PostCompleted, WorkerGoto, SetStatus
<1>6. CompletionsAreOwed'
  BY DEF CompletionsAreOwed, JobsAreAccountedFor, TypeOK, Queued, Posted, PostCompleted, WorkerGoto, SetStatus
<1>7. StopsFollowCompletions'
  BY DEF StopsFollowCompletions, StopsInOrder, Posted, WorkerExited, TypeOK, PostCompleted, WorkerGoto, SetStatus
<1> QED BY <1>1, <1>2, <1>3, <1>4, <1>5, <1>6, <1>7

\* The worker accounts for the job in hand.
LEMMA AccountKeeps ==
  ASSUME ServiceInv, Account
  PROVE  ServiceInv'
<1> USE DEF ServiceInv
<1>1. PICK j \in Jobs : in_hand = {j}
  BY DEF JobsAreAccountedFor, Account
<1>2. Cardinality(failed_jobs) \in Nat /\ Cardinality({}) = 0 /\ Cardinality({j}) = 1 /\ Len(jobs) \in Nat
  BY Counts, LenProperties DEF TypeOK
<1>3. jobs' = jobs /\ failed_jobs' = failed_jobs /\ in_hand' = {}
  BY DEF Account
<1>4. Cardinality(in_hand' \ failed_jobs') = 0
  BY <1>2, <1>3
<1>5. pending' = Len(jobs') + 0 + Cardinality(failed_jobs')
  <2>1. CASE j \in failed_jobs
    <3>1. in_hand \ failed_jobs = {} /\ pending' = pending
      BY <1>1, <2>1 DEF Account
    <3> QED BY <1>2, <1>3, <3>1 DEF PendingIsExact
  <2>2. CASE j \notin failed_jobs
    <3>1. in_hand \ failed_jobs = {j} /\ pending' = pending - 1
      BY <1>1, <2>2 DEF Account
    <3>2. pending = Len(jobs) + 1 + Cardinality(failed_jobs)
      BY <1>2, <3>1 DEF PendingIsExact
    <3> QED BY <1>2, <1>3, <3>1, <3>2
  <2> QED BY <2>1, <2>2
<1>6. TypeOK'
  BY <1>1, <1>2, <1>3, <1>4, <1>5 DEF TypeOK, Account, WorkerGoto
<1>7. PendingIsExact'
  BY <1>4, <1>5 DEF PendingIsExact
<1>8. JobsAreAccountedFor'
  BY <1>1, <1>2, <1>3, <1>4, <1>5 DEF JobsAreAccountedFor, TypeOK, Queued, Account, WorkerGoto
<1>9. AdmissionEnds'
  BY <1>1, <1>2, <1>3, <1>4, <1>5 DEF AdmissionEnds, WorkerExiting, Account, WorkerGoto
<1>10. ExitedIsEmpty'
  BY <1>1, <1>2, <1>3, <1>4, <1>5 DEF ExitedIsEmpty, AdmissionEnds, WorkerExiting, Account, WorkerGoto
<1>11. CompletionsAreOwed'
  BY <1>1, <1>2, <1>3, <1>4, <1>5 DEF CompletionsAreOwed, JobsAreAccountedFor, TypeOK, Queued, Posted, Account, WorkerGoto
<1>12. StopsFollowCompletions'
  BY <1>1, <1>2, <1>3, <1>4, <1>5 DEF StopsFollowCompletions, StopsInOrder, Posted, WorkerExited, TypeOK, Account, WorkerGoto
<1> QED BY <1>6, <1>7, <1>8, <1>9, <1>10, <1>11, <1>12

\* The worker reports that nothing is pending.
LEMMA PostDrainsKeeps ==
  ASSUME ServiceInv, PostDrains
  PROVE  ServiceInv'
<1> USE DEF ServiceInv
<1>1. <<"DeliverDrains">> \in Events
  BY EventKinds
<1>2. /\ qt' \in Seq(Events)
      /\ \A f : Posted(f)' <=> Posted(f) \/ f = <<"DeliverDrains">>
      /\ StopsInOrder /\ (\/ \A j \in Jobs : <<"DeliverDrains">> # <<"Completed", j>>
                          \/ ~Posted(<<"DeliverStopped">>) /\ <<"DeliverDrains">> # <<"DeliverStopped">>)
           => StopsInOrder'
  BY <1>1, PostEffect DEF PostDrains
<1>3. TypeOK'
  BY <1>1, <1>2 DEF TypeOK, PostDrains, WorkerGoto
<1>4. PendingIsExact'
  BY <1>1, <1>2 DEF PendingIsExact, JobsAreAccountedFor, PostDrains, WorkerGoto
<1>5. JobsAreAccountedFor'
  BY <1>1, <1>2 DEF JobsAreAccountedFor, TypeOK, Queued, PostDrains, WorkerGoto
<1>6. AdmissionEnds'
  BY <1>1, <1>2 DEF AdmissionEnds, WorkerExiting, PostDrains, WorkerGoto
<1>7. ExitedIsEmpty'
  BY <1>1, <1>2 DEF ExitedIsEmpty, AdmissionEnds, WorkerExiting, PostDrains, WorkerGoto
<1>8. CompletionsAreOwed'
  BY <1>1, <1>2, EventKinds DEF CompletionsAreOwed, JobsAreAccountedFor, TypeOK, Queued, PostDrains, WorkerGoto
<1>9. StopsFollowCompletions'
  BY <1>1, <1>2, EventKinds DEF StopsFollowCompletions, WorkerExited, TypeOK, PostDrains, WorkerGoto
<1> QED BY <1>3, <1>4, <1>5, <1>6, <1>7, <1>8, <1>9

\* The worker leaves its loop.
LEMMA ExitLoopKeeps ==
  ASSUME ServiceInv, ExitLoop
  PROVE  ServiceInv'
<1> USE DEF ServiceInv
<1>1. TypeOK'
  BY DEF TypeOK, ExitLoop, WorkerGoto
<1>2. PendingIsExact'
  BY DEF PendingIsExact, JobsAreAccountedFor, ExitLoop, WorkerGoto
<1>3. JobsAreAccountedFor'
  BY DEF JobsAreAccountedFor, TypeOK, Queued, ExitLoop, WorkerGoto
<1>4. AdmissionEnds'
  BY DEF AdmissionEnds, WorkerExiting, ExitLoop, WorkerGoto
<1>5. ExitedIsEmpty'
  BY DEF ExitedIsEmpty, AdmissionEnds, WorkerExiting, ExitLoop, WorkerGoto
<1>6. CompletionsAreOwed'
  BY DEF CompletionsAreOwed, JobsAreAccountedFor, TypeOK, Queued, Posted, ExitLoop, WorkerGoto
<1>7. StopsFollowCompletions'
  BY DEF StopsFollowCompletions, StopsInOrder, Posted, WorkerExited, TypeOK, ExitLoop, WorkerGoto
<1> QED BY <1>1, <1>2, <1>3, <1>4, <1>5, <1>6, <1>7

\* The worker's last event.
LEMMA PostStoppedKeeps ==
  ASSUME ServiceInv, PostStopped
  PROVE  ServiceInv'
<1> USE DEF ServiceInv
<1>1. <<"DeliverStopped">> \in Events
  BY EventKinds
<1>2. /\ qt' \in Seq(Events)
      /\ \A f : Posted(f)' <=> Posted(f) \/ f = <<"DeliverStopped">>
      /\ StopsInOrder /\ (\/ \A j \in Jobs : <<"DeliverStopped">> # <<"Completed", j>>
                          \/ ~Posted(<<"DeliverStopped">>) /\ <<"DeliverStopped">> # <<"DeliverStopped">>)
           => StopsInOrder'
  BY <1>1, PostEffect DEF PostStopped
<1>3. TypeOK'
  BY <1>1, <1>2 DEF TypeOK, PostStopped, WorkerGoto
<1>4. PendingIsExact'
  BY <1>1, <1>2 DEF PendingIsExact, JobsAreAccountedFor, PostStopped, WorkerGoto
<1>5. JobsAreAccountedFor'
  BY <1>1, <1>2 DEF JobsAreAccountedFor, TypeOK, Queued, PostStopped, WorkerGoto
<1>6. AdmissionEnds'
  BY <1>1, <1>2 DEF AdmissionEnds, WorkerExiting, PostStopped, WorkerGoto
<1>7. ExitedIsEmpty'
  BY <1>1, <1>2 DEF ExitedIsEmpty, AdmissionEnds, WorkerExiting, PostStopped, WorkerGoto
<1>8. CompletionsAreOwed'
  BY <1>1, <1>2, EventKinds DEF CompletionsAreOwed, JobsAreAccountedFor, TypeOK, Queued, PostStopped, WorkerGoto
<1>9. StopsFollowCompletions'
  BY <1>1, <1>2, EventKinds DEF StopsFollowCompletions, WorkerExited, TypeOK, PostStopped, WorkerGoto
<1> QED BY <1>3, <1>4, <1>5, <1>6, <1>7, <1>8, <1>9

\* A completion runs on the Qt thread.
LEMMA DeliverCompletedKeeps ==
  ASSUME ServiceInv, NEW j \in Jobs, DeliverCompleted(j)
  PROVE  ServiceInv'
<1> USE DEF ServiceInv
<1>1. /\ qt' \in Seq(Events)
      /\ Posted(<<"Completed", j>>)
      /\ \A f : Posted(f)' => Posted(f)
      /\ \A f : Posted(f) => Posted(f)' \/ f = <<"Completed", j>>
      /\ StopsInOrder => StopsInOrder'
  BY EventEffect DEF DeliverCompleted
<1>2. \A h : Queued(h)' <=> Queued(h)
  BY DEF Queued, DeliverCompleted, qtFrame
<1>3. status[j] \in {"ran", "delivered"}
  BY <1>1 DEF CompletionsAreOwed
<1>4. TypeOK'
  BY <1>1, <1>2, <1>3 DEF TypeOK, DeliverCompleted, NextEvent, SetStatus, qtFrame
<1>5. PendingIsExact'
  BY <1>1, <1>2, <1>3 DEF PendingIsExact, JobsAreAccountedFor, DeliverCompleted, NextEvent, SetStatus, qtFrame
<1>6. JobsAreAccountedFor'
  BY <1>1, <1>2, <1>3 DEF JobsAreAccountedFor, TypeOK, DeliverCompleted, NextEvent, SetStatus, qtFrame
<1>7. AdmissionEnds'
  BY <1>1, <1>2, <1>3 DEF AdmissionEnds, WorkerExiting, DeliverCompleted, NextEvent, SetStatus, qtFrame
<1>8. ExitedIsEmpty'
  BY <1>1, <1>2, <1>3 DEF ExitedIsEmpty, AdmissionEnds, WorkerExiting, DeliverCompleted, NextEvent, SetStatus, qtFrame
<1>9. CompletionsAreOwed'
  BY <1>1, <1>2, <1>3, EventKinds DEF CompletionsAreOwed, TypeOK, DeliverCompleted, NextEvent, SetStatus, qtFrame
<1>10. StopsFollowCompletions'
  BY <1>1, <1>2, <1>3, EventKinds DEF StopsFollowCompletions, WorkerExited, TypeOK, DeliverCompleted, NextEvent, SetStatus, qtFrame
<1> QED BY <1>4, <1>5, <1>6, <1>7, <1>8, <1>9, <1>10

\* The Qt thread enters DeliverDrains.
LEMMA BeginDrainsKeeps ==
  ASSUME ServiceInv, BeginDrains
  PROVE  ServiceInv'
<1> USE DEF ServiceInv
<1>1. /\ qt' \in Seq(Events)
      /\ Posted(<<"DeliverDrains">>)
      /\ \A f : Posted(f)' => Posted(f)
      /\ \A f : Posted(f) => Posted(f)' \/ f = <<"DeliverDrains">>
      /\ StopsInOrder => StopsInOrder'
      /\ StopsInOrder /\ <<"DeliverDrains">> = <<"DeliverStopped">> =>
           \A j \in Jobs : ~Posted(<<"Completed", j>>)
  BY EventEffect DEF BeginDrains
<1>2. TypeOK'
  BY <1>1 DEF TypeOK, BeginDrains, NextEvent, qtFrame
<1>3. PendingIsExact'
  BY <1>1 DEF PendingIsExact, JobsAreAccountedFor, BeginDrains, NextEvent, qtFrame
<1>4. JobsAreAccountedFor'
  BY <1>1 DEF JobsAreAccountedFor, TypeOK, Queued, BeginDrains, NextEvent, qtFrame
<1>5. AdmissionEnds'
  BY <1>1 DEF AdmissionEnds, WorkerExiting, BeginDrains, NextEvent, qtFrame
<1>6. ExitedIsEmpty'
  BY <1>1 DEF ExitedIsEmpty, AdmissionEnds, WorkerExiting, BeginDrains, NextEvent, qtFrame
<1>7. CompletionsAreOwed'
  BY <1>1, EventKinds DEF CompletionsAreOwed, JobsAreAccountedFor, TypeOK, Queued, BeginDrains, NextEvent, qtFrame
<1>8. StopsFollowCompletions'
  BY <1>1, EventKinds DEF StopsFollowCompletions, WorkerExited, TypeOK, BeginDrains, NextEvent, qtFrame
<1> QED BY <1>2, <1>3, <1>4, <1>5, <1>6, <1>7, <1>8

\* The Qt thread enters DeliverStopped.
LEMMA BeginStoppedKeeps ==
  ASSUME ServiceInv, BeginStopped
  PROVE  ServiceInv'
<1> USE DEF ServiceInv
<1>1. /\ qt' \in Seq(Events)
      /\ Posted(<<"DeliverStopped">>)
      /\ \A f : Posted(f)' => Posted(f)
      /\ \A f : Posted(f) => Posted(f)' \/ f = <<"DeliverStopped">>
      /\ StopsInOrder => StopsInOrder'
      /\ StopsInOrder /\ <<"DeliverStopped">> = <<"DeliverStopped">> =>
           \A j \in Jobs : ~Posted(<<"Completed", j>>)
  BY EventEffect DEF BeginStopped
<1>2. TypeOK'
  BY <1>1 DEF TypeOK, BeginStopped, NextEvent, qtFrame
<1>3. PendingIsExact'
  BY <1>1 DEF PendingIsExact, JobsAreAccountedFor, BeginStopped, NextEvent, qtFrame
<1>4. JobsAreAccountedFor'
  BY <1>1 DEF JobsAreAccountedFor, TypeOK, Queued, BeginStopped, NextEvent, qtFrame
<1>5. AdmissionEnds'
  BY <1>1 DEF AdmissionEnds, WorkerExiting, BeginStopped, NextEvent, qtFrame
<1>6. ExitedIsEmpty'
  BY <1>1 DEF ExitedIsEmpty, AdmissionEnds, WorkerExiting, BeginStopped, NextEvent, qtFrame
<1>7. CompletionsAreOwed'
  BY <1>1, EventKinds DEF CompletionsAreOwed, JobsAreAccountedFor, TypeOK, Queued, BeginStopped, NextEvent, qtFrame
<1>8. StopsFollowCompletions'
  BY <1>1, EventKinds DEF StopsFollowCompletions, WorkerExited, TypeOK, BeginStopped, NextEvent, qtFrame
<1> QED BY <1>2, <1>3, <1>4, <1>5, <1>6, <1>7, <1>8

\* DeliverDrains returns.
LEMMA DrainsRoundEndsKeeps ==
  ASSUME ServiceInv, DrainsRound, pending # 0 \/ drains = <<>>
  PROVE  ServiceInv'
<1> USE DEF ServiceInv
<1>1. TypeOK'
  BY DEF TypeOK, DrainsRound, qtFrame
<1>2. PendingIsExact'
  BY DEF PendingIsExact, JobsAreAccountedFor, DrainsRound, qtFrame
<1>3. JobsAreAccountedFor'
  BY DEF JobsAreAccountedFor, TypeOK, Queued, DrainsRound, qtFrame
<1>4. AdmissionEnds'
  BY DEF AdmissionEnds, WorkerExiting, DrainsRound, qtFrame
<1>5. ExitedIsEmpty'
  BY DEF ExitedIsEmpty, AdmissionEnds, WorkerExiting, DrainsRound, qtFrame
<1>6. CompletionsAreOwed'
  BY DEF CompletionsAreOwed, JobsAreAccountedFor, TypeOK, Queued, Posted, DrainsRound, qtFrame
<1>7. StopsFollowCompletions'
  BY DEF StopsFollowCompletions, StopsInOrder, Posted, WorkerExited, TypeOK, DrainsRound, qtFrame
<1> QED BY <1>1, <1>2, <1>3, <1>4, <1>5, <1>6, <1>7

\* DeliverDrains calls back.
LEMMA DrainsRoundKeeps ==
  ASSUME ServiceInv, DrainsRound, pending = 0, drains # <<>>
  PROVE  ServiceInv'
<1> USE DEF ServiceInv
<1>1. drains \in Seq(Drains) /\ drains # <<>> /\ drains' = Tail(drains)
  BY DEF TypeOK, DrainsRound
<1>2. drains' \in Seq(Drains) /\ Head(drains) \in Drains
  BY <1>1, TailSeq DEF TypeOK
<1>3. TypeOK'
  BY <1>1, <1>2 DEF TypeOK, DrainsRound, qtFrame
<1>4. PendingIsExact'
  BY <1>1, <1>2 DEF PendingIsExact, JobsAreAccountedFor, DrainsRound, qtFrame
<1>5. JobsAreAccountedFor'
  BY <1>1, <1>2 DEF JobsAreAccountedFor, TypeOK, Queued, DrainsRound, qtFrame
<1>6. AdmissionEnds'
  BY <1>1, <1>2 DEF AdmissionEnds, WorkerExiting, DrainsRound, qtFrame
<1>7. ExitedIsEmpty'
  BY <1>1, <1>2 DEF ExitedIsEmpty, AdmissionEnds, WorkerExiting, DrainsRound, qtFrame
<1>8. CompletionsAreOwed'
  BY <1>1, <1>2 DEF CompletionsAreOwed, JobsAreAccountedFor, TypeOK, Queued, Posted, DrainsRound, qtFrame
<1>9. StopsFollowCompletions'
  BY <1>1, <1>2, JobsAssumption DEF StopsFollowCompletions, StopsInOrder, Posted, WorkerExited, TypeOK, DrainsRound, qtFrame
<1> QED BY <1>3, <1>4, <1>5, <1>6, <1>7, <1>8, <1>9

\* DeliverStopped returns.
LEMMA StopsRoundEndsKeeps ==
  ASSUME ServiceInv, StopsRound, stopped = <<>>
  PROVE  ServiceInv'
<1> USE DEF ServiceInv
<1>1. TypeOK'
  BY DEF TypeOK, StopsRound, qtFrame
<1>2. PendingIsExact'
  BY DEF PendingIsExact, JobsAreAccountedFor, StopsRound, qtFrame
<1>3. JobsAreAccountedFor'
  BY DEF JobsAreAccountedFor, TypeOK, Queued, StopsRound, qtFrame
<1>4. AdmissionEnds'
  BY DEF AdmissionEnds, WorkerExiting, StopsRound, qtFrame
<1>5. ExitedIsEmpty'
  BY DEF ExitedIsEmpty, AdmissionEnds, WorkerExiting, StopsRound, qtFrame
<1>6. CompletionsAreOwed'
  BY DEF CompletionsAreOwed, JobsAreAccountedFor, TypeOK, Queued, Posted, StopsRound, qtFrame
<1>7. StopsFollowCompletions'
  BY DEF StopsFollowCompletions, StopsInOrder, Posted, WorkerExited, TypeOK, StopsRound, qtFrame
<1> QED BY <1>1, <1>2, <1>3, <1>4, <1>5, <1>6, <1>7

\* DeliverStopped calls back.
LEMMA StopsRoundKeeps ==
  ASSUME ServiceInv, StopsRound, stopped # <<>>
  PROVE  ServiceInv'
<1> USE DEF ServiceInv
<1>1. stopped' \in Seq(Stops) /\ Head(stopped) \in Stops
  BY ZenonT(30), TailSeq DEF TypeOK, StopsRound
<1>2. TypeOK'
  BY <1>1 DEF TypeOK, StopsRound, qtFrame
<1>3. PendingIsExact'
  BY <1>1 DEF PendingIsExact, JobsAreAccountedFor, StopsRound, qtFrame
<1>4. JobsAreAccountedFor'
  BY <1>1 DEF JobsAreAccountedFor, TypeOK, Queued, StopsRound, qtFrame
<1>5. AdmissionEnds'
  BY <1>1 DEF AdmissionEnds, WorkerExiting, StopsRound, qtFrame
<1>6. ExitedIsEmpty'
  BY <1>1 DEF ExitedIsEmpty, AdmissionEnds, WorkerExiting, StopsRound, qtFrame
<1>7. CompletionsAreOwed'
  BY <1>1 DEF CompletionsAreOwed, JobsAreAccountedFor, TypeOK, Queued, Posted, StopsRound, qtFrame
<1>8. StopsFollowCompletions'
  BY <1>1 DEF StopsFollowCompletions, StopsInOrder, Posted, WorkerExited, TypeOK, StopsRound, qtFrame
<1> QED BY <1>2, <1>3, <1>4, <1>5, <1>6, <1>7, <1>8

-----------------------------------------------------------------------------

LEMMA InitKeeps == Init => ServiceInv
<1> SUFFICES ASSUME Init PROVE ServiceInv
  OBVIOUS
<1>1. TypeOK
  BY EmptySeq DEF Init, TypeOK
<1>2. JobsAreAccountedFor
  BY EmptySeq, LenProperties, FS_EmptySet DEF Init, JobsAreAccountedFor, Queued
<1>3. PendingIsExact
  <2>1. Len(jobs) = 0 /\ in_hand \ failed_jobs = {} /\ failed_jobs = {} /\ pending = 0
    BY EmptySeq DEF Init
  <2> QED BY <2>1, FS_EmptySet DEF PendingIsExact
<1>4. \A e : ~Posted(e)
  BY EmptySeq DEF Init, Posted
<1>5. AdmissionEnds /\ ExitedIsEmpty /\ CompletionsAreOwed
  BY <1>4 DEF Init, AdmissionEnds, ExitedIsEmpty, CompletionsAreOwed, WorkerExiting
<1>6. StopsFollowCompletions
  BY <1>4 DEF Init, StopsFollowCompletions, StopsInOrder, Posted
<1> QED BY <1>1, <1>2, <1>3, <1>5, <1>6 DEF ServiceInv

LEMMA StutterKeeps == ServiceInv /\ UNCHANGED vars => ServiceInv'
BY DEF ServiceInv, TypeOK, PendingIsExact, JobsAreAccountedFor, AdmissionEnds, ExitedIsEmpty,
       CompletionsAreOwed, StopsFollowCompletions, StopsInOrder, Posted, Queued,
       WorkerExiting, WorkerExited, vars, serviceVars

LEMMA NextKeeps == ServiceInv /\ Next => ServiceInv'
<1> SUFFICES ASSUME ServiceInv, Next PROVE ServiceInv'
  OBVIOUS
<1>1. ASSUME NEW j \in Jobs, Submit(j) PROVE ServiceInv'
  <2>1. CASE accepting
    <3>1. ~WorkerExiting
      BY <2>1 DEF ServiceInv, AdmissionEnds
    <3>2. Enqueue(j) /\ status[j] = "new"
      BY <1>1, <2>1 DEF Submit
    <3> QED BY <3>1, <3>2, EnqueueKeeps
  <2>2. CASE ~accepting
    BY <1>1, <2>2, SubmitRefusedKeeps
  <2> QED BY <2>1, <2>2
<1>2. ASSUME NEW j \in Jobs, SubmitCleanup(j) PROVE ServiceInv'
  BY <1>2, EnqueueKeeps DEF SubmitCleanup
<1>3. ASSUME NEW d \in Drains, DrainAsync(d) PROVE ServiceInv'
  BY <1>3, DrainAsyncKeeps, DrainAsyncIdleKeeps
<1>4. ASSUME NEW s \in Stops, ShutdownAsync(s) PROVE ServiceInv'
  BY <1>4, ShutdownAsyncKeeps, ShutdownAsyncLateKeeps
<1>5. CASE WorkerStep
  <2>1. CASE PostCompleted
    <3>1. PICK j \in Jobs : in_hand = {j}
      BY <2>1 DEF PostCompleted, ServiceInv, JobsAreAccountedFor
    <3>2. \/ Post(<<"Completed", j>>) /\ status' = status
          \/ SetStatus(j, "delivered") /\ qt' = qt
      BY <2>1, <3>1 DEF PostCompleted
    <3> QED BY <2>1, <3>1, <3>2, PostCompletedKeeps, NoCompletionKeeps
  <2> QED BY <1>5, <2>1, TakeJobKeeps, LeaveLoopKeeps, RunJobKeeps, AccountKeeps,
             PostDrainsKeeps, ExitLoopKeeps, PostStoppedKeeps DEF WorkerStep
<1>6. CASE QtStep
  <2>1. CASE DrainsRound
    <3>1. pending # 0 \/ drains = <<>> \/ (pending = 0 /\ drains # <<>>)
      OBVIOUS
    <3> QED BY <2>1, <3>1, DrainsRoundEndsKeeps, DrainsRoundKeeps
  <2>2. CASE StopsRound
    BY <2>2, StopsRoundEndsKeeps, StopsRoundKeeps
  <2> QED BY <1>6, <2>1, <2>2, DeliverCompletedKeeps, BeginDrainsKeeps,
             BeginStoppedKeeps DEF QtStep
<1> QED BY <1>1, <1>2, <1>3, <1>4, <1>5, <1>6 DEF Next

\* The inductive invariant of the service: where every accepted job is, and
\* what is still to come on the Qt thread.
THEOREM ServiceInvariant == Spec => []ServiceInv
<1>1. ServiceInv /\ [Next]_vars => ServiceInv'
  BY NextKeeps, StutterKeeps
<1> QED BY <1>1, InitKeeps, PTL DEF Spec

\* The types of the service, for any jobs and requests.
THEOREM TypesHold == Spec => []TypeOK
<1>1. ServiceInv => TypeOK
  BY DEF ServiceInv
<1> QED BY <1>1, ServiceInvariant, PTL

\* pending is exact for any jobs, failed cleanups included.
THEOREM PendingCounts == Spec => []PendingIsExact
<1>1. ServiceInv => PendingIsExact
  BY DEF ServiceInv
<1> QED BY <1>1, ServiceInvariant, PTL

\* The worker never leaves a job behind.
THEOREM WorkerLeavesNothing == Spec => []ExitedIsEmpty
<1>1. ServiceInv => ExitedIsEmpty
  BY DEF ServiceInv
<1> QED BY <1>1, ServiceInvariant, PTL

\* The stopped callbacks come after every completion of an accepted job, and
\* never while a failed cleanup still holds its resources.
THEOREM StoppedComesLast == Spec => []StoppedIsLast
<1>1. ServiceInv => StoppedIsLast
  <2> SUFFICES ASSUME ServiceInv, called \cap Stops # {}
               PROVE  Undelivered = {} /\ failed_jobs = {}
    BY DEF StoppedIsLast
  <2>1. worker = "gone" /\ \A j \in Jobs : ~Posted(<<"Completed", j>>)
    BY DEF ServiceInv, StopsFollowCompletions
  <2>2. jobs = <<>> /\ pending = 0
    BY <2>1 DEF ServiceInv, ExitedIsEmpty, WorkerExiting
  <2>3. \A j \in Jobs : ~Queued(j)
    BY <2>2, EmptySeq DEF Queued
  <2>4. Undelivered = {}
    BY <2>1, <2>3 DEF ServiceInv, CompletionsAreOwed, Undelivered
  <2>5. /\ Cardinality(failed_jobs) \in Nat
        /\ Cardinality(in_hand \ failed_jobs) \in Nat
    BY Counts DEF ServiceInv
  <2>6. Len(jobs) = 0
    BY <2>2, EmptySeq
  <2>7. Cardinality(failed_jobs) = 0
    BY <2>2, <2>5, <2>6 DEF ServiceInv, PendingIsExact
  <2>8. failed_jobs = {}
    BY <2>7, FS_EmptySet DEF ServiceInv, JobsAreAccountedFor
  <2> QED BY <2>4, <2>8
<1> QED BY <1>1, ServiceInvariant, PTL

===============================================================================
