--------------------- MODULE PublicationCommits_proofs ---------------------
(* Proofs about LocalPublication, continued.  The invariant IInv of        *)
(* LocalPublication_proofs says what each transaction may have.  To it     *)
(* this module adds JInv, how transactions keep out of each other's way,   *)
(* by which commits are negotiated; SInv, what the server has yet to be    *)
(* told of the senders, by which it is reconciled; and HInv, the past of a *)
(* track, by which recoveries bring back what was published and not        *)
(* removed.                                                                *)
EXTENDS LocalPublication_proofs

\* The publications, and the transactions that may become one.
Live == published \cup {n \in Ids : ops[n].kind # "unpublish" /\ Current(n) /\ ~Ended(n)}

Removal(m) == ops[m].kind = "unpublish" /\ Current(m)
PastOrDone == Past \cup {"done"}

-----------------------------------------------------------------------------
(* The invariant: tracks.                                                  *)

\* No track is published twice, and what a restart has still to publish is
\* left to it.
OneOfATrack ==
  /\ \A p \in published : Current(p)
  /\ \A n1, n2 \in Live : ops[n1].track = ops[n2].track => n1 = n2
  /\ driver = "republishing" => \A n \in Live : ops[n].track \notin queue
  /\ driver = "connecting" => room = "Disconnected" /\ \A n \in Ids : ~Current(n)

-----------------------------------------------------------------------------
(* The invariant: removals.                                                *)

RemovalStages ==
  \A m \in Ids : ops[m].stage \in {"removing", "removed"} => ops[m].kind = "unpublish"

RemovalsOfSession ==
  \A m \in Ids : ops[m].kind = "unpublish" => ops[ops[m].of].gen = ops[m].gen

RemovalsIntended ==
  \A m \in Ids : Removal(m) /\ ~Ended(m) => ops[m].of \in unpublishing

OneRemoval ==
  \A m1, m2 \in Ids : (/\ Removal(m1) /\ Removal(m2) /\ ~Ended(m1) /\ ~Ended(m2)
                       /\ ops[m1].of = ops[m2].of) => m1 = m2

\* A removal that waits for its task has no other of its publication behind
\* it: that one had given up when this one began.
TasksInOrder ==
  \A i, j \in DOMAIN tasks : (i < j /\ Removal(tasks[i]) /\ Removal(tasks[j])) =>
     /\ tasks[i] # tasks[j]
     /\ ops[tasks[i]].of = ops[tasks[j]].of => ~At(tasks[i], "removing")

NoTaskLeft ==
  \A m \in Ids : (Removal(m) /\ ops[m].stage \in PastOrDone) =>
     \A i \in DOMAIN tasks : Removal(tasks[i]) => ops[tasks[i]].of # ops[m].of

RemovedIsGone ==
  \A m \in Ids : Removal(m) /\ At(m, "done") => ops[m].of \notin published

TaskOfPublished ==
  \A i \in DOMAIN tasks : Removal(tasks[i]) => ops[tasks[i]].of \in published

RInv ==
  /\ RemovalStages /\ RemovalsOfSession /\ RemovalsIntended /\ OneRemoval
  /\ TasksInOrder /\ NoTaskLeft /\ RemovedIsGone /\ TaskOfPublished

-----------------------------------------------------------------------------
(* The invariant: the connection and the rounds.                           *)

Contains(n) == (offer # None => n \in offer) /\ (answer # None => n \in answer)
Lacks(p) == p \notin offer /\ p \notin answer
Sending == {"installed", "negotiating", "negotiated"}

Installed ==
  \A n \in Ids : (ops[n].kind # "unpublish" /\ Current(n) /\ ops[n].stage \in Sending)
                   => n \in senders

SentOrTaken == \A p \in published : p \in senders \/ TakenAway(p)

WaitersCurrent == \A n \in waiters \ {Resume} : Current(n)

\* A round that nobody has asked to be followed by another has all changes
\* of those who wait for it.
RoundServes ==
  negotiation = "InProgress" =>
    \A n \in waiters \ {Resume} :
      /\ ops[n].kind = "unpublish" => Lacks(ops[n].of)
      /\ ops[n].kind # "unpublish" => Contains(n)

\* What has been answered stays so in every later offer.
Answered ==
  \A n \in Ids :
    \/ n \in published /\ ~TakenAway(n)
    \/ ops[n].kind # "unpublish" /\ Current(n) /\ At(n, "negotiated")
    => n \in answered /\ Contains(n)

Gone ==
  \A m \in Ids : Removal(m) /\ ops[m].stage \in {"negotiated", "done"} =>
    ops[m].of \notin senders \cup answered /\ Lacks(ops[m].of)

NInv ==
  /\ Installed /\ SentOrTaken /\ WaitersCurrent
  /\ RoundServes /\ Answered /\ Gone

JInv == OneOfATrack /\ RInv /\ NInv

-----------------------------------------------------------------------------
(* What a step does to the transactions.                                   *)

\* Those in S move to a stage; nothing else of any of them matters.
Moves(S, st) ==
  /\ Ids' = Ids /\ generation' = generation
  /\ \A n \in Ids : /\ ops'[n].kind = ops[n].kind /\ ops'[n].track = ops[n].track
                    /\ ops'[n].of = ops[n].of /\ ops'[n].gen = ops[n].gen
                    /\ ops'[n].stage = IF n \in S THEN st ELSE ops[n].stage

LEMMA NoneMoves ==
  ASSUME UNCHANGED <<ops, generation>>
  PROVE  Moves({}, "failing")
BY DEF Moves, Ids

LEMMA SomeMove ==
  ASSUME IInv, NEW S, NEW st \in Stages, MoveAll(S, st), UNCHANGED generation
  PROVE  Moves(S, st)
BY MoveAllKeeps DEF Moves, IInv

\* The tasks of removals are the same, in the same order, or fewer.
TasksKept ==
  /\ \A i \in DOMAIN tasks' : tasks'[i] \in Ids /\
       (ops[tasks'[i]].kind = "unpublish" => \E k \in DOMAIN tasks : tasks[k] = tasks'[i])
  /\ \A i, j \in DOMAIN tasks' :
       (i < j /\ ops[tasks'[i]].kind = "unpublish" /\ ops[tasks'[j]].kind = "unpublish") =>
         \E k, l \in DOMAIN tasks : k < l /\ tasks[k] = tasks'[i] /\ tasks[l] = tasks'[j]

LEMMA TasksStay ==
  ASSUME IInv, UNCHANGED tasks
  PROVE  TasksKept
BY DEF IInv, SetsType, TasksKept

LEMMA TaskRuns ==
  ASSUME IInv, tasks # <<>>, tasks' = Tail(tasks)
  PROVE  TasksKept
<1>1. tasks \in Seq(Nat) /\ \A i \in DOMAIN tasks : tasks[i] \in Ids
  BY DEF IInv, SetsType
<1>2. /\ DOMAIN tasks' \subseteq Nat
      /\ \A i \in DOMAIN tasks' : i + 1 \in DOMAIN tasks /\ tasks'[i] = tasks[i + 1]
  BY <1>1
<1>3. \A i \in DOMAIN tasks' : tasks'[i] \in Ids /\ \E k \in DOMAIN tasks : tasks[k] = tasks'[i]
  BY <1>1, <1>2
<1>4. \A i, j \in DOMAIN tasks' : i < j => i + 1 < j + 1
  BY <1>2
<1>5. \A i, j \in DOMAIN tasks' : i < j =>
        \E k, l \in DOMAIN tasks : k < l /\ tasks[k] = tasks'[i] /\ tasks[l] = tasks'[j]
  BY <1>2, <1>4
<1>6. QED
  BY <1>3, <1>5 DEF TasksKept

LEMMA TaskIsPosted ==
  ASSUME IInv, NEW n \in Ids, ops[n].kind # "unpublish", tasks' = Append(tasks, n)
  PROVE  TasksKept
<1>1. tasks \in Seq(Nat) /\ (\A i \in DOMAIN tasks : tasks[i] \in Ids) /\ n \in Nat
  BY IdsAreNumbers DEF IInv, SetsType
<1>2. /\ DOMAIN tasks' = DOMAIN tasks \cup {Len(tasks) + 1} /\ tasks'[Len(tasks) + 1] = n
      /\ \A i \in DOMAIN tasks : tasks'[i] = tasks[i]
  BY <1>1
<1>3. QED
  BY <1>1, <1>2 DEF TasksKept

-----------------------------------------------------------------------------
(* What most steps do to the invariant.                                    *)

LEMMA TracksKept ==
  ASSUME IInv, OneOfATrack, NEW S, NEW st, Moves(S, st), \A n \in S \cap Ids : ~Ended(n),
         published' \subseteq Live,
         driver' = "republishing" =>
           driver = "connecting" \/ (driver = "republishing" /\ queue' \subseteq queue),
         driver' = "connecting" =>
           driver = "connecting" /\ (room = "Disconnected" => room' = room)
  PROVE  OneOfATrack'
<1>1. \A n \in Ids : ~(Ended(n)') => ~Ended(n)
  BY DEF Moves, Ended
<1>2. published' \subseteq Ids
  BY DEF Live, IInv, PublishedDone
<1>3. Live' \subseteq Live /\ Live \subseteq Ids
  BY <1>1, <1>2 DEF Live, Moves, Current, IInv, PublishedDone
<1>4. \A p \in published' : Current(p)'
  BY <1>2 DEF OneOfATrack, Live, Moves, Current
<1>5. \A n1, n2 \in Live' : ops'[n1].track = ops'[n2].track => n1 = n2
  BY <1>3 DEF OneOfATrack, Moves
<1>6. driver' = "republishing" => \A n \in Live' : ops'[n].track \notin queue'
  <2>1. driver = "connecting" => Live = {}
    BY DEF OneOfATrack, Live, IInv, PublishedDone
  <2>2. QED
    BY <1>3, <2>1 DEF OneOfATrack, Moves
<1>7. driver' = "connecting" => room' = "Disconnected" /\ \A n \in Ids' : ~(Current(n)')
  BY DEF OneOfATrack, Moves, Current
<1>8. QED
  BY <1>4, <1>5, <1>6, <1>7 DEF OneOfATrack

LEMMA RemovalsKept ==
  ASSUME IInv, RInv, NEW S, NEW st, Moves(S, st), \A n \in S \cap Ids : ~Ended(n),
         st \notin {"removing", "removed"}, TasksKept, unpublishing \subseteq unpublishing',
         published \subseteq published', \A n \in published' \ published : ~Ended(n),
         \A m \in S \cap Ids :
           ops[m].kind = "unpublish" /\ st \in PastOrDone => st # "done" /\ ops[m].stage \in Past
  PROVE  RInv'
<1>1. \A m \in Ids : (Removal(m)' <=> Removal(m)) /\ (~(Ended(m)') => ~Ended(m))
  BY DEF Moves, Ended, Removal, Current
<1>2. RemovalStages' /\ RemovalsIntended' /\ OneRemoval'
  BY <1>1 DEF RInv, RemovalStages, RemovalsIntended, OneRemoval, Moves
<1>a. RemovalsOfSession'
  BY DEF RInv, RemovalsOfSession, Moves, IInv, RemovalsOfDone
<1>3. TasksInOrder'
  BY <1>1 DEF RInv, TasksInOrder, TasksKept, Moves, Removal, At
<1>4. NoTaskLeft'
  BY <1>1 DEF RInv, NoTaskLeft, TasksKept, Moves, Removal, PastOrDone
<1>5. RemovedIsGone'
  <2>1. SUFFICES ASSUME NEW m \in Ids, Removal(m), ops'[m].stage = "done"
                 PROVE  ops[m].of \notin published'
    BY <1>1 DEF RemovedIsGone, At, Moves
  <2>2. QED
    BY <2>1 DEF RInv, RemovedIsGone, IInv, RemovalsOfDone, Moves, Removal, At, Ended, PastOrDone
<1>6. TaskOfPublished'
  BY <1>1 DEF RInv, TaskOfPublished, TasksKept, Moves, Removal
<1>7. QED
  BY <1>2, <1>a, <1>3, <1>4, <1>5, <1>6 DEF RInv

\* What is taken away stays away.
LEMMA TakenStays ==
  ASSUME IInv, Ids \subseteq Ids', \A n \in Ids : ops'[n].kind = ops[n].kind /\ ops'[n].of = ops[n].of,
         \A i \in DOMAIN tasks' : \/ tasks'[i] \notin Ids \/ ops[tasks'[i]].kind # "unpublish"
                                  \/ \E k \in DOMAIN tasks : tasks[k] = tasks'[i],
         NEW p, TakenAway(p)
  PROVE  TakenAway(p)'
<1>1. PICK m \in Ids : ops[m].kind = "unpublish" /\ ops[m].of = p /\ m \notin Posted
  BY DEF TakenAway
<1>2. \A k \in DOMAIN tasks : tasks[k] # m
  BY <1>1 DEF Posted
<1>3. \A i \in DOMAIN tasks' : tasks'[i] # m
  BY <1>1, <1>2
<1>4. m \in Ids' /\ ops'[m].kind = "unpublish" /\ ops'[m].of = p /\ m \notin Posted'
  BY <1>1, <1>3 DEF Posted
<1>5. QED
  BY <1>4 DEF TakenAway

LEMMA NothingIsAnswer ==
  ASSUME IInv
  PROVE  \A n \in Ids : n \notin None
BY IdsAreNumbers DEF IInv, None, Resume

LEMMA ConnectionKept ==
  ASSUME IInv, NInv, NEW S, NEW st, Moves(S, st), \A n \in S \cap Ids : ~Ended(n),
         st \notin Sending \cup {"done"}, TasksKept,
         UNCHANGED <<published, answered>>, senders' \subseteq senders,
         \A n \in senders \ senders' : n \notin published /\ n \in S,
         offer' \in {offer, None}, answer' \in {answer, None},
         waiters' \subseteq waiters \cup {Resume},
         negotiation' = "InProgress" =>
           negotiation = "InProgress" \/ (offer' = None /\ answer' = None)
  PROVE  NInv'
<1>1. \A n \in Ids : (Current(n)' <=> Current(n)) /\ ops'[n].kind = ops[n].kind
                     /\ ops'[n].of = ops[n].of /\ Ids' = Ids
  BY DEF Moves, Current
<1>2. \A p \in Ids : TakenAway(p) => TakenAway(p)'
  BY TakenStays DEF Moves, TasksKept
<1>3. published \subseteq Ids
  BY DEF IInv, PublishedDone
<1>4. \A n \in Ids : /\ Contains(n) => Contains(n)'
                     /\ Lacks(n) => Lacks(n)'
                     /\ offer' = None /\ answer' = None => Contains(n)' /\ Lacks(n)'
  BY NothingIsAnswer DEF Contains, Lacks
<1>5. Installed'
  BY <1>1 DEF NInv, Installed, Moves, Sending
<1>6. SentOrTaken'
  BY <1>2, <1>3 DEF NInv, SentOrTaken
<1>7. WaitersCurrent'
  <2>1. waiters \subseteq Ids \cup {Resume}
    BY DEF IInv, WaitersWait
  <2>2. QED
    BY <1>1, <2>1 DEF NInv, WaitersCurrent
<1>8. RoundServes'
  <2>1. waiters \subseteq Ids \cup {Resume}
    BY DEF IInv, WaitersWait
  <2>2. SUFFICES ASSUME negotiation' = "InProgress", NEW n \in waiters \ {Resume}
                 PROVE  /\ ops[n].kind = "unpublish" =>
                             ops[n].of \notin offer' /\ ops[n].of \notin answer'
                        /\ ops[n].kind # "unpublish" => Contains(n)'
    BY <1>1, <2>1 DEF RoundServes, Lacks
  <2>3. n \in Ids /\ (ops[n].kind = "unpublish" => ops[n].of \in Ids)
    BY <2>1 DEF IInv, RemovalsOfDone
  <2>4. CASE negotiation = "InProgress"
    <3>1. /\ ops[n].kind = "unpublish" => Lacks(ops[n].of)
          /\ ops[n].kind # "unpublish" => Contains(n)
      BY <2>4 DEF NInv, RoundServes
    <3>2. QED
      BY <1>4, <2>3, <3>1 DEF Lacks
  <2>5. CASE negotiation # "InProgress"
    BY <1>4, <2>2, <2>3, <2>5 DEF Lacks
  <2>6. QED
    BY <2>4, <2>5
<1>9. Answered'
  BY <1>1, <1>2, <1>3, <1>4 DEF NInv, Answered, Moves, At, Sending
<1>10. Gone'
  BY <1>1, <1>4 DEF NInv, Gone, Moves, Removal, At, Sending, IInv, RemovalsOfDone
<1>11. QED
  BY <1>5, <1>6, <1>7, <1>8, <1>9, <1>10 DEF NInv

\* The recovery does not come to join a session or to publish.
RecoveryApart ==
  /\ driver' = "republishing" =>
       driver = "connecting" \/ (driver = "republishing" /\ queue' \subseteq queue)
  /\ driver' = "connecting" =>
       driver = "connecting" /\ (room = "Disconnected" => room' = room)

\* Transactions go on or fail; nothing is committed or changed.
LEMMA QuietKeeps ==
  ASSUME IInv, JInv, NEW S, NEW st, Moves(S, st), \A n \in S \cap Ids : ~Ended(n),
         st \notin Sending \cup {"done", "removing", "removed"}, TasksKept,
         UNCHANGED <<published, answered>>, unpublishing' = unpublishing,
         senders' \subseteq senders, \A n \in senders \ senders' : n \notin published /\ n \in S,
         offer' \in {offer, None}, answer' \in {answer, None},
         waiters' \subseteq waiters \cup {Resume},
         negotiation' = "InProgress" =>
           negotiation = "InProgress" \/ (offer' = None /\ answer' = None),
         RecoveryApart
  PROVE  JInv'
<1>1. OneOfATrack'
  BY TracksKept DEF JInv, Live, RecoveryApart
<1>2. RInv'
  BY RemovalsKept DEF JInv, PastOrDone, Past, Sending
<1>3. NInv'
  BY ConnectionKept DEF JInv
<1>4. QED
  BY <1>1, <1>2, <1>3 DEF JInv

\* The same when no transaction moves at all.
LEMMA StillKeeps ==
  ASSUME IInv, JInv, UNCHANGED <<ops, generation, published, unpublishing, pcVars>>,
         answer' \in {answer, None}, waiters' \subseteq waiters, negotiation' = negotiation,
         RecoveryApart
  PROVE  JInv'
<1>1. Moves({}, "failing") /\ TasksKept
  BY NoneMoves, TasksStay DEF pcVars
<1>2. QED
  BY <1>1, QuietKeeps DEF pcVars, Sending

-----------------------------------------------------------------------------
(* Steps that are quiet.                                                   *)

LEMMA AcknowledgeCommits ==
  ASSUME IInv, JInv, NEW n \in Ids, Acknowledge(n)
  PROVE  JInv'
<1> DEFINE S == {m \in Ids : At(m, "acking") /\ ops[m].track = ops[n].track}
<1>1. Moves(S, "acked") /\ \A m \in S : ~Ended(m)
  BY SomeMove DEF Acknowledge, recoveryVars, At, Ended, Stages
<1>2. TasksKept
  BY TasksStay DEF Acknowledge, pcVars
<1> HIDE DEF S
<1>3. QED
  BY <1>1, <1>2, QuietKeeps
     DEF Acknowledge, recoveryVars, bookVars, pcVars, negotiationVars, RecoveryApart, Sending

\* One transaction goes on or fails.
LEMMA OneQuiet ==
  ASSUME IInv, JInv, NEW n \in Ids, NEW st \in {"acked", "refused", "installing", "failing", "failed", "uncertain"},
         Move(n, st), ~Ended(n), TasksKept,
         UNCHANGED <<generation, published, answered, unpublishing, offer, answer>>,
         senders' \in {senders, senders \ {n}}, waiters' \subseteq waiters,
         negotiation' = "InProgress" =>
           negotiation = "InProgress" \/ (offer = None /\ answer = None),
         RecoveryApart
  PROVE  JInv'
<1>1. Moves({n}, st)
  BY SomeMove DEF Move, Stages
<1>2. n \notin published
  BY DEF IInv, PublishedDone, At, Ended
<1>3. st \notin Sending \cup {"done", "removing", "removed"}
  BY DEF Sending
<1>4. QED
  BY <1>1, <1>2, <1>3, QuietKeeps

LEMMA PostInstallCommits ==
  ASSUME IInv, JInv, NEW n \in Ids, PostInstall(n)
  PROVE  JInv'
<1> USE DEF PostInstall, recoveryVars, linkVars, bookVars, negotiationVars
<1>1. PICK st \in {"installing", "failing"} : Move(n, st)
  OBVIOUS
<1>2. ops[n].kind # "unpublish" /\ ~Ended(n)
  BY DEF IInv, RemovalsOfDone, PublishStages, At, Ended
<1>3. TasksKept
  BY <1>2, TasksStay, TaskIsPosted
<1>4. QED
  BY <1>1, <1>2, <1>3, OneQuiet DEF RecoveryApart

LEMMA RollBackCommits ==
  ASSUME IInv, JInv, NEW n \in Ids, RollBack(n)
  PROVE  JInv'
<1> USE DEF RollBack, linkVars, bookVars
<1>1. ~Ended(n) /\ TasksKept
  BY TasksStay DEF Ended
<1>2. waiters' \subseteq waiters /\ (negotiation' = "InProgress" =>
           negotiation = "InProgress" \/ (offer = None /\ answer = None))
  BY DEF IInv, OneOffer, Negotiate, Execute, negotiationVars
<1>3. RecoveryApart
  BY DEF RecoveryApart, AttemptFails
<1>4. QED
  BY <1>1, <1>2, <1>3, OneQuiet

LEMMA TimeoutCommits ==
  ASSUME IInv, JInv, NEW n \in Ids, Timeout(n)
  PROVE  JInv'
<1> USE DEF Timeout, recoveryVars, linkVars, bookVars, pcVars
<1>1. PICK st \in {"refused", "failing"} : Move(n, st)
  OBVIOUS
<1>2. ~Ended(n) /\ TasksKept
  BY TasksStay DEF At, Ended
<1>3. QED
  BY <1>1, <1>2, OneQuiet DEF RecoveryApart

\* A stage that finds its session gone.
LEMMA StaleCommits ==
  ASSUME IInv, JInv, NEW n \in Ids, ~Ended(n), Move(n, "failing"), TasksKept,
         UNCHANGED <<recoveryVars, linkVars, bookVars, senders, answered, offer, waiters,
                     negotiation>>
  PROVE  JInv'
BY OneQuiet DEF recoveryVars, linkVars, bookVars, RecoveryApart

LEMMA RefuseAnswerCommits ==
  ASSUME IInv, JInv, RefuseAnswer
  PROVE  JInv'
<1> USE DEF RefuseAnswer, bookVars
<1>1. MoveAll(waiters, "failing") /\ waiters' = {}
  BY DEF Complete
<1>2. Moves(waiters, "failing") /\ TasksKept
  BY <1>1, SomeMove, TasksStay DEF Stages
<1>3. \A n \in waiters \cap Ids : ~Ended(n)
  BY IdsAreNumbers DEF IInv, WaitersWait, At, Ended
<1>4. negotiation' # "InProgress"
  BY DEF IInv, OneOffer, Execute
<1>5. RecoveryApart
  BY DEF RecoveryApart, Complete
<1>6. QED
  BY <1>1, <1>2, <1>3, <1>4, <1>5, QuietKeeps DEF Sending

LEMMA OfferFailsCommits ==
  ASSUME IInv, JInv, OfferFails \/ SetLocalFails
  PROVE  JInv'
<1> USE DEF OfferFails, SetLocalFails, OnNegotiationFailed, linkVars, bookVars
<1>1. MoveAll(waiters, "failing") /\ waiters' = {} /\ negotiation' = "Idle"
  BY DEF Complete
<1>2. Moves(waiters, "failing") /\ TasksKept
  BY <1>1, SomeMove, TasksStay DEF Stages
<1>3. \A n \in waiters \cap Ids : ~Ended(n)
  BY IdsAreNumbers DEF IInv, WaitersWait, At, Ended
<1>4. RecoveryApart
  BY DEF RecoveryApart, Complete
<1>5. QED
  BY <1>1, <1>2, <1>3, <1>4, QuietKeeps DEF Sending

LEMMA RetryTimerCommits ==
  ASSUME IInv, JInv, RetryTimer
  PROVE  JInv'
<1> USE DEF RetryTimer, recoveryVars, linkVars, bookVars
<1>1. Moves({}, "failing") /\ TasksKept
  BY NoneMoves, TasksStay
<1>2. negotiation' = "InProgress" => negotiation = "InProgress"
  BY DEF IInv, OneOffer, Execute
<1>3. QED
  BY <1>1, <1>2, QuietKeeps DEF Sending, RecoveryApart

LEMMA ResumeStreamCommits ==
  ASSUME IInv, JInv, ResumeStream
  PROVE  JInv'
<1> USE DEF ResumeStream, bookVars
<1>1. Moves({}, "failing") /\ TasksKept
  BY NoneMoves, TasksStay
<1>2. /\ waiters' \subseteq waiters \cup {Resume}
      /\ negotiation' = "InProgress" => offer' = None /\ answer' = None
  BY DEF IInv, OneOffer, Negotiate, Execute
<1>3. QED
  BY <1>1, <1>2, QuietKeeps DEF Sending, RecoveryApart

-----------------------------------------------------------------------------
(* The recovery.                                                           *)

\* After a teardown nothing is of the current session.
LEMMA TearDownCommits ==
  ASSUME IInv, JInv, TearDown, UNCHANGED tasks, IInv'
  PROVE  JInv'
<1>1. generation \in Nat /\ \A n \in Ids : ops[n] \in OpRecords /\ ops[n].gen <= generation
  BY DEF IInv, OpsType, Ids
<1>2. Ids' = Ids /\ generation' = generation + 1
  BY DEF TearDown, Ids
<1>3. \A n \in Ids : ops'[n].gen = ops[n].gen
  BY <1>1 DEF TearDown, OpRecords
<1>4. \A n \in Ids' : ~(Current(n)')
  <2>1. \A n \in Ids : ops[n].gen \in Nat
    BY <1>1 DEF OpRecords
  <2>2. QED
    BY <1>1, <1>2, <1>3, <2>1 DEF Current
<1>5. \A i \in DOMAIN tasks' : tasks'[i] \in Ids'
  BY DEF IInv, SetsType
<1>6. published' = {} /\ waiters' = {} /\ negotiation' = "Idle" /\ room' = "Disconnected"
  BY DEF TearDown
<1>7. Live' = {}
  BY <1>4, <1>6 DEF Live
<1>8. OneOfATrack'
  BY <1>4, <1>6, <1>7 DEF OneOfATrack
<1>9. RInv'
  <2>1. RemovalStages'
    BY <1>1, <1>2 DEF TearDown, OpRecords, JInv, RInv, RemovalStages
  <2>2. RemovalsOfSession'
    <3>1. \A n \in Ids : ops'[n].kind = ops[n].kind /\ ops'[n].of = ops[n].of
      BY <1>1 DEF TearDown, OpRecords
    <3>2. QED
      BY <1>2, <1>3, <3>1 DEF JInv, RInv, RemovalsOfSession, IInv, RemovalsOfDone
  <2>3. QED
    BY <1>4, <1>5, <2>1, <2>2 DEF RInv, RemovalsIntended, OneRemoval, TasksInOrder, NoTaskLeft,
       RemovedIsGone, TaskOfPublished, Removal
<1>10. NInv'
  BY <1>4, <1>6 DEF NInv, Installed, SentOrTaken, WaitersCurrent, RoundServes, Answered, Gone,
     Removal
<1>11. QED
  BY <1>8, <1>9, <1>10 DEF JInv

\* A publication begins.
LEMMA PublishTrackCommits ==
  ASSUME IInv, JInv, NEW kind \in {"publish", "republish"}, NEW t \in Tracks,
         PublishTrack(kind, t), \A n \in Live : ops[n].track # t,
         UNCHANGED <<generation, answer, published, unpublishing, pcVars, negotiationVars>>,
         driver' # "connecting",
         driver' = "republishing" =>
           driver = "republishing" /\ queue' \subseteq queue /\ t \notin queue'
  PROVE  JInv'
<1> DEFINE op == Operation(kind, t, Len(ops) + 1, IF link = "open" THEN "acking" ELSE "refused")
           new == Len(ops) + 1
<1>1. /\ op.kind = kind /\ op.track = t /\ op.stage \in {"acking", "refused"}
      /\ ops' = Append(ops, op)
  BY DEF PublishTrack, Operation
<1> HIDE DEF op
<1>2. Ids = 1 .. Len(ops) /\ Len(ops) \in Nat /\ ops \in Seq(OpRecords)
  BY IdsAreNumbers DEF IInv, OpsType
<1>3. /\ Ids' = Ids \cup {new} /\ new \notin Ids /\ ops'[new] = op
      /\ \A n \in Ids : ops'[n] = ops[n]
  BY <1>1, <1>2 DEF Ids
<1>4. /\ ops'[new].kind # "unpublish" /\ ops'[new].track = t
      /\ ops'[new].stage \in {"acking", "refused"}
  BY <1>1, <1>3
<1> HIDE DEF new
<1>5. /\ published \subseteq Ids /\ \A i \in DOMAIN tasks : tasks[i] \in Ids
      /\ waiters \subseteq Ids \cup {Resume}
  BY DEF IInv, PublishedDone, SetsType, WaitersWait
<1>6. \A n \in Ids : (Current(n)' <=> Current(n)) /\ (Ended(n)' <=> Ended(n))
  BY <1>3 DEF Current, Ended
<1>7. OneOfATrack'
  <2>1. Live \subseteq Ids /\ Live' \subseteq Live \cup {new}
    BY <1>3, <1>5, <1>6 DEF Live
  <2>2. \A n1, n2 \in Live' : ops'[n1].track = ops'[n2].track => n1 = n2
    BY <1>3, <1>4, <2>1 DEF JInv, OneOfATrack
  <2>3. \A p \in published' : Current(p)'
    BY <1>5, <1>6 DEF JInv, OneOfATrack
  <2>4. driver' = "republishing" => \A n \in Live' : ops'[n].track \notin queue'
    BY <1>3, <1>4, <2>1 DEF JInv, OneOfATrack
  <2>5. QED
    BY <2>2, <2>3, <2>4 DEF OneOfATrack
<1>8. RInv'
  <2>1. RemovalsOfSession'
    BY <1>3, <1>4 DEF JInv, RInv, RemovalsOfSession, IInv, RemovalsOfDone
  <2>2. QED
    BY <1>3, <1>4, <1>5, <1>6, <2>1 DEF JInv, RInv, RemovalStages, RemovalsIntended,
       OneRemoval, TasksInOrder, NoTaskLeft, RemovedIsGone, TaskOfPublished, Removal, At, Ended,
       pcVars
<1>9. NInv'
  <2>1. \A p \in Ids : TakenAway(p) => TakenAway(p)'
    BY <1>3, <1>5, TakenStays DEF pcVars
  <2>2. SentOrTaken'
    BY <1>5, <2>1 DEF JInv, NInv, SentOrTaken, pcVars
  <2>3. Installed' /\ WaitersCurrent'
    BY <1>3, <1>4, <1>5, <1>6 DEF JInv, NInv, Installed, WaitersCurrent, Sending, pcVars,
       negotiationVars
  <2>4. RoundServes' /\ Gone'
    BY <1>3, <1>4, <1>5, <1>6 DEF JInv, NInv, RoundServes, Gone, Lacks, Contains, Removal,
       pcVars, negotiationVars
  <2>5. Answered'
    BY <1>3, <1>4, <1>5, <1>6, <2>1 DEF JInv, NInv, Answered, Contains, At, pcVars
  <2>6. QED
    BY <2>2, <2>3, <2>4, <2>5 DEF NInv
<1>10. QED
  BY <1>7, <1>8, <1>9 DEF JInv

LEMMA PublishCommits ==
  ASSUME IInv, JInv, NEW t \in Tracks, Publish(t)
  PROVE  JInv'
<1>1. \A n \in Live : ops[n].track # t
  BY DEF Publish, Live, TracksOf
<1>2. driver # "connecting"
  BY DEF Publish, JInv, OneOfATrack
<1>3. QED
  BY <1>1, <1>2, PublishTrackCommits DEF Publish, recoveryVars, bookVars

LEMMA RepublishCommits ==
  ASSUME IInv, JInv, NEW t \in Tracks, Republish(t)
  PROVE  JInv'
<1>1. CASE room = "Connected"
  <2>1. \A n \in Live : ops[n].track # t
    BY DEF Republish, JInv, OneOfATrack
  <2>2. QED
    BY <1>1, <2>1, PublishTrackCommits DEF Republish
<1>2. CASE room # "Connected"
  BY <1>2, StillKeeps DEF Republish, AttemptFails, RecoveryApart, negotiationVars
<1>3. QED
  BY <1>1, <1>2

LEMMA RecoveryStepCommits ==
  ASSUME IInv, JInv, Recovery \/ BreakLink \/ RestartFails, IInv'
  PROVE  JInv'
<1> USE DEF recoveryVars, linkVars, bookVars, negotiationVars, RecoveryApart
<1>1. CASE BreakLink
  BY <1>1, StillKeeps DEF BreakLink
<1>2. CASE NoticeClose
  BY <1>2, StillKeeps DEF NoticeClose
<1>3. CASE StartReconnect
  BY <1>3, StillKeeps DEF StartReconnect
<1>4. CASE BeginAttempt
  BY <1>4, StillKeeps DEF BeginAttempt
<1>5. CASE ResumeStream
  BY <1>5, ResumeStreamCommits
<1>6. CASE ResumeFails
  BY <1>6, StillKeeps DEF ResumeFails
<1>7. CASE CommitResume
  BY <1>7, StillKeeps DEF CommitResume
<1>8. CASE Restart
  BY <1>8, TearDownCommits DEF Restart
<1>9. CASE GiveUp
  BY <1>9, TearDownCommits DEF GiveUp
<1>10. CASE Rejoin
  BY <1>10, StillKeeps DEF Rejoin
<1>11. CASE RestartFails
  BY <1>11, StillKeeps DEF RestartFails, AttemptFails
<1>12. CASE CommitRestart
  BY <1>12, StillKeeps DEF CommitRestart
<1>13. CASE \E t \in Tracks : Republish(t)
  BY <1>13, RepublishCommits
<1>14. QED
  BY <1>1, <1>2, <1>3, <1>4, <1>5, <1>6, <1>7, <1>8, <1>9, <1>10, <1>11, <1>12, <1>13
     DEF Recovery

-----------------------------------------------------------------------------
(* The rounds of negotiation.                                              *)

\* The transactions, the tasks and the recovery are as before.
LEMMA ApartStay ==
  ASSUME IInv, JInv, NEW S, NEW st, Moves(S, st), \A n \in S \cap Ids : ~Ended(n),
         st \notin {"removing", "removed", "done"}, UNCHANGED <<published, unpublishing, tasks>>,
         \A m \in S \cap Ids :
           ops[m].kind = "unpublish" /\ st \in Past => ops[m].stage \in Past,
         RecoveryApart
  PROVE  OneOfATrack' /\ RInv' /\ \A p \in Ids : TakenAway(p) => TakenAway(p)'
<1>1. TasksKept
  BY TasksStay
<1>2. OneOfATrack'
  BY TracksKept DEF JInv, Live, RecoveryApart
<1>3. RInv'
  BY <1>1, RemovalsKept DEF JInv, PastOrDone
<1>4. \A p \in Ids : TakenAway(p) => TakenAway(p)'
  BY <1>1, TakenStays DEF Moves, TasksKept
<1>5. QED
  BY <1>2, <1>3, <1>4

\* The offer has every sender of this moment.
LEMMA CreateOfferCommits ==
  ASSUME IInv, JInv, CreateOffer
  PROVE  JInv'
<1> USE DEF CreateOffer, recoveryVars, linkVars, bookVars, negotiationVars
<1>1. Moves({}, "failing")
  BY NoneMoves
<1>2. OneOfATrack' /\ RInv' /\ \A p \in Ids : TakenAway(p) => TakenAway(p)'
  BY <1>1, ApartStay DEF RecoveryApart
<1>3. /\ published \subseteq Ids /\ waiters \subseteq {n \in Ids : At(n, "negotiating")} \cup {Resume}
      /\ answer = None
  BY DEF IInv, PublishedDone, WaitersWait, OneOffer
<1>4. Installed' /\ WaitersCurrent'
  BY <1>1, <1>3 DEF JInv, NInv, Installed, WaitersCurrent, Moves, Current
<1>5. SentOrTaken'
  BY <1>2, <1>3 DEF JInv, NInv, SentOrTaken
<1>6. RoundServes'
  <2>1. SUFFICES ASSUME NEW n \in waiters \ {Resume}
                 PROVE  /\ ops[n].kind = "unpublish" =>
                             ops[n].of \notin offer' /\ ops[n].of \notin answer'
                        /\ ops[n].kind # "unpublish" => Contains(n)'
    BY <1>1, <1>3 DEF RoundServes, Lacks, Moves
  <2>2. n \in Ids /\ At(n, "negotiating") /\ Current(n)
    BY <1>3 DEF JInv, NInv, WaitersCurrent
  <2>3. CASE ops[n].kind = "unpublish"
    <3>1. ops[n].of \in Ids /\ ops[n].of \notin senders
      BY <2>2, <2>3 DEF IInv, RemovalsOfDone, RemovedAway, At
    <3>2. QED
      BY <1>3, <2>3, <3>1, NothingIsAnswer
  <2>4. CASE ops[n].kind # "unpublish"
    <3>1. n \in senders
      BY <2>2, <2>4 DEF JInv, NInv, Installed, At, Sending
    <3>2. QED
      BY <1>3, <2>4, <3>1 DEF Contains
  <2>5. QED
    BY <2>3, <2>4
<1>7. Answered'
  <2>1. SUFFICES ASSUME NEW n \in Ids,
                        \/ n \in published /\ ~TakenAway(n)
                        \/ ops[n].kind # "unpublish" /\ Current(n) /\ At(n, "negotiated")
                 PROVE  n \in answered /\ n \in senders
    BY <1>1, <1>2, <1>3 DEF Answered, Contains, Moves, At, Current
  <2>2. n \in answered
    BY <2>1 DEF JInv, NInv, Answered
  <2>3. n \in senders
    BY <2>1 DEF JInv, NInv, Installed, SentOrTaken, At, Sending
  <2>4. QED
    BY <2>2, <2>3
<1>8. Gone'
  <2>1. \A m \in Ids : Removal(m) /\ ops[m].stage \in {"negotiated", "done"} =>
          ops[m].of \in Ids /\ ops[m].of \notin senders \cup answered
    BY DEF JInv, NInv, Gone, IInv, RemovalsOfDone, Removal
  <2>2. QED
    BY <1>1, <1>3, <2>1, NothingIsAnswer DEF Gone, Removal, Lacks, Moves, Current
<1>9. QED
  BY <1>2, <1>4, <1>5, <1>6, <1>7, <1>8 DEF JInv, NInv

LEMMA SendOfferCommits ==
  ASSUME IInv, JInv, SendOffer
  PROVE  JInv'
<1> USE DEF SendOffer, bookVars
<1>0. /\ published \subseteq Ids /\ waiters \subseteq {n \in Ids : At(n, "negotiating")} \cup {Resume}
      /\ answer = None
  BY DEF IInv, PublishedDone, WaitersWait, OneOffer
<1>1. CASE link = "open"
  <2>1. Moves({}, "failing")
    BY <1>1, NoneMoves
  <2>2. OneOfATrack' /\ RInv' /\ \A p \in Ids : TakenAway(p) => TakenAway(p)'
    BY <1>1, <2>1, ApartStay DEF RecoveryApart
  <2>3. \A n \in Ids : (Contains(n) => Contains(n)') /\ (Lacks(n) => Lacks(n)')
    BY <1>0, <1>1, NothingIsAnswer DEF Contains, Lacks
  <2>4. Installed' /\ WaitersCurrent'
    BY <1>0, <1>1, <2>1 DEF JInv, NInv, Installed, WaitersCurrent, Moves, Current
  <2>5. SentOrTaken'
    BY <1>0, <1>1, <2>2 DEF JInv, NInv, SentOrTaken
  <2>6. RoundServes'
    <3>1. \A n \in waiters \ {Resume} :
             n \in Ids /\ (ops[n].kind = "unpublish" => ops[n].of \in Ids)
      BY <1>0 DEF IInv, RemovalsOfDone
    <3>2. \A n \in Ids : ops[n].kind = "unpublish" /\ ops[n].of \in Ids /\ Lacks(ops[n].of) =>
             ops[n].of \notin offer' /\ ops[n].of \notin answer'
      BY <2>3 DEF Lacks
    <3>3. QED
      BY <1>1, <2>1, <2>3, <3>1, <3>2 DEF JInv, NInv, RoundServes, Moves, Lacks
  <2>7. Answered'
    BY <1>0, <1>1, <2>1, <2>2, <2>3 DEF JInv, NInv, Answered, Moves, At, Current
  <2>8. Gone'
    <3>1. \A m \in Ids : Removal(m) => ops[m].of \in Ids
      BY DEF IInv, RemovalsOfDone, Removal
    <3>2. \A m \in Ids : ops[m].of \in Ids /\ Lacks(ops[m].of) =>
             ops[m].of \notin offer' /\ ops[m].of \notin answer'
      BY <2>3 DEF Lacks
    <3>3. QED
      BY <1>1, <2>1, <3>1, <3>2 DEF JInv, NInv, Gone, Removal, Lacks, Moves, Current
  <2>9. QED
    BY <2>2, <2>4, <2>5, <2>6, <2>7, <2>8 DEF JInv, NInv
<1>2. CASE link # "open"
  <2>1. MoveAll(waiters, "failing") /\ waiters' = {} /\ negotiation' = "Idle"
    BY <1>2 DEF Complete
  <2>2. Moves(waiters, "failing") /\ TasksKept
    BY <2>1, SomeMove, TasksStay DEF Stages
  <2>3. \A n \in waiters \cap Ids : ~Ended(n)
    BY IdsAreNumbers DEF IInv, WaitersWait, At, Ended
  <2>4. RecoveryApart
    BY <1>2 DEF RecoveryApart, Complete
  <2>5. QED
    BY <1>2, <2>1, <2>2, <2>3, <2>4, QuietKeeps DEF Sending
<1>3. QED
  BY <1>1, <1>2

\* An answer is to an offer with all changes that were committed, and, when
\* no other round was asked for, with those of all who wait.
LEMMA ApplyAnswerCommits ==
  ASSUME IInv, JInv, ApplyAnswer
  PROVE  JInv'
<1> USE DEF ApplyAnswer, bookVars
<1>1. /\ published \subseteq Ids /\ waiters \subseteq {n \in Ids : At(n, "negotiating")} \cup {Resume}
      /\ offer = None /\ answer # None /\ answer' = None /\ answered' = answer /\ offer' = None
      /\ negotiation # "Idle" /\ Resume \notin Ids
  BY IdsAreNumbers DEF IInv, PublishedDone, WaitersWait, OneOffer
<1>2. \A n \in Ids : Contains(n)' /\ n \notin offer' /\ n \notin answer'
  BY <1>1, NothingIsAnswer DEF Contains
<1>3. \A n \in Ids : (Contains(n) => n \in answer) /\ (Lacks(n) => n \notin answer)
  BY <1>1 DEF Contains, Lacks
<1>4. CASE negotiation = "PendingRetry"
  <2>1. Moves({}, "failing")
    BY <1>4, NoneMoves
  <2>2. OneOfATrack' /\ RInv' /\ \A p \in Ids : TakenAway(p) => TakenAway(p)'
    BY <1>4, <2>1, ApartStay DEF RecoveryApart
  <2>3. Installed' /\ WaitersCurrent'
    BY <1>1, <1>4, <2>1 DEF JInv, NInv, Installed, WaitersCurrent, Moves, Current
  <2>4. SentOrTaken'
    BY <1>1, <2>2 DEF JInv, NInv, SentOrTaken
  <2>5. RoundServes'
    <3>1. \A n \in waiters \ {Resume} :
             n \in Ids /\ (ops[n].kind = "unpublish" => ops[n].of \in Ids)
      BY <1>1 DEF IInv, RemovalsOfDone
    <3>2. QED
      BY <1>2, <1>4, <2>1, <3>1 DEF RoundServes, Lacks, Moves
  <2>6. Answered'
    BY <1>1, <1>2, <1>3, <2>1, <2>2 DEF JInv, NInv, Answered, Moves, At, Current
  <2>7. Gone'
    <3>1. \A m \in Ids : Removal(m) /\ ops[m].stage \in {"negotiated", "done"} =>
            ops[m].of \in Ids /\ ops[m].of \notin senders /\ Lacks(ops[m].of)
      BY DEF IInv, RemovalsOfDone, Removal, JInv, NInv, Gone
    <3>2. QED
      BY <1>1, <1>2, <1>3, <2>1, <3>1 DEF Gone, Removal, Lacks, Moves, Current
  <2>8. QED
    BY <2>2, <2>3, <2>4, <2>5, <2>6, <2>7 DEF JInv, NInv
<1>5. CASE negotiation # "PendingRetry"
  <2>0. negotiation = "InProgress"
    BY <1>1, <1>5 DEF IInv, ControlType
  <2>1. MoveAll(waiters, "negotiated") /\ waiters' = {} /\ negotiation' = "Idle"
    BY <1>5 DEF Complete
  <2>2. Moves(waiters, "negotiated")
    BY <2>1, SomeMove DEF Stages
  <2>3. \A n \in waiters \cap Ids : ops[n].stage = "negotiating" /\ ~Ended(n) /\ Current(n)
    BY <1>1 DEF At, Ended, JInv, NInv, WaitersCurrent
  <2>4. RecoveryApart
    BY <1>5 DEF RecoveryApart, Complete
  <2>5. OneOfATrack' /\ RInv' /\ \A p \in Ids : TakenAway(p) => TakenAway(p)'
    BY <2>2, <2>3, <2>4, ApartStay DEF Past
  <2>6. Installed'
    BY <2>2, <2>3 DEF JInv, NInv, Installed, Moves, Current, Sending
  <2>7. SentOrTaken' /\ WaitersCurrent' /\ RoundServes'
    BY <1>1, <2>1, <2>5 DEF JInv, NInv, SentOrTaken, WaitersCurrent, RoundServes
  <2>8. \A n \in waiters \cap Ids : /\ ops[n].kind = "unpublish" => Lacks(ops[n].of)
                                    /\ ops[n].kind # "unpublish" => Contains(n)
    BY <1>1, <2>0 DEF JInv, NInv, RoundServes
  <2>9. Answered'
    <3>1. SUFFICES ASSUME NEW n \in Ids,
                          \/ n \in published /\ ~TakenAway(n)
                          \/ ops[n].kind # "unpublish" /\ Current(n) /\ At(n, "negotiated")
                          \/ ops[n].kind # "unpublish" /\ n \in waiters
                   PROVE  Contains(n)
      BY <1>1, <1>2, <1>3, <2>2, <2>5 DEF Answered, Moves, At, Current
    <3>2. QED
      BY <2>8, <3>1 DEF JInv, NInv, Answered
  <2>10. Gone'
    <3>1. SUFFICES ASSUME NEW m \in Ids, Removal(m),
                          ops[m].stage \in {"negotiated", "done"} \/ m \in waiters
                   PROVE  ops[m].of \in Ids /\ ops[m].of \notin senders /\ Lacks(ops[m].of)
      BY <1>1, <1>2, <1>3, <2>2 DEF Gone, Removal, Lacks, Moves, Current
    <3>2. ops[m].of \in Ids
      BY <3>1 DEF IInv, RemovalsOfDone, Removal
    <3>3. CASE m \in waiters
      BY <2>3, <2>8, <3>1, <3>2, <3>3 DEF IInv, RemovedAway, Removal
    <3>4. CASE m \notin waiters
      BY <3>1, <3>2, <3>4 DEF JInv, NInv, Gone
    <3>5. QED
      BY <3>3, <3>4
  <2>11. QED
    BY <2>5, <2>6, <2>7, <2>9, <2>10 DEF JInv, NInv
<1>6. QED
  BY <1>4, <1>5

\* One more waits for the negotiation.
LEMMA OneMoreWaits ==
  ASSUME IInv, JInv, NEW n \in Ids, Negotiate({n}), Moves({n}, "negotiating"),
         Current(n), ~Ended(n), ops[n].kind = "unpublish" => ops[n].stage \in Past,
         ops[n].kind # "unpublish" => n \in senders,
         UNCHANGED <<published, unpublishing, tasks, senders, answered, offer, answer>>,
         RecoveryApart
  PROVE  JInv'
<1>1. OneOfATrack' /\ RInv' /\ \A p \in Ids : TakenAway(p) => TakenAway(p)'
  BY ApartStay
<1>2. /\ published \subseteq Ids /\ waiters \subseteq Ids \cup {Resume}
      /\ waiters' = waiters \cup {n}
      /\ negotiation' = "InProgress" => offer = None /\ answer = None
  BY DEF IInv, PublishedDone, WaitersWait, OneOffer, Negotiate, Execute
<1>3. Installed' /\ WaitersCurrent'
  BY <1>2 DEF JInv, NInv, Installed, WaitersCurrent, Moves, Current
<1>4. SentOrTaken'
  BY <1>1, <1>2 DEF JInv, NInv, SentOrTaken
<1>5. RoundServes'
  <2>1. \A k \in waiters' \ {Resume} :
           k \in Ids /\ (ops[k].kind = "unpublish" => ops[k].of \in Ids)
    BY <1>2 DEF IInv, RemovalsOfDone
  <2>2. QED
    BY <1>2, <2>1, NothingIsAnswer DEF RoundServes, Contains, Lacks, Moves
<1>6. Answered'
  BY <1>1, <1>2 DEF JInv, NInv, Answered, Contains, Moves, At, Current
<1>7. Gone'
  BY DEF JInv, NInv, Gone, Removal, Lacks, Moves, Current
<1>8. QED
  BY <1>1, <1>3, <1>4, <1>5, <1>6, <1>7 DEF JInv, NInv

LEMMA NegotiateTrackCommits ==
  ASSUME IInv, JInv, NEW n \in Ids, NegotiateTrack(n)
  PROVE  JInv'
<1> USE DEF NegotiateTrack, recoveryVars, linkVars, bookVars
<1>1. ~Ended(n) /\ ops[n].kind # "unpublish" /\ TasksKept
  BY TasksStay DEF IInv, RemovalsOfDone, PublishStages, At, Ended
<1>2. CASE Current(n)
  <2>1. Moves({n}, "negotiating") /\ Negotiate({n})
    BY <1>2, SomeMove DEF Move, Stages
  <2>2. n \in senders
    BY <1>1, <1>2 DEF JInv, NInv, Installed, Sending, At
  <2>3. QED
    BY <1>1, <1>2, <2>1, <2>2, OneMoreWaits DEF RecoveryApart
<1>3. CASE ~Current(n)
  BY <1>1, <1>3, StaleCommits DEF negotiationVars
<1>4. QED
  BY <1>2, <1>3

LEMMA NegotiateRemovalCommits ==
  ASSUME IInv, JInv, NEW m \in Ids, NegotiateRemoval(m)
  PROVE  JInv'
<1> USE DEF NegotiateRemoval, recoveryVars, linkVars, bookVars
<1>1. ~Ended(m) /\ TasksKept
  BY TasksStay DEF At, Ended
<1>2. CASE Current(m)
  <2> DEFINE r == [ops[m] EXCEPT !.stage = "negotiating", !.removed = TRUE]
  <2>1. ops' = [ops EXCEPT ![m] = r] /\ Negotiate({m})
    BY <1>2, Zenon
  <2>2. ops[m] \in OpRecords
    BY DEF IInv, OpsType, Ids
  <2>3. /\ r \in OpRecords /\ r.stage = "negotiating" /\ r.kind = ops[m].kind
        /\ r.track = ops[m].track /\ r.of = ops[m].of /\ r.gen = ops[m].gen
    BY <2>2, RecordNegotiates, Zenon
  <2> HIDE DEF r
  <2>4. /\ ops' \in Seq(OpRecords) /\ Ids' = Ids /\ ops'[m] = r
        /\ \A n \in Ids : n # m => ops'[n] = ops[n]
    BY <2>1, <2>3, OneChanges
  <2>5. Moves({m}, "negotiating")
    BY <2>3, <2>4 DEF Moves
  <2>6. ops[m].stage \in Past /\ (ops[m].kind # "unpublish" => m \in senders)
    BY DEF At, Past, JInv, RInv, RemovalStages
  <2>7. QED
    BY <1>1, <1>2, <2>1, <2>5, <2>6, OneMoreWaits DEF RecoveryApart
<1>3. CASE ~Current(m)
  BY <1>1, <1>3, StaleCommits DEF negotiationVars
<1>4. QED
  BY <1>2, <1>3

-----------------------------------------------------------------------------
(* Publishing.                                                             *)

LEMMA InstallCommits ==
  ASSUME IInv, JInv, NEW n \in Ids, Install(n)
  PROVE  JInv'
<1> USE DEF Install, recoveryVars, linkVars, bookVars, negotiationVars
<1>0. TasksKept
  BY TaskRuns
<1>1. CASE ~At(n, "installing")
  <2>1. Moves({}, "failing")
    BY <1>1, NoneMoves
  <2>2. QED
    BY <1>0, <1>1, <2>1, QuietKeeps DEF Sending, RecoveryApart
<1>2. CASE At(n, "installing") /\ ~Current(n)
  <2>1. ~Ended(n) /\ Move(n, "failing")
    BY <1>2 DEF At, Ended
  <2>2. QED
    BY <1>0, <1>2, <2>1, StaleCommits
<1>3. CASE At(n, "installing") /\ Current(n)
  <2>1. Moves({n}, "installed") /\ senders' = senders \cup {n} /\ ~Ended(n)
    BY <1>3, SomeMove DEF Move, Stages, At, Ended
  <2>2. OneOfATrack'
    BY <2>1, TracksKept DEF JInv, Live
  <2>3. RInv'
    BY <1>0, <2>1, RemovalsKept DEF JInv, PastOrDone, Past
  <2>4. /\ published \subseteq Ids /\ waiters \subseteq Ids \cup {Resume}
        /\ \A p \in Ids : TakenAway(p) => TakenAway(p)'
    BY <1>0, <2>1, TakenStays DEF IInv, PublishedDone, WaitersWait, Moves, TasksKept
  <2>5. Installed' /\ WaitersCurrent'
    BY <2>1, <2>4 DEF JInv, NInv, Installed, WaitersCurrent, Moves, Current
  <2>6. SentOrTaken'
    BY <2>1, <2>4 DEF JInv, NInv, SentOrTaken
  <2>7. RoundServes'
    BY <2>1, <2>4 DEF JInv, NInv, RoundServes, Contains, Lacks, Moves
  <2>8. Answered'
    BY <2>1, <2>4 DEF JInv, NInv, Answered, Contains, Moves, At, Current
  <2>9. Gone'
    <3>1. \A m \in Ids : Removal(m) => ops[m].of # n
      BY <1>3 DEF IInv, RemovalsOfDone, Removal, At
    <3>2. QED
      BY <2>1, <3>1 DEF JInv, NInv, Gone, Removal, Lacks, Moves, Current
  <2>10. QED
    BY <2>2, <2>3, <2>5, <2>6, <2>7, <2>8, <2>9 DEF JInv, NInv
<1>4. QED
  BY <1>1, <1>2, <1>3

\* A publication is made of a sender that the server has answered.
LEMMA PublishEndsCommitted ==
  ASSUME IInv, JInv, NEW n \in Ids, At(n, "negotiated"), ops[n].kind # "unpublish", Current(n),
         Moves({n}, "done"), published' = published \cup {n},
         UNCHANGED <<unpublishing, tasks, senders, answered, offer, answer, waiters, negotiation>>,
         RecoveryApart
  PROVE  JInv'
<1>0. ~Ended(n) /\ TasksKept
  BY TasksStay DEF At, Ended
<1>1. OneOfATrack'
  BY <1>0, TracksKept DEF JInv, Live, RecoveryApart
<1>2. RInv'
  BY <1>0, RemovalsKept DEF JInv
<1>3. /\ published \subseteq Ids /\ waiters \subseteq Ids \cup {Resume}
      /\ \A p \in Ids : TakenAway(p) => TakenAway(p)'
  BY <1>0, TakenStays DEF IInv, PublishedDone, WaitersWait, Moves, TasksKept
<1>4. n \in senders /\ n \in answered /\ Contains(n)
  BY DEF JInv, NInv, Installed, Answered, Sending, At
<1>5. Installed' /\ WaitersCurrent'
  BY <1>3 DEF JInv, NInv, Installed, WaitersCurrent, Moves, Current, Sending
<1>6. SentOrTaken'
  BY <1>3, <1>4 DEF JInv, NInv, SentOrTaken
<1>7. RoundServes'
  BY <1>3 DEF JInv, NInv, RoundServes, Contains, Lacks, Moves
<1>8. Answered'
  BY <1>3, <1>4 DEF JInv, NInv, Answered, Contains, Moves, At, Current
<1>9. Gone'
  BY DEF JInv, NInv, Gone, Removal, Lacks, Moves, Current
<1>10. QED
  BY <1>1, <1>2, <1>5, <1>6, <1>7, <1>8, <1>9 DEF JInv, NInv

LEMMA CommitPublishCommits ==
  ASSUME IInv, JInv, NEW n \in Ids, CommitPublish(n)
  PROVE  JInv'
<1> USE DEF CommitPublish, recoveryVars, linkVars, pcVars, negotiationVars
<1>1. CASE Current(n)
  <2> DEFINE r == [ops[n] EXCEPT !.stage = "done", !.calm = ~active]
  <2>1. ops' = [ops EXCEPT ![n] = r]
    BY <1>1, Zenon
  <2>2. ops[n] \in OpRecords
    BY DEF IInv, OpsType, Ids
  <2>3. (~active) \in BOOLEAN
    OBVIOUS
  <2>4. /\ r \in OpRecords /\ r.stage = "done" /\ r.kind = ops[n].kind
        /\ r.track = ops[n].track /\ r.of = ops[n].of /\ r.gen = ops[n].gen
    BY <2>2, <2>3, RecordEnds, Zenon
  <2> HIDE DEF r
  <2>5. /\ ops' \in Seq(OpRecords) /\ Ids' = Ids /\ ops'[n] = r
        /\ \A m \in Ids : m # n => ops'[m] = ops[m]
    BY <2>1, <2>4, OneChanges
  <2>6. Moves({n}, "done")
    BY <2>4, <2>5 DEF Moves
  <2>7. RecoveryApart
    BY DEF RecoveryApart
  <2>8. QED
    BY <1>1, <2>6, <2>7, PublishEndsCommitted
<1>2. CASE ~Current(n)
  <2>1. ~Ended(n) /\ TasksKept /\ Move(n, "failing")
    BY <1>2, TasksStay DEF At, Ended
  <2>2. QED
    BY <1>2, <2>1, StaleCommits DEF bookVars
<1>3. QED
  BY <1>1, <1>2

-----------------------------------------------------------------------------
(* Unpublishing.                                                           *)

LEMMA UnpublishCommits ==
  ASSUME IInv, JInv, NEW p \in published, Unpublish(p)
  PROVE  JInv'
<1> DEFINE op == Operation("unpublish", ops[p].track, p, "removing")
           new == Len(ops) + 1
<1>0. /\ room = "Connected" /\ p \notin unpublishing /\ unpublishing' = unpublishing \cup {p}
      /\ tasks' = Append(tasks, new) /\ ops' = Append(ops, op)
      /\ UNCHANGED <<driver, queue, generation, published, senders, answered, offer, answer,
                     waiters, negotiation>>
  BY DEF Unpublish, recoveryVars, linkVars, negotiationVars
<1>1. /\ op.kind = "unpublish" /\ op.of = p /\ op.stage = "removing" /\ op.gen = generation
      /\ ops' = Append(ops, op)
  BY <1>0 DEF Operation
<1> HIDE DEF op
<1>2. Ids = 1 .. Len(ops) /\ Len(ops) \in Nat /\ ops \in Seq(OpRecords)
  BY IdsAreNumbers DEF IInv, OpsType
<1>3. /\ Ids' = Ids \cup {new} /\ new \notin Ids /\ ops'[new] = op
      /\ \A n \in Ids : ops'[n] = ops[n]
  BY <1>1, <1>2 DEF Ids
<1>4. /\ ops'[new].kind = "unpublish" /\ ops'[new].of = p /\ ops'[new].stage = "removing"
      /\ ops'[new].gen = generation
  BY <1>1, <1>3
<1>5. /\ published \subseteq Ids /\ tasks \in Seq(Nat) /\ \A i \in DOMAIN tasks : tasks[i] \in Ids
      /\ waiters \subseteq Ids \cup {Resume} /\ new \in Nat
  BY <1>2 DEF IInv, PublishedDone, SetsType, WaitersWait
<1> HIDE DEF new
<1>6. \A n \in Ids : (Current(n)' <=> Current(n)) /\ (Ended(n)' <=> Ended(n))
                     /\ (Removal(n)' <=> Removal(n))
  BY <1>0, <1>3 DEF Current, Ended, Removal
<1>7. /\ DOMAIN tasks' = DOMAIN tasks \cup {Len(tasks) + 1} /\ tasks'[Len(tasks) + 1] = new
      /\ DOMAIN tasks \subseteq Nat /\ Len(tasks) \in Nat
      /\ \A i \in DOMAIN tasks : tasks'[i] = tasks[i] /\ i < Len(tasks) + 1
  BY <1>0, <1>5
\* No removal of p is under way, and none has been carried out.
<1>8. \A m \in Ids : Removal(m) /\ ops[m].of = p => Ended(m) /\ ~At(m, "done")
  BY <1>0 DEF JInv, RInv, RemovalsIntended, RemovedIsGone
<1>9. OneOfATrack'
  <2>1. Live' = Live /\ Live \subseteq Ids
    BY <1>0, <1>3, <1>4, <1>5, <1>6 DEF Live
  <2>2. \A q \in published' : Current(q)'
    BY <1>0, <1>5, <1>6 DEF JInv, OneOfATrack
  <2>3. driver' # "connecting"
    BY <1>0 DEF JInv, OneOfATrack
  <2>4. QED
    <3>1. \A n1, n2 \in Live' : ops'[n1].track = ops'[n2].track => n1 = n2
      BY <1>3, <2>1 DEF JInv, OneOfATrack
    <3>2. driver' = "republishing" => \A n \in Live' : ops'[n].track \notin queue'
      BY <1>0, <1>3, <2>1 DEF JInv, OneOfATrack
    <3>3. QED
      BY <2>2, <2>3, <3>1, <3>2 DEF OneOfATrack
<1>10. RInv'
  <2>1. RemovalStages' /\ RemovalsIntended'
    BY <1>0, <1>3, <1>4, <1>6 DEF JInv, RInv, RemovalStages, RemovalsIntended
  <2>2. RemovalsOfSession'
    <3>1. ops[p].gen = generation
      BY DEF JInv, OneOfATrack, Current
    <3>2. \A m \in Ids : ops'[m].kind = "unpublish" => ops'[ops'[m].of].gen = ops'[m].gen
      BY <1>3 DEF JInv, RInv, RemovalsOfSession, IInv, RemovalsOfDone
    <3>3. ops'[ops'[new].of].gen = ops'[new].gen
      BY <1>3, <1>4, <1>5, <3>1
    <3>4. QED
      BY <1>3, <3>2, <3>3 DEF RemovalsOfSession
  <2>3. OneRemoval'
    <3>1. SUFFICES ASSUME NEW m1 \in Ids', NEW m2 \in Ids', Removal(m1)', Removal(m2)',
                          ~(Ended(m1)'), ~(Ended(m2)'), ops'[m1].of = ops'[m2].of
                   PROVE  m1 = m2
      BY DEF OneRemoval
    <3>2. CASE m1 \in Ids /\ m2 \in Ids
      BY <1>3, <1>6, <3>1, <3>2 DEF JInv, RInv, OneRemoval
    <3>3. CASE m1 \notin Ids \/ m2 \notin Ids
      BY <1>3, <1>4, <1>6, <1>8, <3>1, <3>3
    <3>4. QED
      BY <3>2, <3>3
  <2>4. TasksInOrder'
    <3>1. SUFFICES ASSUME NEW i \in DOMAIN tasks', NEW j \in DOMAIN tasks', i < j,
                          Removal(tasks[i]), i \in DOMAIN tasks,
                          j \in DOMAIN tasks => Removal(tasks[j])
                   PROVE  /\ tasks'[i] # tasks'[j]
                          /\ ops'[tasks'[i]].of = ops'[tasks'[j]].of =>
                               ops'[tasks'[i]].stage # "removing"
      <4>1. \A i, j \in DOMAIN tasks' : i < j => i \in DOMAIN tasks
        <5>1. DOMAIN tasks = 1 .. Len(tasks)
          BY <1>5
        <5>2. QED
          BY <1>7, <5>1
      <4>2. QED
        BY <1>5, <1>6, <1>7, <4>1 DEF TasksInOrder, At
    <3>2. CASE j \in DOMAIN tasks
      <4>1. /\ tasks'[i] = tasks[i] /\ tasks'[j] = tasks[j] /\ tasks[i] \in Ids /\ tasks[j] \in Ids
            /\ tasks[i] # tasks[j]
            /\ ops[tasks[i]].of = ops[tasks[j]].of => ops[tasks[i]].stage # "removing"
        BY <1>5, <1>7, <3>1, <3>2 DEF JInv, RInv, TasksInOrder, At
      <4>2. QED
        BY <1>3, <4>1
    <3>3. CASE j \notin DOMAIN tasks
      <4>1. tasks'[j] = new /\ tasks'[i] = tasks[i] /\ tasks[i] \in Ids
        BY <1>5, <1>7, <3>1, <3>3
      <4>2. ops[tasks[i]].of = p => ops[tasks[i]].stage # "removing"
        BY <1>8, <3>1, <4>1 DEF Ended
      <4>3. QED
        BY <1>3, <1>4, <4>1, <4>2
    <3>4. QED
      BY <3>2, <3>3
  <2>5. NoTaskLeft'
    <3>1. SUFFICES ASSUME NEW m \in Ids', Removal(m)', ops'[m].stage \in PastOrDone,
                          NEW i \in DOMAIN tasks'
                   PROVE  ops'[tasks'[i]].kind = "unpublish" /\ ops'[tasks'[i]].gen = generation'
                            => ops'[tasks'[i]].of # ops'[m].of
      BY DEF NoTaskLeft, Removal, Current
    <3>2. m \in Ids /\ ops'[m] = ops[m] /\ Removal(m)
      BY <1>3, <1>4, <1>6, <3>1 DEF PastOrDone, Past
    <3>3. ops[m].of # p
      BY <1>8, <3>1, <3>2 DEF PastOrDone, Past, Ended, At
    <3>4. CASE i \in DOMAIN tasks
      <4>1. tasks'[i] = tasks[i] /\ tasks[i] \in Ids
        BY <1>5, <1>7, <3>4
      <4>2. Removal(tasks[i]) => ops[tasks[i]].of # ops[m].of
        BY <3>1, <3>2, <3>4 DEF JInv, RInv, NoTaskLeft
      <4>3. QED
        BY <1>0, <1>3, <3>2, <4>1, <4>2 DEF Removal, Current
    <3>5. CASE i \notin DOMAIN tasks
      BY <1>4, <1>7, <3>2, <3>3, <3>5
    <3>6. QED
      BY <3>4, <3>5
  <2>6. RemovedIsGone'
    BY <1>0, <1>3, <1>4, <1>6 DEF JInv, RInv, RemovedIsGone, At
  <2>7. TaskOfPublished'
    <3>1. \A i \in DOMAIN tasks :
            ops'[tasks'[i]].kind = "unpublish" /\ ops'[tasks'[i]].gen = generation
              => ops'[tasks'[i]].of \in published
      BY <1>3, <1>5, <1>7 DEF JInv, RInv, TaskOfPublished, Removal, Current
    <3>2. QED
      BY <1>0, <1>4, <1>7, <3>1 DEF TaskOfPublished, Removal, Current
  <2>8. QED
    BY <2>1, <2>2, <2>3, <2>4, <2>5, <2>6, <2>7 DEF RInv
<1>11. NInv'
  <2>1. \A q \in Ids : TakenAway(q) => TakenAway(q)'
    BY <1>3, <1>7, TakenStays
  <2>2. SentOrTaken'
    BY <1>0, <1>5, <2>1 DEF JInv, NInv, SentOrTaken
  <2>3. Installed' /\ WaitersCurrent'
    BY <1>0, <1>3, <1>4, <1>5, <1>6 DEF JInv, NInv, Installed, WaitersCurrent, Sending
  <2>4. RoundServes'
    BY <1>0, <1>3, <1>5 DEF JInv, NInv, RoundServes, Lacks, Contains
  <2>a. Gone'
    BY <1>0, <1>3, <1>4, <1>6 DEF JInv, NInv, Gone, Lacks
  <2>5. Answered'
    BY <1>0, <1>3, <1>4, <1>5, <1>6, <2>1 DEF JInv, NInv, Answered, Contains, At
  <2>6. QED
    BY <2>2, <2>3, <2>4, <2>a, <2>5 DEF NInv
<1>12. QED
  BY <1>9, <1>10, <1>11 DEF JInv

\* The task takes the sender of the publication away, and leaves no other
\* task of a removal of it.
LEMMA SendersRemoved ==
  ASSUME IInv, JInv, NEW m \in Ids, tasks # <<>>, m = Head(tasks), tasks' = Tail(tasks), Removal(m),
         NEW own \in SUBSET senders, \A n \in own : ops[n].track = ops[m].track,
         senders' = senders \ own,
         NEW S, NEW st, Moves(S, st),
         \/ S = {} /\ st = "failing"
         \/ S = {m} /\ st = "removed" /\ At(m, "removing"),
         UNCHANGED <<published, unpublishing, answered, offer, answer, waiters, negotiation>>,
         RecoveryApart
  PROVE  JInv'
<1>0. PICK p : p = ops[m].of
  OBVIOUS
<1>1. TasksKept /\ \A n \in S \cap Ids : ~Ended(n)
  BY TaskRuns DEF At, Ended
<1>2. tasks \in Seq(Nat)
  BY DEF IInv, SetsType
<1>3. /\ 1 \in DOMAIN tasks /\ tasks[1] = m
      /\ \A i \in DOMAIN tasks' : i + 1 \in DOMAIN tasks /\ 1 < i + 1 /\ tasks'[i] = tasks[i + 1]
  BY <1>2
<1>4. /\ p \in published /\ p \in Ids /\ At(p, "done") /\ ops[p].track = ops[m].track
      /\ ops[m].kind = "unpublish" /\ Current(m)
  BY <1>0, <1>3 DEF JInv, RInv, TaskOfPublished, IInv, RemovalsOfDone, Removal
<1>5. \A i \in DOMAIN tasks' : Removal(tasks'[i]) =>
        tasks'[i] # m /\ (At(m, "removing") => ops[tasks'[i]].of # p)
  BY <1>0, <1>3 DEF JInv, RInv, TasksInOrder
<1>6. \A n \in own : n \in Live => n = p
  BY <1>4 DEF JInv, OneOfATrack, Live
<1>7. /\ published \subseteq Ids /\ waiters \subseteq Ids \cup {Resume}
      /\ \A n \in Ids : (Current(n)' <=> Current(n)) /\ (Removal(n)' <=> Removal(n))
                        /\ (~(Ended(n)') => ~Ended(n))
  BY <1>1 DEF IInv, PublishedDone, WaitersWait, Moves, Current, Removal, Ended
<1>8. OneOfATrack'
  BY <1>1, TracksKept DEF JInv, Live, RecoveryApart
<1>9. RInv'
  <2>1. RemovalStages' /\ RemovalsIntended' /\ OneRemoval'
    BY <1>4, <1>7 DEF JInv, RInv, RemovalStages, RemovalsIntended, OneRemoval, Moves
  <2>2. RemovalsOfSession'
    BY DEF JInv, RInv, RemovalsOfSession, Moves, IInv, RemovalsOfDone
  <2>3. TasksInOrder'
    <3>1. \A k \in Ids : ops'[k].stage = "removing" => ops[k].stage = "removing"
      BY DEF Moves
    <3>2. SUFFICES ASSUME NEW i \in DOMAIN tasks', NEW j \in DOMAIN tasks', i < j,
                          Removal(tasks[i])', Removal(tasks[j])'
                   PROVE  /\ tasks'[i] # tasks'[j]
                          /\ ops'[tasks'[i]].of = ops'[tasks'[j]].of =>
                               ops'[tasks'[i]].stage # "removing"
      BY DEF TasksInOrder, At
    <3>3. tasks'[i] \in Ids /\ tasks'[j] \in Ids
      BY <1>1 DEF TasksKept
    <3>4. PICK k \in DOMAIN tasks, l \in DOMAIN tasks :
                 k < l /\ tasks[k] = tasks'[i] /\ tasks[l] = tasks'[j]
      BY <1>1, <3>2, <3>3 DEF TasksKept, Removal, Moves
    <3>5. Removal(tasks[k]) /\ Removal(tasks[l])
      BY <3>2, <3>3, <3>4 DEF Removal, Current, Moves
    <3>6. tasks[k] # tasks[l] /\ (ops[tasks[k]].of = ops[tasks[l]].of =>
                                   ops[tasks[k]].stage # "removing")
      BY <3>4, <3>5 DEF JInv, RInv, TasksInOrder, At
    <3>7. QED
      BY <3>1, <3>3, <3>4, <3>6 DEF Moves
  <2>4. NoTaskLeft'
    <3>1. SUFFICES ASSUME NEW k \in Ids, Removal(k), ops'[k].stage \in PastOrDone,
                          NEW i \in DOMAIN tasks', tasks'[i] \in Ids, Removal(tasks'[i])
                   PROVE  ops[tasks'[i]].of # ops[k].of
      BY <1>1, <1>7 DEF NoTaskLeft, Moves, TasksKept
    <3>2. CASE ops[k].stage \in PastOrDone
      BY <1>1, <3>1, <3>2 DEF JInv, RInv, NoTaskLeft, TasksKept, Removal
    <3>3. CASE ops[k].stage \notin PastOrDone
      <4>1. k = m /\ At(m, "removing")
        BY <3>1, <3>3 DEF Moves
      <4>2. QED
        BY <1>0, <1>5, <3>1, <4>1
    <3>4. QED
      BY <3>2, <3>3
  <2>5. RemovedIsGone'
    BY <1>7 DEF JInv, RInv, RemovedIsGone, Moves, At
  <2>6. TaskOfPublished'
    BY <1>1, <1>7 DEF JInv, RInv, TaskOfPublished, TasksKept, Moves, Removal
  <2>7. QED
    BY <2>1, <2>2, <2>3, <2>4, <2>5, <2>6 DEF RInv
<1>10. NInv'
  <2>1. \A q \in Ids : TakenAway(q) => TakenAway(q)'
    BY <1>1, TakenStays DEF Moves, TasksKept
  <2>2. TakenAway(p)'
    <3>1. \A i \in DOMAIN tasks' : tasks'[i] # m
      BY <1>5, <1>4 DEF Removal
    <3>2. m \in Ids' /\ ops'[m].kind = "unpublish" /\ ops'[m].of = p /\ m \notin Posted'
      BY <1>0, <1>4, <3>1 DEF Moves, Posted
    <3>3. QED
      BY <3>2 DEF TakenAway
  <2>3. SentOrTaken'
    <3>1. \A q \in published : q \in own => q = p
      BY <1>6 DEF Live
    <3>2. QED
      BY <1>7, <2>1, <2>2, <3>1 DEF JInv, NInv, SentOrTaken
  <2>4. Installed'
    <3>1. SUFFICES ASSUME NEW n \in Ids, ops[n].kind # "unpublish", Current(n), ops[n].stage \in Sending
                   PROVE  n \in senders /\ n \notin own
      BY <1>4, <1>7 DEF Installed, Moves, Sending
    <3>2. n \in Live /\ n # p
      BY <1>4, <3>1 DEF Live, Sending, Ended, At
    <3>3. QED
      BY <1>6, <3>1, <3>2 DEF JInv, NInv, Installed
  <2>5. WaitersCurrent' /\ RoundServes'
    BY <1>7 DEF JInv, NInv, WaitersCurrent, RoundServes, Contains, Lacks, Moves
  <2>6. Answered'
    BY <1>4, <1>7, <2>1 DEF JInv, NInv, Answered, Contains, Moves, At
  <2>7. Gone'
    BY <1>7 DEF JInv, NInv, Gone, Lacks, Moves
  <2>8. QED
    BY <2>3, <2>4, <2>5, <2>6, <2>7 DEF NInv
<1>11. QED
  BY <1>8, <1>9, <1>10 DEF JInv

LEMMA RemoveSendersCommits ==
  ASSUME IInv, JInv, NEW m \in Ids, RemoveSenders(m)
  PROVE  JInv'
<1> DEFINE own == {n \in senders : Current(m) /\ ops[n].track = ops[m].track}
           st == IF own = {} THEN "failing" ELSE "removed"
<1>1. /\ tasks # <<>> /\ m = Head(tasks) /\ ops[m].kind = "unpublish"
      /\ tasks' = Tail(tasks) /\ senders' = senders \ own
      /\ IF At(m, "removing") THEN Move(m, st) ELSE UNCHANGED ops
      /\ UNCHANGED <<driver, room, queue, generation, published, unpublishing, answered, offer,
                     answer, waiters, negotiation>>
  BY DEF RemoveSenders, recoveryVars, linkVars, bookVars, negotiationVars
<1>2. own \in SUBSET senders /\ (\A n \in own : ops[n].track = ops[m].track)
      /\ (~Current(m) => own = {})
  OBVIOUS
<1>3. st \in Stages /\ (own = {} => st = "failing") /\ (own # {} => st = "removed")
  BY DEF Stages
<1> HIDE DEF own, st
<1>4. TasksKept /\ RecoveryApart
  BY <1>1, TaskRuns DEF RecoveryApart
<1>5. CASE own = {} /\ At(m, "removing")
  <2>1. Moves({m}, "failing") /\ ~Ended(m)
    BY <1>1, <1>3, <1>5, SomeMove DEF Move, At, Ended
  <2>2. QED
    BY <1>1, <1>4, <1>5, <2>1, QuietKeeps DEF Sending
<1>6. CASE own = {} /\ ~At(m, "removing")
  <2>1. Moves({}, "failing")
    BY <1>1, <1>6, NoneMoves
  <2>2. QED
    BY <1>1, <1>4, <1>6, <2>1, QuietKeeps DEF Sending
<1>7. CASE own # {} /\ At(m, "removing")
  <2>1. Moves({m}, "removed") /\ Removal(m)
    BY <1>1, <1>2, <1>3, <1>7, SomeMove DEF Move, Removal
  <2>2. QED
    BY <1>1, <1>2, <1>4, <1>7, <2>1, SendersRemoved
<1>8. CASE own # {} /\ ~At(m, "removing")
  <2>1. Moves({}, "failing") /\ Removal(m)
    BY <1>1, <1>2, <1>8, NoneMoves DEF Removal
  <2>2. QED
    BY <1>1, <1>2, <1>4, <2>1, SendersRemoved
<1>9. QED
  BY <1>5, <1>6, <1>7, <1>8

\* A publication ends when the server has answered that its sender is gone.
LEMMA RemovalEndsCommitted ==
  ASSUME IInv, JInv, NEW m \in Ids, At(m, "negotiated"), Removal(m), Moves({m}, "done"),
         ops[m].of \in unpublishing,
         published' = published \ {ops[m].of}, unpublishing' = unpublishing \ {ops[m].of},
         UNCHANGED <<tasks, senders, answered, offer, answer, waiters, negotiation>>,
         RecoveryApart
  PROVE  JInv'
<1>1. ~Ended(m) /\ TasksKept
  BY TasksStay DEF At, Ended
<1>2. OneOfATrack'
  BY <1>1, TracksKept DEF JInv, Live, RecoveryApart
<1>3. /\ published \subseteq Ids /\ waiters \subseteq Ids \cup {Resume}
      /\ \A i \in DOMAIN tasks : tasks[i] \in Ids
      /\ \A n \in Ids : (Current(n)' <=> Current(n)) /\ (Removal(n)' <=> Removal(n))
                        /\ (~(Ended(n)') <=> ~Ended(n) /\ n # m)
  BY <1>1 DEF IInv, PublishedDone, WaitersWait, SetsType, Moves, Current, Removal, Ended
<1>4. RInv'
  <2>1. RemovalStages' /\ OneRemoval'
    BY <1>3 DEF JInv, RInv, RemovalStages, OneRemoval, Moves
  <2>2. RemovalsOfSession'
    BY DEF JInv, RInv, RemovalsOfSession, Moves, IInv, RemovalsOfDone
  <2>3. RemovalsIntended'
    BY <1>1, <1>3 DEF JInv, RInv, RemovalsIntended, OneRemoval, Moves
  <2>4. TasksInOrder'
    BY SMTT(30), <1>1, <1>3 DEF JInv, RInv, TasksInOrder, TasksKept, Moves, Removal, At
  <2>5. NoTaskLeft'
    BY <1>3 DEF JInv, RInv, NoTaskLeft, Moves, At, PastOrDone, Past
  <2>6. RemovedIsGone'
    BY <1>3 DEF JInv, RInv, RemovedIsGone, Moves, At
  <2>7. TaskOfPublished'
    <3>1. \A i \in DOMAIN tasks : Removal(tasks[i]) => ops[tasks[i]].of # ops[m].of
      BY DEF JInv, RInv, NoTaskLeft, At, PastOrDone, Past
    <3>2. QED
      BY <1>3, <3>1 DEF JInv, RInv, TaskOfPublished, Moves
  <2>8. QED
    BY <2>1, <2>2, <2>3, <2>4, <2>5, <2>6, <2>7 DEF RInv
<1>5. NInv'
  <2>1. \A q \in Ids : TakenAway(q) => TakenAway(q)'
    BY <1>1, TakenStays DEF Moves, TasksKept
  <2>2. Installed' /\ SentOrTaken' /\ WaitersCurrent'
    BY <1>3, <2>1 DEF JInv, NInv, Installed, SentOrTaken, WaitersCurrent, Moves, Sending
  <2>3. RoundServes'
    BY <1>3 DEF JInv, NInv, RoundServes, Contains, Lacks, Moves
  <2>4. Answered'
    BY <1>3, <2>1 DEF JInv, NInv, Answered, Contains, Moves, At, Removal
  <2>5. Gone'
    BY <1>3 DEF JInv, NInv, Gone, Lacks, Moves, At
  <2>6. QED
    BY <2>2, <2>3, <2>4, <2>5 DEF NInv
<1>6. QED
  BY <1>2, <1>4, <1>5 DEF JInv

LEMMA CommitUnpublishCommits ==
  ASSUME IInv, JInv, NEW m \in Ids, CommitUnpublish(m)
  PROVE  JInv'
<1> USE DEF CommitUnpublish, recoveryVars, linkVars, pcVars, negotiationVars
<1>1. CASE Current(m) /\ room = "Connected" /\ ops[m].of \in unpublishing
  <2>1. Moves({m}, "done") /\ Removal(m)
    BY <1>1, SomeMove DEF Move, Stages, Removal
  <2>2. QED
    BY <1>1, <2>1, RemovalEndsCommitted DEF RecoveryApart
<1>2. CASE ~(Current(m) /\ room = "Connected" /\ ops[m].of \in unpublishing)
  <2>1. ~Ended(m) /\ TasksKept /\ Move(m, "failing")
    BY <1>2, TasksStay DEF At, Ended
  <2>2. QED
    BY <1>2, <2>1, OneQuiet DEF RecoveryApart
<1>3. QED
  BY <1>1, <1>2

\* A removal gives its intent up; no other that goes on has the same one.
LEMMA IntentGivenUp ==
  ASSUME IInv, JInv, NEW m \in Ids, ~Ended(m), ops[m].kind = "unpublish", Moves({m}, "failed"),
         unpublishing' = unpublishing \ {ops[m].of},
         UNCHANGED <<published, tasks, senders, answered, offer, answer, waiters, negotiation>>,
         RecoveryApart
  PROVE  JInv'
<1>1. TasksKept
  BY TasksStay
<1>2. OneOfATrack'
  BY TracksKept DEF JInv, Live, RecoveryApart
<1>3. /\ \A i \in DOMAIN tasks : tasks[i] \in Ids
      /\ \A n \in Ids : (Removal(n)' <=> Removal(n)) /\ (~(Ended(n)') <=> ~Ended(n) /\ n # m)
  BY DEF IInv, SetsType, Moves, Current, Removal, Ended
<1>4. RInv'
  <2>1. RemovalStages' /\ OneRemoval'
    BY <1>3 DEF JInv, RInv, RemovalStages, OneRemoval, Moves
  <2>2. RemovalsOfSession'
    BY DEF JInv, RInv, RemovalsOfSession, Moves, IInv, RemovalsOfDone
  <2>3. RemovalsIntended'
    <3>1. SUFFICES ASSUME NEW k \in Ids, Removal(k), ~Ended(k), k # m
                   PROVE  ops[k].of \in unpublishing /\ ops[k].of # ops[m].of
      BY <1>3 DEF RemovalsIntended, Moves
    <3>2. ops[k].of \in unpublishing
      BY <3>1 DEF JInv, RInv, RemovalsIntended
    <3>3. ops[k].of = ops[m].of => Removal(m)
      BY <3>1 DEF JInv, RInv, RemovalsOfSession, Removal, Current
    <3>4. QED
      BY <3>1, <3>2, <3>3 DEF JInv, RInv, OneRemoval
  <2>4. TasksInOrder'
    BY <1>1, <1>3 DEF JInv, RInv, TasksInOrder, TasksKept, Moves, Removal, At
  <2>5. NoTaskLeft'
    BY <1>3 DEF JInv, RInv, NoTaskLeft, Moves, PastOrDone, Past
  <2>6. RemovedIsGone' /\ TaskOfPublished'
    BY <1>3 DEF JInv, RInv, RemovedIsGone, TaskOfPublished, Moves, At
  <2>7. QED
    BY <2>1, <2>2, <2>3, <2>4, <2>5, <2>6 DEF RInv
<1>5. NInv'
  BY <1>1, ConnectionKept DEF JInv, Sending
<1>6. QED
  BY <1>2, <1>4, <1>5 DEF JInv

LEMMA UnpublishFailsCommits ==
  ASSUME IInv, JInv, NEW m \in Ids, UnpublishFails(m)
  PROVE  JInv'
<1> USE DEF UnpublishFails, recoveryVars, linkVars, pcVars, negotiationVars
<1>1. ~Ended(m) /\ TasksKept /\ RecoveryApart
  BY TasksStay DEF At, Ended, RecoveryApart
<1>2. CASE ops[m].of \in unpublishing /\ ops[m].removed
  BY <1>1, <1>2, OneQuiet
<1>3. CASE ~(ops[m].of \in unpublishing /\ ops[m].removed)
  <2>1. Moves({m}, "failed")
    BY <1>3, SomeMove DEF Move, Stages
  <2>2. QED
    BY <1>1, <1>3, <2>1, IntentGivenUp
<1>4. QED
  BY <1>2, <1>3

-----------------------------------------------------------------------------
(* The invariant.                                                          *)

LEMMA InitCommits ==
  ASSUME Init
  PROVE  JInv
<1>1. Ids = {} /\ Live = {} /\ DOMAIN tasks = {} /\ published = {} /\ waiters = {}
  BY DEF Init, Ids, Live
<1>2. OneOfATrack /\ RInv
  BY <1>1 DEF Init, OneOfATrack, RInv, RemovalStages, RemovalsOfSession, RemovalsIntended,
     OneRemoval, TasksInOrder, NoTaskLeft, RemovedIsGone, TaskOfPublished
<1>3. NInv
  BY <1>1 DEF Init, NInv, Installed, SentOrTaken, WaitersCurrent, RoundServes, Answered, Gone
<1>4. QED
  BY <1>2, <1>3 DEF JInv

LEMMA StepCommits ==
  ASSUME IInv, JInv, [Next]_vars
  PROVE  JInv'
<1>0. IInv'
  BY StepKeeps
<1>1. CASE \E t \in Tracks : Publish(t)
  BY <1>1, PublishCommits
<1>2. CASE \E p \in published : Unpublish(p)
  BY <1>2, UnpublishCommits
<1>3. CASE \E n \in Ids : Timeout(n)
  BY <1>3, TimeoutCommits
<1>4. CASE \E n \in Ids : Transaction(n)
  <2>1. PICK n \in Ids : Transaction(n)
    BY <1>4
  <2>2. QED
    BY <2>1, AcknowledgeCommits, PostInstallCommits, InstallCommits, NegotiateTrackCommits,
       CommitPublishCommits, RollBackCommits, RemoveSendersCommits, NegotiateRemovalCommits,
       CommitUnpublishCommits, UnpublishFailsCommits DEF Transaction
<1>5. CASE Negotiation
  BY <1>5, CreateOfferCommits, SendOfferCommits, ApplyAnswerCommits, RetryTimerCommits
     DEF Negotiation
<1>6. CASE OfferFails \/ SetLocalFails \/ RefuseAnswer
  BY <1>6, OfferFailsCommits, RefuseAnswerCommits
<1>7. CASE Recovery \/ BreakLink \/ RestartFails
  BY <1>0, <1>7, RecoveryStepCommits
<1>8. CASE UNCHANGED vars
  BY <1>8, StillKeeps
     DEF vars, recoveryVars, linkVars, bookVars, negotiationVars, RecoveryApart
<1>9. QED
  BY <1>1, <1>2, <1>3, <1>4, <1>5, <1>6, <1>7, <1>8 DEF Next

\* Transactions keep out of each other's way, and every round has the
\* changes of those who wait for it.
THEOREM BothHold == Spec => [](IInv /\ JInv)
<1>1. Init => IInv /\ JInv
  BY InitHolds, InitCommits
<1>2. IInv /\ JInv /\ [Next]_vars => (IInv /\ JInv)'
  BY StepKeeps, StepCommits
<1> QED BY <1>1, <1>2, PTL DEF Spec

\* However transactions interleave in the rounds that they share, a track
\* is published, or its removal ended, only on the answer to an offer that
\* has the change (NegotiatePublisherAsync, HandleAnswerSignal).
THEOREM NoCommitIsEarly == Spec => []CommitsAreNegotiated
<1>1. IInv /\ JInv => CommitsAreNegotiated
  <2>1. SUFFICES ASSUME IInv, JInv PROVE CommitsAreNegotiated
    OBVIOUS
  <2>2. \A p \in published : p \in senders \cap answered \/ TakenAway(p)
    BY <2>1 DEF IInv, PublishedDone, JInv, NInv, SentOrTaken, Answered
  <2>3. \A m \in Ids : (ops[m].kind = "unpublish" /\ At(m, "done") /\ Current(m))
                         => ops[m].of \notin senders \cup answered
    BY <2>1 DEF JInv, NInv, Gone, Removal, At
  <2>4. QED
    BY <2>2, <2>3 DEF CommitsAreNegotiated
<1> QED BY <1>1, BothHold, PTL

-----------------------------------------------------------------------------
(* The invariant: what the server has yet to be told.                      *)

\* Senders are of this session, and of transactions past the signaling thread.
BeforeInstall == {"acking", "acked", "refused", "installing"}
SendersCurrent ==
  \A n \in senders : Current(n) /\ ops[n].stage \notin BeforeInstall

\* A removal that is marked has had its task, and one whose end is uncertain
\* is marked.
MarkedRemovals ==
  /\ \A i \in DOMAIN tasks : ops[tasks[i]].kind = "unpublish" => ~ops[tasks[i]].removed
  /\ \A m \in Ids : At(m, "uncertain") => ops[m].removed

\* What the server has answered, or will answer to the offer under way.
View == IF offer # None THEN offer ELSE IF answer # None THEN answer ELSE answered

Unaware == (senders \ View) \cup (View \ senders)

\* A transaction that has changed the senders and will ask for a negotiation,
\* or a removal that gave up before its task.
Owes(n) ==
  \/ At(n, "installed") \/ At(n, "removed")
  \/ ops[n].kind = "unpublish" /\ (At(n, "failed") \/ (At(n, "failing") /\ ~ops[n].removed))

\* While answers can still come, whatever the server has not been told of the
\* senders has a round or a transaction that will tell it, or an offer with it
\* has failed.
InStep ==
  signaling = "stable" \/ answer # None =>
    \/ creating \/ negotiation = "PendingRetry" \/ Unaware \subseteq missed
    \/ \E n \in Ids : Current(n) /\ Owes(n)

SInv == SendersCurrent /\ MarkedRemovals /\ InStep

-----------------------------------------------------------------------------
(* What a step does to the transactions, the marks included.               *)

\* Those in S move to a stage; the rest of them is as before, but for a
\* publication that is committed.
Passed(S, st) ==
  /\ Ids' = Ids
  /\ \A n \in Ids : /\ ops'[n].kind = ops[n].kind /\ ops'[n].track = ops[n].track
                    /\ ops'[n].of = ops[n].of /\ ops'[n].gen = ops[n].gen
                    /\ ops'[n].removed = ops[n].removed
                    /\ n \notin S \/ ops[n].kind = "unpublish" => ops'[n].calm = ops[n].calm
                    /\ ops'[n].stage = IF n \in S THEN st ELSE ops[n].stage

LEMMA NonePass ==
  ASSUME UNCHANGED ops
  PROVE  Passed({}, "failing")
BY DEF Passed, Ids

LEMMA SomePass ==
  ASSUME IInv, NEW S, NEW st \in Stages, MoveAll(S, st)
  PROVE  Passed(S, st)
<1>1. Ids' = Ids /\ \A n \in Ids : ops[n] \in OpRecords
  BY MoveAllKeeps DEF IInv, OpsType, Ids
<1>2. \A n \in Ids : ops'[n] = IF n \in S THEN [ops[n] EXCEPT !.stage = st] ELSE ops[n]
  BY DEF MoveAll, Ids
<1>3. ASSUME NEW n \in Ids
      PROVE  /\ ops'[n].kind = ops[n].kind /\ ops'[n].track = ops[n].track
             /\ ops'[n].of = ops[n].of /\ ops'[n].gen = ops[n].gen
             /\ ops'[n].removed = ops[n].removed /\ ops'[n].calm = ops[n].calm
             /\ ops'[n].stage = IF n \in S THEN st ELSE ops[n].stage
  BY <1>1, <1>2 DEF OpRecords
<1> QED BY <1>1, <1>3 DEF Passed

\* The two steps that write more of one transaction than its stage.
LEMMA RecordCommits ==
  ASSUME NEW op \in OpRecords, NEW c, c \in BOOLEAN
  PROVE  LET new == [op EXCEPT !.stage = "done", !.calm = c]
         IN  /\ new.stage = "done" /\ new.kind = op.kind /\ new.track = op.track
             /\ new.of = op.of /\ new.gen = op.gen /\ new.removed = op.removed
             /\ new.calm = c
BY DEF OpRecords, Stages

LEMMA PublishPasses ==
  ASSUME IInv, NEW n \in Ids, CommitPublish(n), Current(n)
  PROVE  Passed({n}, "done") /\ (ops'[n].calm => ~active)
<1>1. ops[n] \in OpRecords
  BY DEF IInv, OpsType, Ids
<1>2. PICK c \in BOOLEAN : c = (~active)
  OBVIOUS
<1> DEFINE r == [ops[n] EXCEPT !.stage = "done", !.calm = c]
<1>3. ops' = [ops EXCEPT ![n] = r]
  BY <1>2, Zenon DEF CommitPublish
<1>4. r \in OpRecords
  BY <1>1, RecordEnds, Zenon
<1>5. /\ r.stage = "done" /\ r.kind = ops[n].kind /\ r.track = ops[n].track
      /\ r.of = ops[n].of /\ r.gen = ops[n].gen /\ r.removed = ops[n].removed
      /\ r.calm = c
  BY <1>1, RecordCommits
<1> HIDE DEF r
<1>6. Ids' = Ids /\ ops'[n] = r /\ \A k \in Ids : k # n => ops'[k] = ops[k]
  BY <1>3, <1>4, OneChanges
<1>7. ops'[n].calm => ~active
  BY <1>2, <1>5, <1>6, Zenon
<1>8. ops[n].kind # "unpublish"
  BY DEF CommitPublish
<1>9. Passed({n}, "done")
  BY <1>5, <1>6, <1>8 DEF Passed
<1> QED BY <1>7, <1>9

LEMMA RecordMarked ==
  ASSUME NEW op \in OpRecords
  PROVE  LET new == [op EXCEPT !.stage = "negotiating", !.removed = TRUE]
         IN  /\ new.stage = "negotiating" /\ new.kind = op.kind /\ new.track = op.track
             /\ new.of = op.of /\ new.gen = op.gen /\ new.calm = op.calm
             /\ new.removed = TRUE
BY DEF OpRecords, Stages

LEMMA RemovalMarked ==
  ASSUME IInv, NEW m \in Ids, NegotiateRemoval(m), Current(m)
  PROVE  /\ Ids' = Ids /\ \A k \in Ids : k # m => ops'[k] = ops[k]
         /\ ops'[m].kind = ops[m].kind /\ ops'[m].track = ops[m].track
         /\ ops'[m].of = ops[m].of /\ ops'[m].gen = ops[m].gen
         /\ ops'[m].calm = ops[m].calm
         /\ ops'[m].stage = "negotiating" /\ ops'[m].removed
<1>1. ops[m] \in OpRecords
  BY DEF IInv, OpsType, Ids
<1> DEFINE r == [ops[m] EXCEPT !.stage = "negotiating", !.removed = TRUE]
<1>2. ops' = [ops EXCEPT ![m] = r]
  BY Zenon DEF NegotiateRemoval
<1>3. r \in OpRecords
  BY <1>1, RecordNegotiates, Zenon
<1>4. /\ r.kind = ops[m].kind /\ r.track = ops[m].track
      /\ r.of = ops[m].of /\ r.gen = ops[m].gen
      /\ r.calm = ops[m].calm /\ r.stage = "negotiating" /\ r.removed = TRUE
  BY <1>1, RecordMarked, Zenon
<1> HIDE DEF r
<1>5. Ids' = Ids /\ ops'[m] = r /\ \A k \in Ids : k # m => ops'[k] = ops[k]
  BY <1>2, <1>3, OneChanges
<1> QED BY <1>4, <1>5

-----------------------------------------------------------------------------
(* What the server has yet to be told: steps.                              *)

LEMMA SendersStay ==
  ASSUME IInv, SendersCurrent, NEW S, NEW st, Passed(S, st), UNCHANGED generation,
         senders' \subseteq senders, st \in BeforeInstall => \A n \in S : n \notin senders
  PROVE  SendersCurrent'
<1>1. senders' \subseteq Ids
  BY DEF IInv, Owned
<1>2. ASSUME NEW n \in senders'
      PROVE  ops'[n].gen = generation' /\ ops'[n].stage \notin BeforeInstall
  <2>1. n \in Ids /\ ops[n].gen = generation /\ ops[n].stage \notin BeforeInstall
    BY <1>1 DEF SendersCurrent, Current
  <2> QED BY <2>1 DEF Passed
<1> QED BY <1>2 DEF SendersCurrent, Current

LEMMA MarksStay ==
  ASSUME IInv, MarkedRemovals, NEW S, NEW st, Passed(S, st), TasksKept,
         st = "uncertain" => \A m \in S \cap Ids : ops[m].removed
  PROVE  MarkedRemovals'
<1>1. ASSUME NEW i \in DOMAIN tasks', ops'[tasks'[i]].kind = "unpublish"
      PROVE  ~ops'[tasks'[i]].removed
  <2>1. tasks'[i] \in Ids
    BY DEF TasksKept
  <2>2. PICK k \in DOMAIN tasks : tasks[k] = tasks'[i]
    BY <1>1, <2>1 DEF TasksKept, Passed
  <2>3. ~ops[tasks'[i]].removed
    BY <1>1, <2>1, <2>2 DEF MarkedRemovals, Passed
  <2> QED BY <2>1, <2>3 DEF Passed
<1>2. ASSUME NEW m \in Ids', ops'[m].stage = "uncertain"
      PROVE  ops'[m].removed
  <2>1. m \in Ids /\ ops'[m].removed = ops[m].removed
    BY DEF Passed
  <2> QED BY <1>2, <2>1 DEF Passed, MarkedRemovals, At
<1> QED BY <1>1, <1>2 DEF MarkedRemovals, At

\* Neither the senders nor the rounds change, and whoever owes still does.
LEMMA DebtsStay ==
  ASSUME InStep, Ids \subseteq Ids', \A n \in Ids : Current(n) /\ Owes(n) => (Current(n) /\ Owes(n))',
         UNCHANGED <<senders, answered, offer, answer, signaling, negotiation, creating, missed>>
  PROVE  InStep'
<1>1. Unaware' = Unaware
  BY DEF View, Unaware
<1> QED BY <1>1 DEF InStep

\* A step that leaves all this alone.
LEMMA QuietInStep ==
  ASSUME IInv, SInv, NEW S, NEW st, Passed(S, st), TasksKept, UNCHANGED generation,
         \A n \in S : n \in Ids /\ Current(n) => ~Owes(n),
         st \in BeforeInstall => \A n \in S : n \notin senders,
         st # "uncertain",
         UNCHANGED <<senders, answered, offer, answer, signaling, negotiation, creating, missed>>
  PROVE  SInv'
<1>1. SendersCurrent' /\ MarkedRemovals'
  BY SendersStay, MarksStay DEF SInv
<1>2. ASSUME NEW n \in Ids, Current(n), Owes(n)
      PROVE  (Current(n) /\ Owes(n))'
  <2>1. n \notin S
    BY <1>2
  <2> QED BY <1>2, <2>1 DEF Passed, Owes, At, Current
<1>3. InStep'
  BY <1>2, DebtsStay DEF SInv, Passed
<1> QED BY <1>1, <1>3 DEF SInv

\* A step that asks for a negotiation.
LEMMA NegotiatedInStep ==
  ASSUME NEW S, Negotiate(S)
  PROVE  InStep'
BY DEF Negotiate, Execute, InStep

\* One transaction goes on or fails, and had nothing to tell.
LEMMA OneInStep ==
  ASSUME IInv, SInv, NEW n \in Ids, NEW st \in Stages, Move(n, st), TasksKept,
         Current(n) => ~Owes(n), st \in BeforeInstall => n \notin senders, st # "uncertain",
         UNCHANGED <<generation, senders, answered, offer, answer, signaling, negotiation,
                     creating, missed>>
  PROVE  SInv'
<1>1. Passed({n}, st)
  BY SomePass DEF Move
<1> QED BY <1>1, QuietInStep

\* No transaction moves.
LEMMA StillInStep ==
  ASSUME IInv, SInv,
         UNCHANGED <<ops, tasks, generation, senders, answered, offer, answer, signaling,
                     negotiation, creating, missed>>
  PROVE  SInv'
BY NonePass, TasksStay, QuietInStep DEF BeforeInstall

\* The same, but for InStep.
LEMMA StillOwned ==
  ASSUME IInv, SInv, UNCHANGED <<ops, tasks, generation, senders>>
  PROVE  SendersCurrent' /\ MarkedRemovals'
BY NonePass, TasksStay, SendersStay, MarksStay DEF SInv, BeforeInstall

\* A round that ends moves those who wait for it.
LEMMA WaitersPass ==
  ASSUME IInv, SInv, NEW st \in {"negotiated", "failing"}, Complete(st),
         UNCHANGED <<tasks, generation, senders>>
  PROVE  /\ Passed(waiters, st) /\ SendersCurrent' /\ MarkedRemovals'
         /\ \A n \in waiters \cap Ids : ~Owes(n)
<1>1. Passed(waiters, st)
  BY SomePass DEF Complete, Stages
<1>2. st # "uncertain" /\ st \notin BeforeInstall
  BY DEF BeforeInstall
<1>3. SendersCurrent' /\ MarkedRemovals'
  BY <1>1, <1>2, TasksStay, SendersStay, MarksStay DEF SInv
<1>4. \A n \in waiters \cap Ids : ~Owes(n)
  BY IdsAreNumbers DEF IInv, WaitersWait, Owes, At
<1> QED BY <1>1, <1>3, <1>4

LEMMA CreateOfferInStep ==
  ASSUME IInv, SInv, CreateOffer
  PROVE  SInv'
<1> USE DEF CreateOffer, recoveryVars
<1>1. SendersCurrent' /\ MarkedRemovals'
  BY StillOwned
<1>2. senders \subseteq Ids
  BY DEF IInv, Owned
<1>3. senders # None
  BY <1>2, NothingIsAnswer, IdsAreNumbers DEF None, IInv
<1>4. Unaware' = {}
  BY <1>3 DEF View, Unaware
<1> QED BY <1>1, <1>4 DEF SInv, InStep

LEMMA SendOfferInStep ==
  ASSUME IInv, SInv, SendOffer
  PROVE  SInv'
<1> USE DEF SendOffer
<1>1. CASE link = "open"
  <2>1. SendersCurrent' /\ MarkedRemovals'
    BY <1>1, StillOwned
  <2>2. Unaware' = Unaware /\ Ids' = Ids
    BY <1>1 DEF View, Unaware, Ids, IInv, OneOffer
  <2>3. signaling = "stable" /\ ~creating /\ negotiation' = negotiation
    BY <1>1 DEF IInv, OneOffer
  <2>4. \A n \in Ids : (Current(n) /\ Owes(n)) => (Current(n) /\ Owes(n))'
    BY <1>1 DEF Current, Owes, At
  <2>5. InStep'
    BY <2>2, <2>3, <2>4 DEF SInv, InStep
  <2> QED BY <2>1, <2>5 DEF SInv
<1>2. CASE link # "open"
  <2>1. SendersCurrent' /\ MarkedRemovals'
    BY <1>2, WaitersPass
  <2>2. signaling' = "offer" /\ answer' = None
    BY <1>2 DEF IInv, OneOffer
  <2> QED BY <2>1, <2>2 DEF SInv, InStep
<1> QED BY <1>1, <1>2

LEMMA OfferFailsInStep ==
  ASSUME IInv, SInv, OfferFails \/ SetLocalFails
  PROVE  SInv'
<1> USE DEF OfferFails, SetLocalFails, OnNegotiationFailed, linkVars
<1>1. SendersCurrent' /\ MarkedRemovals'
  BY WaitersPass
<1>2. offer' = None /\ answer' = None
  BY DEF IInv, OneOffer
<1>3. Unaware' = Differing /\ missed' = Differing
  BY <1>2 DEF View, Unaware, Differing
<1> QED BY <1>1, <1>3 DEF SInv, InStep

LEMMA ApplyAnswerInStep ==
  ASSUME IInv, SInv, ApplyAnswer
  PROVE  SInv'
<1> USE DEF ApplyAnswer, bookVars
<1>1. CASE negotiation = "PendingRetry"
  <2>1. SendersCurrent' /\ MarkedRemovals'
    BY <1>1, StillOwned
  <2>2. creating'
    BY <1>1 DEF Execute
  <2> QED BY <2>1, <2>2 DEF SInv, InStep
<1>2. CASE negotiation # "PendingRetry"
  <2>1. /\ Passed(waiters, "negotiated") /\ SendersCurrent' /\ MarkedRemovals'
        /\ \A n \in waiters \cap Ids : ~Owes(n)
    BY <1>2, WaitersPass
  <2>2. Unaware' = Unaware /\ missed' = missed
    BY DEF View, Unaware, IInv, OneOffer
  <2>3. Unaware \subseteq missed \/ \E n \in Ids : Current(n) /\ Owes(n)
    BY <1>2 DEF SInv, InStep, IInv, OneOffer
  <2>4. \A n \in Ids : Current(n) /\ Owes(n) => (Current(n) /\ Owes(n))'
    BY <2>1 DEF Passed, Current, Owes, At
  <2>5. Ids' = Ids
    BY <2>1 DEF Passed
  <2>6. InStep'
    BY <2>2, <2>3, <2>4, <2>5 DEF InStep
  <2> QED BY <2>1, <2>6 DEF SInv
<1> QED BY <1>1, <1>2

LEMMA RefuseAnswerInStep ==
  ASSUME IInv, SInv, RefuseAnswer
  PROVE  SInv'
<1> USE DEF RefuseAnswer
<1>1. SendersCurrent' /\ MarkedRemovals'
  BY WaitersPass
<1>2. signaling' = "offer" /\ answer' = None
  BY DEF IInv, OneOffer
<1> QED BY <1>1, <1>2 DEF SInv, InStep

LEMMA RetryTimerInStep ==
  ASSUME IInv, SInv, RetryTimer
  PROVE  SInv'
<1> USE DEF RetryTimer, recoveryVars, linkVars
<1>1. SendersCurrent' /\ MarkedRemovals'
  BY StillOwned
<1>2. signaling' = "offer" /\ answer' = None
  BY DEF IInv, OneOffer
<1> QED BY <1>1, <1>2 DEF SInv, InStep

\* A transaction begins; a link that cannot send ends it at once.
LEMMA BeginsInStep ==
  ASSUME IInv, SInv, NEW op \in OpRecords, ops' = Append(ops, op), ~op.removed,
         op.stage # "uncertain", tasks' = tasks \/ tasks' = Append(tasks, Len(ops) + 1),
         UNCHANGED <<generation, senders, answered, offer, answer, signaling, negotiation,
                     creating, missed>>
  PROVE  SInv'
<1>1. Ids = 1 .. Len(ops) /\ Len(ops) \in Nat /\ ops \in Seq(OpRecords)
  BY IdsAreNumbers DEF IInv, OpsType
<1>2. PICK new : new = Len(ops) + 1
  OBVIOUS
<1>3. /\ Ids' = Ids \cup {new} /\ new \notin Ids /\ ops'[new] = op /\ new \in Nat
      /\ \A n \in Ids : ops'[n] = ops[n]
  BY <1>1, <1>2 DEF Ids
<1>4. SendersCurrent'
  <2>1. senders \subseteq Ids
    BY DEF IInv, Owned
  <2> QED BY <1>3, <2>1 DEF SInv, SendersCurrent, Current
<1>5. MarkedRemovals'
  <2>1. tasks \in Seq(Nat) /\ \A i \in DOMAIN tasks : tasks[i] \in Ids
    BY DEF IInv, SetsType
  <2>2. ASSUME NEW i \in DOMAIN tasks', ops'[tasks'[i]].kind = "unpublish"
        PROVE  ~ops'[tasks'[i]].removed
    <3>1. tasks'[i] = new \/ (i \in DOMAIN tasks /\ tasks'[i] = tasks[i])
      BY SMTT(30), <1>2, <1>3, <2>1
    <3>2. CASE tasks'[i] = new
      BY <1>3, <3>2
    <3>3. CASE i \in DOMAIN tasks /\ tasks'[i] = tasks[i]
      <4>1. ops'[tasks'[i]] = ops[tasks[i]]
        BY <1>3, <2>1, <3>3
      <4> QED BY <2>2, <3>3, <4>1 DEF SInv, MarkedRemovals
    <3> QED BY <3>1, <3>2, <3>3
  <2>3. ASSUME NEW m \in Ids', ops'[m].stage = "uncertain"
        PROVE  ops'[m].removed
    BY <1>3, <2>3 DEF SInv, MarkedRemovals, At
  <2> QED BY <2>2, <2>3 DEF MarkedRemovals, At
<1>6. InStep'
  BY <1>3, DebtsStay DEF SInv, Current, Owes, At
<1> QED BY <1>4, <1>5, <1>6 DEF SInv

LEMMA PublishTrackInStep ==
  ASSUME IInv, SInv, NEW kind \in {"publish", "republish"}, NEW t \in Tracks,
         PublishTrack(kind, t), UNCHANGED <<generation, answer, pcVars, negotiation, missed>>
  PROVE  SInv'
<1>1. PICK op : op = Operation(kind, t, Len(ops) + 1, IF link = "open" THEN "acking" ELSE "refused")
  OBVIOUS
<1>2. op \in OpRecords /\ ~op.removed /\ op.stage \in {"acking", "refused"}
  <2>1. generation \in Nat /\ Len(ops) + 1 \in Nat
    BY IdsAreNumbers DEF IInv, OpsType
  <2> QED BY <1>1, <2>1 DEF Operation, OpRecords, Kinds, Stages
<1>3. ops' = Append(ops, op)
  BY <1>1 DEF PublishTrack
<1> QED BY <1>2, <1>3, BeginsInStep DEF pcVars

LEMMA UnpublishInStep ==
  ASSUME IInv, SInv, NEW p \in published, Unpublish(p)
  PROVE  SInv'
<1>1. PICK op : op = Operation("unpublish", ops[p].track, p, "removing")
  OBVIOUS
<1>2. op \in OpRecords /\ ~op.removed /\ op.stage = "removing"
  <2>1. p \in Ids /\ ops[p] \in OpRecords /\ generation \in Nat
    BY DEF IInv, OpsType, PublishedDone, Ids
  <2>2. p \in Nat /\ ops[p].track \in Tracks
    BY <2>1, IdsAreNumbers DEF IInv, OpRecords
  <2> QED BY <1>1, <2>1, <2>2 DEF Operation, OpRecords, Kinds, Stages
<1>3. ops' = Append(ops, op) /\ tasks' = Append(tasks, Len(ops) + 1)
  BY <1>1 DEF Unpublish
<1> QED BY <1>2, <1>3, BeginsInStep DEF Unpublish, recoveryVars, linkVars, negotiationVars

LEMMA AcknowledgeInStep ==
  ASSUME IInv, SInv, NEW n \in Ids, Acknowledge(n)
  PROVE  SInv'
<1> DEFINE S == {m \in Ids : At(m, "acking") /\ ops[m].track = ops[n].track}
<1>1. Passed(S, "acked")
  BY SomePass DEF Acknowledge, Stages
<1>2. /\ \A m \in S : ~Owes(m) /\ m \notin senders
      /\ TasksKept
  <2>1. \A m \in S : ops[m].stage = "acking"
    BY DEF At
  <2>2. \A m \in S : ~Owes(m)
    BY <2>1 DEF Owes, At
  <2>3. \A m \in S : m \notin senders
    BY <2>1 DEF SInv, SendersCurrent, BeforeInstall
  <2> QED BY <2>2, <2>3, TasksStay DEF Acknowledge, pcVars
<1> HIDE DEF S
<1> QED BY <1>1, <1>2, QuietInStep
     DEF Acknowledge, recoveryVars, pcVars, negotiationVars

LEMMA PostInstallInStep ==
  ASSUME IInv, SInv, NEW n \in Ids, PostInstall(n)
  PROVE  SInv'
<1> USE DEF PostInstall, recoveryVars, linkVars, negotiationVars
<1>1. PICK st \in {"installing", "failing"} : Move(n, st)
  OBVIOUS
<1>2. ops[n].kind # "unpublish" /\ ~Owes(n)
  BY DEF IInv, RemovalsOfDone, PublishStages, At, Owes
<1>3. TasksKept
  BY <1>2, TasksStay, TaskIsPosted
<1>4. n \notin senders
  BY DEF SInv, SendersCurrent, BeforeInstall, At
<1> QED BY <1>1, <1>2, <1>3, <1>4, OneInStep DEF Stages

LEMMA InstallInStep ==
  ASSUME IInv, SInv, NEW n \in Ids, Install(n)
  PROVE  SInv'
<1> USE DEF Install, recoveryVars, linkVars, negotiationVars
<1>0. TasksKept
  BY TaskRuns
<1>1. CASE ~At(n, "installing")
  <2>1. Passed({}, "failing")
    BY <1>1, NonePass
  <2> QED BY <1>0, <1>1, <2>1, QuietInStep DEF BeforeInstall
<1>2. CASE At(n, "installing") /\ ~Current(n)
  <2>1. Move(n, "failing")
    BY <1>2
  <2> QED BY <1>0, <1>2, <2>1, OneInStep DEF Stages, BeforeInstall
<1>3. CASE At(n, "installing") /\ Current(n)
  <2>1. Passed({n}, "installed") /\ senders' = senders \cup {n}
    BY <1>3, SomePass DEF Move, Stages
  <2>2. MarkedRemovals'
    BY <1>0, <2>1, MarksStay DEF SInv
  <2>3. SendersCurrent'
    BY <1>3, <2>1 DEF SInv, SendersCurrent, BeforeInstall, Passed, Current, IInv, Owned
  <2>4. (Current(n) /\ Owes(n))' /\ n \in Ids'
    BY <1>3, <2>1 DEF Passed, Current, Owes, At
  <2> QED BY <2>2, <2>3, <2>4 DEF SInv, InStep
<1> QED BY <1>1, <1>2, <1>3

LEMMA NegotiateTrackInStep ==
  ASSUME IInv, SInv, NEW n \in Ids, NegotiateTrack(n)
  PROVE  SInv'
<1> USE DEF NegotiateTrack, recoveryVars, linkVars
<1>0. TasksKept
  BY TasksStay
<1>1. CASE Current(n)
  <2>1. Passed({n}, "negotiating") /\ Negotiate({n})
    BY <1>1, SomePass DEF Move, Stages
  <2>2. SendersCurrent' /\ MarkedRemovals'
    BY <1>0, <2>1, SendersStay, MarksStay DEF SInv, BeforeInstall
  <2> QED BY <2>1, <2>2, NegotiatedInStep DEF SInv
<1>2. CASE ~Current(n)
  BY <1>0, <1>2, OneInStep DEF Stages, BeforeInstall, negotiationVars
<1> QED BY <1>1, <1>2

LEMMA CommitPublishInStep ==
  ASSUME IInv, SInv, NEW n \in Ids, CommitPublish(n)
  PROVE  SInv'
<1> USE DEF CommitPublish, recoveryVars, linkVars, pcVars, negotiationVars
<1>0. TasksKept /\ ~Owes(n)
  BY TasksStay DEF Owes, At
<1>1. CASE Current(n)
  <2>1. Passed({n}, "done")
    BY <1>1, PublishPasses
  <2> QED BY <1>0, <2>1, QuietInStep DEF BeforeInstall
<1>2. CASE ~Current(n)
  <2>1. Move(n, "failing")
    BY <1>2
  <2> QED BY <1>0, <2>1, OneInStep DEF Stages, BeforeInstall
<1> QED BY <1>1, <1>2

LEMMA RollBackInStep ==
  ASSUME IInv, SInv, NEW n \in Ids, RollBack(n)
  PROVE  SInv'
<1> USE DEF RollBack, linkVars, bookVars
<1>0. TasksKept /\ Move(n, "failed") /\ ~Owes(n) /\ senders' = senders \ {n}
  BY TasksStay DEF Owes, At
<1>1. CASE At(n, "failing") /\ Current(n)
  <2>1. Passed({n}, "failed") /\ Negotiate({})
    BY <1>0, <1>1, SomePass DEF Move, Stages
  <2>2. SendersCurrent' /\ MarkedRemovals'
    BY <1>0, <2>1, SendersStay, MarksStay DEF SInv, BeforeInstall
  <2> QED BY <2>1, <2>2, NegotiatedInStep DEF SInv
<1>2. CASE ~(At(n, "failing") /\ Current(n))
  <2>1. n \notin senders
    BY <1>2 DEF SInv, SendersCurrent, BeforeInstall, At
  <2>2. senders' = senders
    BY <1>0, <2>1
  <2> QED BY <1>0, <1>2, <2>2, OneInStep DEF Stages, BeforeInstall, negotiationVars
<1> QED BY <1>1, <1>2

\* What a removal whose task runs can be, when its session is not gone.
LEMMA TaskOfRemoval ==
  ASSUME IInv, JInv, SInv, NEW m \in Ids, Removal(m), tasks # <<>>, m = Head(tasks)
  PROVE  ops[m].stage \in {"removing", "failing", "failed"} /\ ~ops[m].removed
<1>1. 1 \in DOMAIN tasks /\ tasks[1] = m
  BY DEF IInv, SetsType
<1>2. ~ops[m].removed
  BY <1>1 DEF SInv, MarkedRemovals, Removal
<1>3. ops[m].stage \notin PastOrDone
  BY <1>1 DEF JInv, RInv, NoTaskLeft
<1>4. ops[m].stage \in Stages
  <2>1. ops[m] \in OpRecords
    BY DEF IInv, OpsType, Ids
  <2> QED BY <2>1 DEF OpRecords
<1>5. ops[m].stage \notin PublishStages
  BY DEF IInv, RemovalsOfDone, Removal
<1> QED BY <1>2, <1>3, <1>4, <1>5
        DEF Stages, PastOrDone, Past, PublishStages, SInv, MarkedRemovals, At

LEMMA RemoveSendersInStep ==
  ASSUME IInv, JInv, SInv, NEW m \in Ids, RemoveSenders(m)
  PROVE  SInv'
<1> DEFINE own == {n \in senders : Current(m) /\ ops[n].track = ops[m].track}
           st == IF own = {} THEN "failing" ELSE "removed"
<1>1. /\ tasks # <<>> /\ m = Head(tasks) /\ ops[m].kind = "unpublish"
      /\ tasks' = Tail(tasks) /\ senders' = senders \ own
      /\ IF At(m, "removing") THEN Move(m, st) ELSE UNCHANGED ops
      /\ UNCHANGED <<generation, answered, signaling, creating, offer, answer, negotiation,
                     missed>>
  BY DEF RemoveSenders, recoveryVars, linkVars, bookVars, negotiationVars
<1>2. own # {} => Current(m)
  OBVIOUS
<1>3. st \in Stages /\ st \in {"failing", "removed"} /\ (own # {} => st = "removed")
  BY DEF Stages
<1> HIDE DEF own, st
<1>4. TasksKept
  BY <1>1, TaskRuns
<1>5. PICK S : /\ Passed(S, st) /\ S = IF At(m, "removing") THEN {m} ELSE {}
  <2>1. CASE At(m, "removing")
    BY <1>1, <1>3, <2>1, SomePass DEF Move
  <2>2. CASE ~At(m, "removing")
    BY <1>1, <2>2 DEF Passed, Ids
  <2> QED BY <2>1, <2>2
<1>6. SendersCurrent' /\ MarkedRemovals'
  BY <1>1, <1>3, <1>4, <1>5, SendersStay, MarksStay DEF SInv, BeforeInstall
<1>7. InStep'
  <2>1. CASE own = {}
    <3>1. \A n \in Ids : Current(n) /\ Owes(n) => (Current(n) /\ Owes(n))'
      BY <1>1, <1>5 DEF Passed, Current, Owes, At
    <3>2. senders' = senders /\ Ids' = Ids
      BY <1>1, <1>5, <2>1 DEF Passed
    <3> QED BY <1>1, <3>1, <3>2, DebtsStay DEF SInv
  <2>2. CASE own # {}
    <3>1. Current(m)' /\ m \in Ids'
      BY <1>1, <1>2, <1>5, <2>2 DEF Passed, Current
    <3>2. ops[m].stage \in {"removing", "failing", "failed"} /\ ~ops[m].removed
      BY <1>1, <1>2, <2>2, TaskOfRemoval DEF Removal
    <3>3. Owes(m)'
      BY <1>1, <1>3, <1>5, <2>2, <3>2 DEF Passed, Owes, At
    <3> QED BY <3>1, <3>3 DEF InStep
  <2> QED BY <2>1, <2>2
<1> QED BY <1>6, <1>7 DEF SInv

LEMMA NegotiateRemovalInStep ==
  ASSUME IInv, JInv, SInv, NEW m \in Ids, NegotiateRemoval(m)
  PROVE  SInv'
<1> USE DEF NegotiateRemoval, recoveryVars, linkVars, bookVars
<1>1. CASE Current(m)
  <2>1. /\ Ids' = Ids /\ \A k \in Ids : k # m => ops'[k] = ops[k]
        /\ ops'[m].kind = ops[m].kind /\ ops'[m].gen = ops[m].gen
        /\ ops'[m].stage = "negotiating" /\ ops'[m].removed
    BY <1>1, RemovalMarked
  <2>2. Negotiate({m}) /\ UNCHANGED <<generation, tasks, senders>>
    BY <1>1
  <2>3. SendersCurrent'
    BY <2>1, <2>2 DEF SInv, SendersCurrent, Current, BeforeInstall, IInv, Owned
  <2>4. \A i \in DOMAIN tasks : tasks[i] \in Ids /\ tasks[i] # m
    <3>1. Removal(m) /\ ops[m].stage \in PastOrDone
      BY <1>1 DEF JInv, RInv, RemovalStages, Removal, At, PastOrDone, Past
    <3>2. \A i \in DOMAIN tasks : tasks[i] \in Ids
      BY DEF IInv, SetsType
    <3>3. \A i \in DOMAIN tasks : tasks[i] # m
      BY <3>1 DEF JInv, RInv, NoTaskLeft
    <3> QED BY <3>2, <3>3
  <2>5. MarkedRemovals'
    BY <2>1, <2>2, <2>4 DEF SInv, MarkedRemovals, At
  <2> QED BY <2>2, <2>3, <2>5, NegotiatedInStep DEF SInv
<1>2. CASE ~Current(m)
  BY <1>2, TasksStay, OneInStep DEF Stages, BeforeInstall, negotiationVars
<1> QED BY <1>1, <1>2

LEMMA CommitUnpublishInStep ==
  ASSUME IInv, SInv, NEW m \in Ids, CommitUnpublish(m)
  PROVE  SInv'
<1> USE DEF CommitUnpublish, recoveryVars, linkVars, pcVars, negotiationVars
<1>1. PICK st \in {"done", "failing"} : Move(m, st)
  OBVIOUS
<1>2. ~Owes(m) /\ TasksKept
  BY TasksStay DEF Owes, At
<1> QED BY <1>1, <1>2, OneInStep DEF Stages, BeforeInstall

\* A removal that gives up goes on owing what its task may yet change.
LEMMA UnpublishFailsInStep ==
  ASSUME IInv, SInv, NEW m \in Ids, UnpublishFails(m)
  PROVE  SInv'
<1> USE DEF UnpublishFails, recoveryVars, linkVars, pcVars, negotiationVars
<1>1. PICK st \in {"uncertain", "failed"} :
        Move(m, st) /\ (st = "uncertain" <=> ops[m].of \in unpublishing /\ ops[m].removed)
  OBVIOUS
<1>2. Passed({m}, st) /\ TasksKept
  BY <1>1, SomePass, TasksStay DEF Move, Stages
<1>3. SendersCurrent' /\ MarkedRemovals'
  BY <1>1, <1>2, SendersStay, MarksStay DEF SInv, BeforeInstall
<1>4. \A n \in Ids : Current(n) /\ Owes(n) => (Current(n) /\ Owes(n))'
  BY <1>1, <1>2 DEF Passed, Current, Owes, At
<1>5. InStep'
  BY <1>2, <1>4, DebtsStay DEF SInv, Passed
<1> QED BY <1>3, <1>5 DEF SInv

LEMMA TimeoutInStep ==
  ASSUME IInv, SInv, NEW n \in Ids, Timeout(n)
  PROVE  SInv'
<1> USE DEF Timeout, recoveryVars, linkVars, bookVars, pcVars
<1>1. PICK st \in {"refused", "failing"} : Move(n, st) /\ (st = "refused" => At(n, "acking"))
  OBVIOUS
<1>2. ~Owes(n) /\ TasksKept
  BY TasksStay DEF Owes, At
<1>3. st = "refused" => n \notin senders
  BY <1>1 DEF SInv, SendersCurrent, BeforeInstall, At
<1> QED BY <1>1, <1>2, <1>3, OneInStep DEF Stages, BeforeInstall

\* What a teardown leaves of the transactions.
LEMMA TearDownPasses ==
  ASSUME IInv, TearDown
  PROVE  /\ Ids' = Ids
         /\ \A n \in Ids :
              /\ ops'[n].kind = ops[n].kind /\ ops'[n].track = ops[n].track
              /\ ops'[n].of = ops[n].of /\ ops'[n].gen = ops[n].gen
              /\ ops'[n].removed = ops[n].removed /\ ops'[n].calm = ops[n].calm
              /\ \/ ops'[n].stage = ops[n].stage
                 \/ ops[n].stage \in {"negotiating", "acking"} /\ ops'[n].stage \in {"failing", "refused"}
         /\ generation' = generation + 1 /\ generation \in Nat
         /\ \A n \in Ids : ~(Current(n)')
<1>1. Ids' = Ids /\ generation' = generation + 1 /\ generation \in Nat
  BY DEF TearDown, Ids, IInv, OpsType
<1>2. ASSUME NEW n \in Ids
      PROVE  /\ ops'[n].kind = ops[n].kind /\ ops'[n].track = ops[n].track
             /\ ops'[n].of = ops[n].of /\ ops'[n].gen = ops[n].gen
             /\ ops'[n].removed = ops[n].removed /\ ops'[n].calm = ops[n].calm
             /\ \/ ops'[n].stage = ops[n].stage
                \/ ops[n].stage \in {"negotiating", "acking"} /\ ops'[n].stage \in {"failing", "refused"}
  <2>1. ops[n] \in OpRecords
    BY DEF IInv, OpsType, Ids
  <2>2. ops'[n] = CASE n \in waiters -> [ops[n] EXCEPT !.stage = "failing"]
                    [] At(n, "acking") -> [ops[n] EXCEPT !.stage = "refused"]
                    [] OTHER -> ops[n]
    BY DEF TearDown
  <2>3. n \in waiters => ops[n].stage = "negotiating"
    BY IdsAreNumbers DEF IInv, WaitersWait, At
  <2> QED BY <2>1, <2>2, <2>3 DEF OpRecords, At
<1>3. ASSUME NEW n \in Ids, ops'[n].gen = generation'
      PROVE  FALSE
  <2>1. ops[n] \in OpRecords /\ ops[n].gen <= generation
    BY DEF IInv, OpsType, Ids
  <2>2. ops[n].gen \in Nat
    BY <2>1 DEF OpRecords
  <2> QED BY <1>1, <1>2, <1>3, <2>1, <2>2
<1> QED BY <1>1, <1>2, <1>3 DEF Current

LEMMA TearDownInStep ==
  ASSUME IInv, SInv, TearDown, UNCHANGED tasks
  PROVE  SInv'
<1>1. /\ Ids' = Ids
      /\ \A n \in Ids :
           /\ ops'[n].kind = ops[n].kind /\ ops'[n].removed = ops[n].removed
           /\ ops'[n].stage = "uncertain" => ops[n].stage = "uncertain"
  BY TearDownPasses
<1>2. senders' = {} /\ answered' = {} /\ offer' = None /\ answer' = None
  BY DEF TearDown
<1>3. \A i \in DOMAIN tasks : tasks[i] \in Ids
  BY DEF IInv, SetsType
<1>4. MarkedRemovals'
  BY <1>1, <1>3 DEF SInv, MarkedRemovals, At
<1> QED BY <1>2, <1>4 DEF SInv, SendersCurrent, InStep, View, Unaware

LEMMA RecoveryInStep ==
  ASSUME IInv, JInv, SInv, Recovery \/ BreakLink \/ RestartFails
  PROVE  SInv'
<1> USE DEF recoveryVars, linkVars, bookVars, pcVars, negotiationVars
<1>1. CASE BreakLink
  <2>1. answer' = answer \/ (signaling' = "offer" /\ answer' = None)
    BY <1>1 DEF BreakLink, IInv, OneOffer
  <2>2. SendersCurrent' /\ MarkedRemovals'
    BY <1>1, StillOwned DEF BreakLink
  <2> QED BY <1>1, <2>1, <2>2, StillInStep DEF BreakLink, SInv, InStep
<1>2. CASE NoticeClose
  BY <1>2, StillInStep DEF NoticeClose
<1>3. CASE StartReconnect
  BY <1>3, StillInStep DEF StartReconnect
<1>4. CASE BeginAttempt
  BY <1>4, StillInStep DEF BeginAttempt
<1>5. CASE ResumeStream
  BY <1>5, StillOwned, NegotiatedInStep DEF ResumeStream, SInv
<1>6. CASE ResumeFails
  BY <1>6, StillInStep DEF ResumeFails
<1>7. CASE CommitResume
  BY <1>7, StillInStep DEF CommitResume
<1>8. CASE Restart
  BY <1>8, TearDownInStep DEF Restart
<1>9. CASE GiveUp
  BY <1>9, TearDownInStep DEF GiveUp
<1>10. CASE Rejoin
  BY <1>10, StillInStep DEF Rejoin
<1>11. CASE RestartFails
  BY <1>11, StillInStep DEF RestartFails, AttemptFails
<1>12. CASE CommitRestart
  BY <1>12, StillInStep DEF CommitRestart
<1>13. CASE \E t \in Tracks : Republish(t)
  <2>1. PICK t \in Tracks : Republish(t)
    BY <1>13
  <2>2. CASE room = "Connected"
    BY <2>1, <2>2, PublishTrackInStep DEF Republish
  <2>3. CASE room # "Connected"
    BY <2>1, <2>3, StillInStep DEF Republish
  <2> QED BY <2>2, <2>3
<1> QED
  BY <1>1, <1>2, <1>3, <1>4, <1>5, <1>6, <1>7, <1>8, <1>9, <1>10, <1>11, <1>12, <1>13
     DEF Recovery

LEMMA InitInStep ==
  ASSUME Init
  PROVE  SInv
<1>1. Ids = {} /\ senders = {} /\ DOMAIN tasks = {} /\ answered = {}
      /\ offer = None /\ answer = None
  BY DEF Init, Ids
<1> QED BY <1>1 DEF SInv, SendersCurrent, MarkedRemovals, InStep, View, Unaware

LEMMA StepInStep ==
  ASSUME IInv, JInv, SInv, [Next]_vars
  PROVE  SInv'
<1>1. CASE \E t \in Tracks : Publish(t)
  BY <1>1, PublishTrackInStep DEF Publish, recoveryVars, negotiationVars
<1>2. CASE \E p \in published : Unpublish(p)
  BY <1>2, UnpublishInStep
<1>3. CASE \E n \in Ids : Timeout(n)
  BY <1>3, TimeoutInStep
<1>4. CASE \E n \in Ids : Transaction(n)
  <2>1. PICK n \in Ids : Transaction(n)
    BY <1>4
  <2> QED
    BY <2>1, AcknowledgeInStep, PostInstallInStep, InstallInStep, NegotiateTrackInStep,
       CommitPublishInStep, RollBackInStep, RemoveSendersInStep, NegotiateRemovalInStep,
       CommitUnpublishInStep, UnpublishFailsInStep DEF Transaction
<1>5. CASE Negotiation
  BY <1>5, CreateOfferInStep, SendOfferInStep, ApplyAnswerInStep, RetryTimerInStep
     DEF Negotiation
<1>6. CASE OfferFails \/ SetLocalFails \/ RefuseAnswer
  BY <1>6, OfferFailsInStep, RefuseAnswerInStep
<1>7. CASE Recovery \/ BreakLink \/ RestartFails
  BY <1>7, RecoveryInStep
<1>8. CASE UNCHANGED vars
  BY <1>8, StillInStep
     DEF vars, recoveryVars, linkVars, bookVars, pcVars, negotiationVars
<1> QED
  BY <1>1, <1>2, <1>3, <1>4, <1>5, <1>6, <1>7, <1>8 DEF Next

\* Whatever the server has not been told of the senders will be told, but for
\* what an offer that failed left it without and for a removal that gave up
\* before the signaling thread carried it out.
THEOREM SendersInvariant == Spec => [](IInv /\ JInv /\ SInv)
<1>1. Init => SInv
  BY InitInStep
<1>2. (IInv /\ JInv) /\ SInv /\ [Next]_vars => SInv'
  BY StepInStep
<1> QED BY <1>1, <1>2, BothHold, PTL DEF Spec

\* When nothing is under way the server has exactly the senders of the
\* connection, whichever transactions failed, timed out or were rolled back,
\* but for what an offer that failed left it without (the negotiation after a
\* rollback, PendingRetry, OnNegotiationFailed).
THEOREM ServerIsReconciled == Spec => []ServerReconciled
<1>1. IInv /\ SInv => ServerReconciled
  <2> SUFFICES ASSUME IInv, SInv, negotiation = "Idle", signaling = "stable",
                      \A n \in Ids : Ended(n), ~(Differing \subseteq missed)
               PROVE  \E m \in Ids : ops[m].kind = "unpublish" /\ At(m, "failed") /\ Current(m)
    BY DEF ServerReconciled
  <2>1. ~creating /\ offer = None /\ answer = None
    BY DEF IInv, OneOffer
  <2>2. Unaware = Differing
    BY <2>1 DEF View, Unaware, Differing
  <2>3. PICK n \in Ids : Current(n) /\ Owes(n)
    BY <2>1, <2>2 DEF SInv, InStep
  <2>4. Ended(n)
    OBVIOUS
  <2> QED BY <2>3, <2>4 DEF Owes, At, Ended
<1> QED BY <1>1, SendersInvariant, PTL

-----------------------------------------------------------------------------
(* The invariant: the past of a track.                                     *)

\* Transactions are in the order of their sessions, a removal comes after its
\* publication, and whoever begins finds the others of its track ended: a
\* publication all of them, a removal those of its session.
InOrder ==
  /\ \A n1, n2 \in Ids : n1 < n2 => ops[n1].gen <= ops[n2].gen
  /\ \A m \in Ids : ops[m].kind = "unpublish" => ops[m].of < m
  /\ \A n, q \in Ids : q < n /\ ops[q].track = ops[n].track =>
       /\ ops[n].kind = "publish" => Ended(q) /\ q \notin published
       /\ (ops[n].kind = "unpublish" /\ ops[q].kind # "unpublish"
           /\ ops[q].gen = ops[n].gen) => Ended(q)

\* The intent of a removal is held until it has succeeded or failed.
RemovalsHeld ==
  /\ \A m1, m2 \in Ids : (/\ Removal(m1) /\ Removal(m2) /\ ops[m1].of = ops[m2].of
                          /\ ~At(m1, "failed") /\ ~At(m2, "failed")) => m1 = m2
  /\ \A m \in Ids : Removal(m) =>
       /\ At(m, "uncertain") => ops[m].of \in unpublishing
       /\ ops[m].removed => ~At(m, "failed")
  /\ \A p \in unpublishing : Current(p) /\ \E m \in Ids : Removal(m) /\ ops[m].of = p

LiveRepublish(n) == ops[n].kind = "republish" /\ ~Ended(n)

\* Where the recovery is, what it waits for and what it publishes agree.
RecoveryOwns ==
  /\ driver # "idle" => active
  /\ Resume \in waiters => driver = "resuming"
  /\ \A n \in Ids : LiveRepublish(n) => driver = "republishing" /\ Current(n)
  /\ \A n1, n2 \in Ids : LiveRepublish(n1) /\ LiveRepublish(n2) => n1 = n2
  /\ driver \in {"connecting stream", "resuming", "resumed"} => ~full
  /\ active /\ driver \in {"idle", "connecting", "republishing"} => full

\* A removal, begun outside of a recovery, that has taken the sender away or
\* may still do so.
Standing(m) ==
  /\ ops[m].kind = "unpublish" /\ ops[m].calm
  /\ ops[m].removed \/ (Current(m) /\ ~Ended(m))

PublishedAgain(m, n) ==
  \E k \in Ids : m < k /\ k < n /\ ops[k].kind = "publish" /\ ops[k].track = ops[m].track
PublishedAfter(m) ==
  \E k \in Ids : m < k /\ ops[k].kind = "publish" /\ ops[k].track = ops[m].track

\* Until the application publishes its track again, the recovery has no record
\* of it and the room no publication but the one that was removed.
KeptAway(m) ==
  /\ active => ops[m].track \notin records
  /\ driver = "republishing" => ops[m].track \notin queue
  /\ \A q \in published : ops[q].track = ops[m].track => q = ops[m].of
RemovedStays ==
  \A m \in Ids : Standing(m) =>
    /\ \A n \in Ids : (m < n /\ ops[n].kind = "republish" /\ ops[n].track = ops[m].track)
         => PublishedAgain(m, n)
    /\ PublishedAfter(m) \/ KeptAway(m)

Unpublished(n) ==
  \E m \in Ids : n < m /\ ops[m].kind = "unpublish" /\ ops[m].track = ops[n].track

\* The track has a publication, a record or its turn, whichever the phase of
\* the recovery counts on.
Published(t) == \E q \in published : ops[q].track = t
Listed == (~active /\ room # "Disconnected") \/ (active /\ ~full)
Survives(t) ==
  /\ active => t \in records
  /\ Listed => Published(t)
  /\ driver = "republishing" =>
       t \in queue \/ Published(t) \/ \E q \in Ids : LiveRepublish(q) /\ ops[q].track = t
PublishedSurvive ==
  \A n \in Ids : (ops[n].kind = "publish" /\ At(n, "done") /\ ops[n].calm)
                  => Unpublished(n) \/ Survives(ops[n].track)

HInv == InOrder /\ RemovalsHeld /\ RecoveryOwns /\ RemovedStays /\ PublishedSurvive

-----------------------------------------------------------------------------
(* The past of a track: what most steps do.                                *)

\* No transaction begins, and those that have ended stay as they are.
Continues ==
  /\ Ids' = Ids
  /\ \A n \in Ids :
       /\ ops'[n].kind = ops[n].kind /\ ops'[n].track = ops[n].track
       /\ ops'[n].of = ops[n].of /\ ops'[n].gen = ops[n].gen
       /\ ops[n].kind = "unpublish" => ops'[n].calm = ops[n].calm
       /\ Ended(n) => /\ ops'[n].stage = ops[n].stage /\ ops'[n].calm = ops[n].calm
                      /\ ops'[n].removed = ops[n].removed
       /\ ops'[n].removed => ops[n].removed \/ (Current(n) /\ ~Ended(n))
       /\ Current(n)' => Current(n)

LEMMA PassedContinues ==
  ASSUME NEW S, NEW st, Passed(S, st), UNCHANGED generation, \A n \in S \cap Ids : ~Ended(n)
  PROVE  Continues
BY DEF Passed, Continues, Current

LEMMA StillContinues ==
  ASSUME UNCHANGED <<ops, generation>>
  PROVE  Continues
BY DEF Continues, Ids, Current

LEMMA TearDownContinues ==
  ASSUME IInv, TearDown
  PROVE  Continues
<1>1. /\ Ids' = Ids
      /\ \A n \in Ids :
           /\ ops'[n].kind = ops[n].kind /\ ops'[n].track = ops[n].track
           /\ ops'[n].of = ops[n].of /\ ops'[n].gen = ops[n].gen
           /\ ops'[n].removed = ops[n].removed /\ ops'[n].calm = ops[n].calm
           /\ \/ ops'[n].stage = ops[n].stage
              \/ ops[n].stage \in {"negotiating", "acking"}
      /\ \A n \in Ids : ~(Current(n)')
  BY TearDownPasses
<1> QED BY <1>1 DEF Continues, Ended, At

LEMMA EndedStay ==
  ASSUME Continues, NEW n \in Ids
  PROVE  Ended(n) => Ended(n)'
BY DEF Continues, Ended, At

LEMMA OrderContinues ==
  ASSUME InOrder, Continues, \A p \in published' \ published : p \in Ids /\ ~Ended(p)
  PROVE  InOrder'
<1>1. \A n1, n2 \in Ids' : n1 < n2 => ops'[n1].gen <= ops'[n2].gen
  BY DEF InOrder, Continues
<1>2. \A m \in Ids' : ops'[m].kind = "unpublish" => ops'[m].of < m
  BY DEF InOrder, Continues
<1>3. ASSUME NEW n \in Ids', NEW q \in Ids', q < n, ops'[q].track = ops'[n].track
      PROVE  /\ ops'[n].kind = "publish" => Ended(q)' /\ q \notin published'
             /\ (ops'[n].kind = "unpublish" /\ ops'[q].kind # "unpublish"
                 /\ ops'[q].gen = ops'[n].gen) => Ended(q)'
  <2>1. /\ n \in Ids /\ q \in Ids /\ ops[q].track = ops[n].track
        /\ ops'[n].kind = ops[n].kind /\ ops'[q].kind = ops[q].kind
        /\ ops'[n].gen = ops[n].gen /\ ops'[q].gen = ops[q].gen
    BY <1>3 DEF Continues
  <2>2. /\ ops[n].kind = "publish" => Ended(q) /\ q \notin published
        /\ (ops[n].kind = "unpublish" /\ ops[q].kind # "unpublish"
            /\ ops[q].gen = ops[n].gen) => Ended(q)
    BY <1>3, <2>1 DEF InOrder
  <2> QED BY <2>1, <2>2, EndedStay
<1> QED BY <1>1, <1>2, <1>3 DEF InOrder

LEMMA HeldContinues ==
  ASSUME IInv, RemovalsHeld, Continues, UNCHANGED <<generation, unpublishing>>,
         \A m \in Ids : ops[m].kind = "unpublish" /\ ~Ended(m)
           => ops'[m].stage \notin {"uncertain", "failed"}
  PROVE  RemovalsHeld'
<1>1. \A m \in Ids : (Removal(m)' <=> Removal(m)) /\ ops'[m].of = ops[m].of
  BY DEF Continues, Removal, Current
<1>2. ASSUME NEW m \in Ids, Removal(m)
      PROVE  /\ ops'[m].stage = "failed" <=> ops[m].stage = "failed"
             /\ ops'[m].stage = "uncertain" => ops[m].stage = "uncertain"
             /\ ops'[m].stage = "failed" => ops'[m].removed = ops[m].removed
  BY <1>2 DEF Removal, Continues, Ended, At
<1>3. \A m1, m2 \in Ids' : (/\ Removal(m1)' /\ Removal(m2)' /\ ops'[m1].of = ops'[m2].of
                            /\ ~(At(m1, "failed")') /\ ~(At(m2, "failed")')) => m1 = m2
  BY <1>1, <1>2 DEF RemovalsHeld, Continues, At
<1>4. ASSUME NEW m \in Ids', Removal(m)'
      PROVE  /\ At(m, "uncertain")' => ops'[m].of \in unpublishing'
             /\ ops'[m].removed => ~(At(m, "failed")')
  <2>1. m \in Ids /\ Removal(m) /\ ops'[m].of = ops[m].of
    BY <1>1, <1>4 DEF Continues
  <2> QED BY <1>2, <2>1 DEF RemovalsHeld, At
<1>5. ASSUME NEW p \in unpublishing'
      PROVE  Current(p)' /\ \E m \in Ids' : Removal(m)' /\ ops'[m].of = p
  <2>1. p \in Ids /\ Current(p) /\ \E m \in Ids : Removal(m) /\ ops[m].of = p
    BY DEF RemovalsHeld, IInv, SetsType
  <2> QED BY <1>1, <2>1 DEF Continues, Current
<1> QED BY <1>3, <1>4, <1>5 DEF RemovalsHeld

\* A removal that stands stood before, and what was published after it is.
LEMMA StandingBefore ==
  ASSUME Continues, NEW m \in Ids, Standing(m)'
  PROVE  Standing(m)
BY EndedStay DEF Continues, Standing

LEMMA PublishedStays ==
  ASSUME Continues, NEW m \in Ids, PublishedAfter(m)
  PROVE  PublishedAfter(m)'
BY DEF Continues, PublishedAfter

LEMMA RemovedContinues ==
  ASSUME RemovedStays, Continues,
         \A m \in Ids : Standing(m) /\ KeptAway(m) => (PublishedAfter(m) \/ KeptAway(m)')
  PROVE  RemovedStays'
<1> SUFFICES ASSUME NEW m \in Ids', Standing(m)'
             PROVE  /\ \A n \in Ids' : (m < n /\ ops'[n].kind = "republish"
                                         /\ ops'[n].track = ops'[m].track)
                          => PublishedAgain(m, n)'
                    /\ PublishedAfter(m)' \/ KeptAway(m)'
  BY DEF RemovedStays
<1>1. m \in Ids /\ Standing(m)
  BY StandingBefore DEF Continues
<1>2. ASSUME NEW n \in Ids', m < n, ops'[n].kind = "republish", ops'[n].track = ops'[m].track
      PROVE  PublishedAgain(m, n)'
  <2>1. PublishedAgain(m, n)
    BY <1>1, <1>2 DEF RemovedStays, Continues
  <2> QED BY <1>1, <2>1 DEF PublishedAgain, Continues
<1>3. PublishedAfter(m)' \/ KeptAway(m)'
  BY <1>1, PublishedStays DEF RemovedStays
<1> QED BY <1>2, <1>3

\* The usual way to stay away: nothing is recorded, queued or published.
LEMMA AwayContinues ==
  ASSUME IInv, Continues, NEW m \in Ids, KeptAway(m),
         active' => active /\ records' \subseteq records,
         driver' = "republishing" => driver = "republishing" /\ queue' \subseteq queue,
         published' \subseteq published
  PROVE  KeptAway(m)'
<1>1. published \subseteq Ids
  BY DEF IInv, PublishedDone
<1> QED BY <1>1 DEF KeptAway, Continues

LEMMA SurviveContinues ==
  ASSUME PublishedSurvive, Continues,
         \A n \in Ids : (/\ ops[n].kind = "publish" /\ ~Ended(n)
                         /\ ops'[n].stage = "done" /\ ops'[n].calm) => Survives(ops[n].track)',
         \A n \in Ids : (ops[n].kind = "publish" /\ At(n, "done") /\ Survives(ops[n].track))
           => Unpublished(n) \/ Survives(ops[n].track)'
  PROVE  PublishedSurvive'
<1> SUFFICES ASSUME NEW n \in Ids', ops'[n].kind = "publish", At(n, "done")', ops'[n].calm
             PROVE  Unpublished(n)' \/ Survives(ops[n].track)'
  BY DEF PublishedSurvive
<1>1. /\ n \in Ids /\ ops[n].kind = "publish" /\ ops'[n].track = ops[n].track
      /\ Unpublished(n) => Unpublished(n)'
  BY DEF Continues, Unpublished
<1>2. CASE ~Ended(n)
  <2>1. ops'[n].stage = "done"
    BY DEF At
  <2> QED BY <1>1, <1>2, <2>1
<1>3. CASE Ended(n)
  <2>1. At(n, "done") /\ ops[n].calm
    BY <1>1, <1>3 DEF Continues, At
  <2>2. Unpublished(n) \/ Survives(ops[n].track)
    BY <1>1, <2>1 DEF PublishedSurvive
  <2>3. Unpublished(n) \/ Survives(ops[n].track)'
    BY <1>1, <2>1, <2>2
  <2> QED BY <1>1, <2>3
<1> QED BY <1>2, <1>3

\* The usual way to survive.
LEMMA SurvivesOn ==
  ASSUME IInv, Ids \subseteq Ids', \A n \in Ids : ops'[n].track = ops[n].track, NEW t, Survives(t),
         active' => active /\ records \subseteq records',
         Listed' => Listed /\ published \subseteq published',
         driver' = "republishing" =>
           /\ driver = "republishing" /\ queue \subseteq queue' /\ published \subseteq published'
           /\ \A q \in Ids : LiveRepublish(q) => LiveRepublish(q)' \/ q \in published'
  PROVE  Survives(t)'
<1>1. published \subseteq Ids
  BY DEF IInv, PublishedDone
<1>2. published \subseteq published' /\ Published(t) => Published(t)'
  BY <1>1 DEF Published
<1>3. (active' => t \in records') /\ (Listed' => Published(t)')
  BY <1>2 DEF Survives
<1>4. ASSUME driver' = "republishing"
      PROVE  t \in queue' \/ Published(t)' \/ \E q \in Ids' : LiveRepublish(q)' /\ ops'[q].track = t
  BY <1>1, <1>2, <1>4 DEF Survives, Published
<1> QED BY <1>3, <1>4 DEF Survives

-----------------------------------------------------------------------------
(* The past of a track: transactions.                                      *)

LEMMA OwnsContinues ==
  ASSUME RecoveryOwns, Continues, UNCHANGED <<generation, active, full>>,
         Resume \in waiters' => Resume \in waiters,
         \/ driver' = driver
         \/ driver = "resuming" /\ driver' \in {"resumed", "restarting"} /\ Resume \notin waiters'
  PROVE  RecoveryOwns'
<1>1. ASSUME NEW n \in Ids', LiveRepublish(n)'
      PROVE  n \in Ids /\ LiveRepublish(n) /\ (Current(n) => Current(n)')
  BY <1>1, EndedStay DEF Continues, LiveRepublish, Current
<1>2. \A n \in Ids' : LiveRepublish(n)' => driver' = "republishing" /\ Current(n)'
  BY <1>1 DEF RecoveryOwns
<1>3. \A n1, n2 \in Ids' : LiveRepublish(n1)' /\ LiveRepublish(n2)' => n1 = n2
  BY <1>1 DEF RecoveryOwns
<1>4. /\ driver' # "idle" => active'
      /\ Resume \in waiters' => driver' = "resuming"
      /\ driver' \in {"connecting stream", "resuming", "resumed"} => ~full'
      /\ active' /\ driver' \in {"idle", "connecting", "republishing"} => full'
  BY DEF RecoveryOwns
<1> QED BY <1>2, <1>3, <1>4 DEF RecoveryOwns

\* Nothing is committed, and the recovery at most stops to wait.
LEMMA QuietButRemovals ==
  ASSUME IInv, HInv, Continues, RemovalsHeld',
         UNCHANGED <<generation, active, full, published, records, queue>>,
         \A n \in Ids : ops[n].kind = "publish" /\ ~Ended(n) => ops'[n].stage # "done",
         \A q \in Ids : LiveRepublish(q) => LiveRepublish(q)',
         room = "Disconnected" => room' = "Disconnected",
         Resume \in waiters' => Resume \in waiters,
         \/ driver' = driver
         \/ driver = "resuming" /\ driver' \in {"resumed", "restarting"} /\ Resume \notin waiters'
  PROVE  HInv'
<1>1. InOrder' /\ RecoveryOwns'
  BY OrderContinues, OwnsContinues DEF HInv
<1>2. RemovedStays'
  BY AwayContinues, RemovedContinues DEF HInv
<1>3. ASSUME NEW n \in Ids, Survives(ops[n].track)
      PROVE  Survives(ops[n].track)'
  <2>1. PICK t : t = ops[n].track
    OBVIOUS
  <2>2. Ids \subseteq Ids' /\ \A k \in Ids : ops'[k].track = ops[k].track
    BY DEF Continues
  <2>3. Listed' => Listed
    BY DEF Listed
  <2>4. Survives(t)
    BY <1>3, <2>1
  <2>5. driver' = "republishing" => driver = "republishing"
    OBVIOUS
  <2>6. Survives(t)'
    BY <2>2, <2>3, <2>4, <2>5, SurvivesOn
  <2> QED BY <2>1, <2>2, <2>6
<1>4. PublishedSurvive'
  BY <1>3, SurviveContinues DEF HInv
<1> QED BY <1>1, <1>2, <1>4 DEF HInv

LEMMA QuietHistory ==
  ASSUME IInv, HInv, Continues,
         UNCHANGED <<generation, active, full, published, unpublishing, records, queue>>,
         \A m \in Ids : ops[m].kind = "unpublish" /\ ~Ended(m)
           => ops'[m].stage \notin {"uncertain", "failed"},
         \A n \in Ids : ops[n].kind = "publish" /\ ~Ended(n) => ops'[n].stage # "done",
         \A q \in Ids : LiveRepublish(q) => LiveRepublish(q)',
         room = "Disconnected" => room' = "Disconnected",
         Resume \in waiters' => Resume \in waiters,
         \/ driver' = driver
         \/ driver = "resuming" /\ driver' \in {"resumed", "restarting"} /\ Resume \notin waiters'
  PROVE  HInv'
BY HeldContinues, QuietButRemovals DEF HInv

\* No transaction is changed at all.
LEMMA StillHistory ==
  ASSUME IInv, HInv,
         UNCHANGED <<ops, generation, active, full, driver, published, unpublishing, records, queue>>,
         room = "Disconnected" => room' = "Disconnected",
         Resume \in waiters' => Resume \in waiters
  PROVE  HInv'
<1>1. Continues
  BY StillContinues
<1>2. /\ \A m \in Ids : ~Ended(m) => ops'[m].stage \notin {"uncertain", "failed", "done"}
      /\ \A q \in Ids : LiveRepublish(q) => LiveRepublish(q)'
  BY DEF Ended, At, LiveRepublish
<1> QED BY <1>1, <1>2, QuietHistory

\* Some transactions go on.
LEMMA PassedHistory ==
  ASSUME IInv, HInv, NEW S, NEW st, st \notin {"done", "uncertain", "failed"}, Passed(S, st),
         \A n \in S \cap Ids : ~Ended(n),
         UNCHANGED <<generation, active, full, published, unpublishing, records, queue>>,
         room = "Disconnected" => room' = "Disconnected",
         Resume \in waiters' => Resume \in waiters,
         \/ driver' = driver
         \/ driver = "resuming" /\ driver' \in {"resumed", "restarting"} /\ Resume \notin waiters'
  PROVE  HInv'
<1>1. Continues
  BY PassedContinues
<1>2. \A n \in Ids : ~Ended(n) => ~(Ended(n)')
  BY DEF Passed, Ended, At
<1>3. /\ \A m \in Ids : ~Ended(m) => ops'[m].stage \notin {"uncertain", "failed", "done"}
      /\ \A q \in Ids : LiveRepublish(q) => LiveRepublish(q)'
  BY <1>1, <1>2 DEF Ended, At, LiveRepublish, Continues
<1> QED BY <1>1, <1>3, QuietHistory

\* One does.
LEMMA OneHistory ==
  ASSUME IInv, HInv, NEW n \in Ids, NEW st \in Stages \ {"done", "uncertain", "failed"},
         Move(n, st), ~Ended(n),
         UNCHANGED <<generation, active, full, driver, room, published, unpublishing, records, queue>>,
         waiters' \subseteq waiters \cup {n}
  PROVE  HInv'
<1>1. Passed({n}, st)
  BY SomePass DEF Move
<1>2. Resume \in waiters' => Resume \in waiters
  BY IdsAreNumbers DEF IInv
<1> QED BY <1>1, <1>2, PassedHistory

\* A round ends, and the recovery with it when it waited.
LEMMA CompleteHistory ==
  ASSUME IInv, HInv, NEW st \in {"negotiated", "failing"}, Complete(st),
         UNCHANGED <<generation, room, active, full, published, unpublishing, records, queue>>
  PROVE  HInv'
<1>1. Passed(waiters, st) /\ waiters' = {}
  BY SomePass DEF Complete, Stages
<1>2. \A n \in waiters \cap Ids : ~Ended(n)
  BY IdsAreNumbers DEF IInv, WaitersWait, At, Ended
<1>3. \/ driver' = driver
      \/ driver = "resuming" /\ driver' \in {"resumed", "restarting"}
  BY DEF Complete, HInv, RecoveryOwns
<1> QED BY <1>1, <1>2, <1>3, PassedHistory

LEMMA NegotiationHistory ==
  ASSUME IInv, HInv, Negotiation \/ OfferFails \/ SetLocalFails \/ RefuseAnswer
  PROVE  HInv'
<1> USE DEF recoveryVars, linkVars, bookVars, negotiationVars
<1>1. CASE CreateOffer
  BY <1>1, StillHistory DEF CreateOffer
<1>2. CASE SendOffer
  <2>1. CASE link = "open"
    BY <1>2, <2>1, StillHistory DEF SendOffer
  <2>2. CASE link # "open"
    BY <1>2, <2>2, CompleteHistory DEF SendOffer
  <2> QED BY <2>1, <2>2
<1>3. CASE ApplyAnswer
  <2>1. CASE negotiation = "PendingRetry"
    BY <1>3, <2>1, StillHistory DEF ApplyAnswer
  <2>2. CASE negotiation # "PendingRetry"
    BY <1>3, <2>2, CompleteHistory DEF ApplyAnswer
  <2> QED BY <2>1, <2>2
<1>4. CASE RetryTimer
  BY <1>4, StillHistory DEF RetryTimer
<1>5. CASE RefuseAnswer
  BY <1>5, CompleteHistory DEF RefuseAnswer
<1>6. CASE OfferFails \/ SetLocalFails
  BY <1>6, CompleteHistory DEF OfferFails, SetLocalFails, OnNegotiationFailed
<1> QED BY <1>1, <1>2, <1>3, <1>4, <1>5, <1>6 DEF Negotiation

LEMMA AcknowledgeHistory ==
  ASSUME IInv, HInv, NEW n \in Ids, Acknowledge(n)
  PROVE  HInv'
<1> DEFINE S == {m \in Ids : At(m, "acking") /\ ops[m].track = ops[n].track}
<1>1. Passed(S, "acked") /\ \A m \in S : ~Ended(m)
  BY SomePass DEF Acknowledge, Stages, At, Ended
<1> HIDE DEF S
<1> QED BY <1>1, PassedHistory DEF Acknowledge, recoveryVars, bookVars, negotiationVars

\* The stages that go on or fail.
LEMMA StagesHistory ==
  ASSUME IInv, HInv, NEW n \in Ids,
         PostInstall(n) \/ Install(n) \/ NegotiateTrack(n) \/ Timeout(n) \/ RemoveSenders(n)
  PROVE  HInv'
<1> USE DEF recoveryVars, linkVars, bookVars, negotiationVars
<1>1. CASE PostInstall(n)
  <2>1. PICK st \in {"installing", "failing"} : Move(n, st)
    BY <1>1 DEF PostInstall
  <2>2. ~Ended(n)
    BY <1>1 DEF PostInstall, At, Ended
  <2> QED BY <1>1, <2>1, <2>2, OneHistory DEF PostInstall, Stages
<1>2. CASE Install(n)
  <2>1. CASE ~At(n, "installing")
    BY <1>2, <2>1, StillHistory DEF Install
  <2>2. CASE At(n, "installing")
    <3>1. PICK st \in {"installed", "failing"} : Move(n, st)
      BY <1>2, <2>2 DEF Install
    <3>2. ~Ended(n)
      BY <2>2 DEF At, Ended
    <3> QED BY <1>2, <3>1, <3>2, OneHistory DEF Install, Stages
  <2> QED BY <2>1, <2>2
<1>3. CASE NegotiateTrack(n)
  <2>1. PICK st \in {"negotiating", "failing"} : Move(n, st)
    BY <1>3 DEF NegotiateTrack
  <2>2. ~Ended(n) /\ waiters' \subseteq waiters \cup {n}
    BY <1>3 DEF NegotiateTrack, Negotiate, At, Ended
  <2> QED BY <1>3, <2>1, <2>2, OneHistory DEF NegotiateTrack, Stages
<1>4. CASE Timeout(n)
  <2>1. PICK st \in {"refused", "failing"} : Move(n, st)
    BY <1>4 DEF Timeout
  <2>2. ~Ended(n) /\ waiters' \subseteq waiters
    BY <1>4 DEF Timeout, At, Ended
  <2> QED BY <1>4, <2>1, <2>2, OneHistory DEF Timeout, Stages
<1>5. CASE RemoveSenders(n)
  <2>1. CASE ~At(n, "removing")
    BY <1>5, <2>1, StillHistory DEF RemoveSenders
  <2>2. CASE At(n, "removing")
    <3>1. PICK st \in {"removed", "failing"} : Move(n, st)
      BY <1>5, <2>2 DEF RemoveSenders
    <3>2. ~Ended(n)
      BY <2>2 DEF At, Ended
    <3> QED BY <1>5, <3>1, <3>2, OneHistory DEF RemoveSenders, Stages
  <2> QED BY <2>1, <2>2
<1> QED BY <1>1, <1>2, <1>3, <1>4, <1>5

\* A removal is marked as having taken the sender away.
LEMMA NegotiateRemovalHistory ==
  ASSUME IInv, HInv, NEW m \in Ids, NegotiateRemoval(m)
  PROVE  HInv'
<1> USE DEF NegotiateRemoval, recoveryVars, linkVars, bookVars, negotiationVars
<1>0. ~Ended(m)
  BY DEF At, Ended
<1>1. CASE Current(m)
  <2>1. /\ Ids' = Ids /\ \A k \in Ids : k # m => ops'[k] = ops[k]
        /\ ops'[m].kind = ops[m].kind /\ ops'[m].track = ops[m].track
        /\ ops'[m].of = ops[m].of /\ ops'[m].gen = ops[m].gen
        /\ ops'[m].calm = ops[m].calm
        /\ ops'[m].stage = "negotiating"
    BY <1>1, RemovalMarked
  <2>2. Continues
    BY <1>0, <1>1, <2>1 DEF Continues, Current
  <2>3. waiters' = waiters \cup {m} /\ Resume # m
    BY <1>1, IdsAreNumbers DEF Negotiate, IInv
  <2>4. /\ \A k \in Ids : ~Ended(k) => ops'[k].stage \notin {"uncertain", "failed", "done"}
        /\ \A q \in Ids : LiveRepublish(q) => LiveRepublish(q)'
    BY <2>1 DEF Ended, At, LiveRepublish
  <2> QED BY <2>2, <2>3, <2>4, QuietHistory
<1>2. CASE ~Current(m)
  BY <1>0, <1>2, OneHistory DEF Stages
<1> QED BY <1>1, <1>2

-----------------------------------------------------------------------------
(* The past of a track: the ends of transactions.                          *)

LEMMA CommitPublishHistory ==
  ASSUME IInv, JInv, HInv, NEW n \in Ids, CommitPublish(n)
  PROVE  HInv'
<1> USE DEF recoveryVars, linkVars, pcVars, negotiationVars
<1>0. ~Ended(n) /\ ops[n].kind # "unpublish"
  BY DEF CommitPublish, At, Ended
<1>1. CASE ~Current(n)
  BY <1>0, <1>1, OneHistory DEF CommitPublish, Stages
<1>2. CASE Current(n)
  <2>1. Passed({n}, "done") /\ (ops'[n].calm => ~active)
    BY <1>2, PublishPasses
  <2>2. /\ published' = published \cup {n}
        /\ UNCHANGED <<room, driver, active, full, generation, unpublishing, records, queue, waiters>>
    BY <1>2 DEF CommitPublish
  <2>3. Continues
    BY <1>0, <2>1, <2>2, PassedContinues
  <2>4. InOrder'
    BY <1>0, <2>2, <2>3, OrderContinues DEF HInv
  <2>5. \A m \in Ids : m # n => ops'[m].stage = ops[m].stage
    BY <2>1 DEF Passed
  <2>6. RemovalsHeld'
    BY <1>0, <2>2, <2>3, <2>5, HeldContinues DEF HInv, Ended, At
  <2>7. RecoveryOwns'
    BY <2>2, <2>3, OwnsContinues DEF HInv
  <2>8. ASSUME NEW m \in Ids, Standing(m), KeptAway(m), ~PublishedAfter(m)
        PROVE  KeptAway(m)'
    <3>1. ops[n].track # ops[m].track
      <4> SUFFICES ASSUME ops[n].track = ops[m].track PROVE FALSE
        OBVIOUS
      <4>1. ops[m].kind = "unpublish" /\ m # n /\ m \in Nat /\ n \in Nat
        BY <1>0, <2>8, IdsAreNumbers DEF Standing, IInv
      <4>2. CASE n < m
        <5>1. ops[n].gen <= ops[m].gen /\ ops[m].gen <= generation /\ ops[n].gen = generation
          BY <1>2, <4>2 DEF HInv, InOrder, IInv, OpsType, Current
        <5>2. ops[m].gen \in Nat /\ generation \in Nat
          <6>1. ops[m] \in OpRecords
            BY DEF IInv, OpsType, Ids
          <6> QED BY <6>1 DEF OpRecords, IInv, OpsType
        <5>3. ops[n].gen = ops[m].gen
          BY <5>1, <5>2
        <5> QED BY <1>0, <4>1, <4>2, <5>3 DEF HInv, InOrder
      <4>3. CASE m < n
        <5>1. ops[n].kind \in {"publish", "republish"}
          <6>1. ops[n] \in OpRecords
            BY DEF IInv, OpsType, Ids
          <6> QED BY <1>0, <6>1 DEF OpRecords, Kinds
        <5> QED BY <2>8, <4>3, <5>1 DEF HInv, RemovedStays, PublishedAgain, PublishedAfter
      <4> QED BY <4>1, <4>2, <4>3
    <3>2. published \subseteq Ids
      BY DEF IInv, PublishedDone
    <3> QED BY <2>2, <2>3, <2>8, <3>1, <3>2 DEF KeptAway, Continues
  <2>9. RemovedStays'
    BY <2>3, <2>8, RemovedContinues DEF HInv
  <2>10. ASSUME NEW k \in Ids, Survives(ops[k].track) PROVE Survives(ops[k].track)'
    <3>1. PICK t : t = ops[k].track
      OBVIOUS
    <3>2. Ids \subseteq Ids' /\ \A q \in Ids : ops'[q].track = ops[q].track
      BY <2>3 DEF Continues
    <3>3. (Listed' => Listed) /\ published \subseteq published'
      BY <2>2 DEF Listed
    <3>4. Survives(t)
      BY <2>10, <3>1
    <3>5. \A q \in Ids : LiveRepublish(q) => LiveRepublish(q)' \/ q \in published'
      BY <2>1, <2>2 DEF Passed, LiveRepublish, Ended
    <3>6. Survives(t)'
      BY <2>2, <3>2, <3>3, <3>4, <3>5, SurvivesOn
    <3> QED BY <3>1, <3>2, <3>6
  <2>11. ASSUME ops'[n].calm PROVE Survives(ops[n].track)'
    <3>1. n \in published' /\ ~active' /\ driver' # "republishing"
      BY <2>1, <2>2, <2>7, <2>11 DEF RecoveryOwns
    <3> QED BY <3>1 DEF Survives, Published
  <2>12. PublishedSurvive'
    BY <2>3, <2>5, <2>10, <2>11, SurviveContinues DEF HInv, Ended
  <2> QED BY <2>4, <2>6, <2>7, <2>9, <2>12 DEF HInv
<1> QED BY <1>1, <1>2

\* The recovery goes on, and publishes nothing.
LEMMA RecoveryHistory ==
  ASSUME IInv, HInv, Continues, RemovalsHeld', published' \subseteq published,
         \A n \in Ids : ~(LiveRepublish(n)'),
         driver' # "idle" => active', Resume \in waiters' => driver' = "resuming",
         driver' \in {"connecting stream", "resuming", "resumed"} => ~full',
         active' /\ driver' \in {"idle", "connecting", "republishing"} => full',
         \A m \in Ids : Standing(m) /\ KeptAway(m) =>
           /\ active' => ops[m].track \notin records'
           /\ driver' = "republishing" => ops[m].track \notin queue',
         \A n \in Ids : ops[n].kind = "publish" /\ ~Ended(n) => ops'[n].stage # "done",
         Listed' => published' = published,
         \A n \in Ids : (ops[n].kind = "publish" /\ At(n, "done") /\ Survives(ops[n].track)) =>
           \/ Unpublished(n)
           \/ /\ active' => ops[n].track \in records'
              /\ Listed' => Published(ops[n].track)
              /\ driver' = "republishing" => ops[n].track \in queue'
  PROVE  HInv'
<1>0. Ids' = Ids /\ (\A n \in Ids : ops'[n].track = ops[n].track /\ ops'[n].of = ops[n].of)
      /\ published \subseteq Ids
  BY DEF Continues, IInv, PublishedDone
<1>1. InOrder'
  BY OrderContinues DEF HInv
<1>2. RecoveryOwns'
  BY <1>0 DEF RecoveryOwns
<1>3. ASSUME NEW m \in Ids, Standing(m), KeptAway(m)
      PROVE  KeptAway(m)'
  <2>1. \A q \in published' : ops'[q].track = ops'[m].track => q = ops'[m].of
    BY <1>0, <1>3 DEF KeptAway
  <2> QED BY <1>0, <1>3, <2>1 DEF KeptAway
<1>4. RemovedStays'
  BY <1>3, RemovedContinues DEF HInv
<1>5. ASSUME NEW n \in Ids, ops[n].kind = "publish", At(n, "done"), Survives(ops[n].track)
      PROVE  Unpublished(n) \/ Survives(ops[n].track)'
  <2> SUFFICES ASSUME ~Unpublished(n) PROVE Survives(ops[n].track)'
    OBVIOUS
  <2>1. /\ active' => ops[n].track \in records'
        /\ Listed' => Published(ops[n].track)
        /\ driver' = "republishing" => ops[n].track \in queue'
    BY <1>5
  <2>2. Listed' => Published(ops[n].track)'
    BY <1>0, <2>1 DEF Published
  <2> QED BY <1>0, <2>1, <2>2 DEF Survives
<1>6. PublishedSurvive'
  BY <1>5, SurviveContinues DEF HInv
<1> QED BY <1>1, <1>2, <1>4, <1>6 DEF HInv

LEMMA RollBackHistory ==
  ASSUME IInv, HInv, NEW n \in Ids, RollBack(n)
  PROVE  HInv'
<1> USE DEF linkVars, bookVars
<1>0. /\ ~Ended(n) /\ ops[n].kind # "unpublish" /\ waiters' \subseteq waiters
      /\ UNCHANGED <<active, full, generation, published, unpublishing, records, queue>>
  BY DEF RollBack, At, Ended, Negotiate, negotiationVars
<1>1. Passed({n}, "failed")
  BY SomePass DEF RollBack, Move, Stages
<1>2. Continues
  BY <1>0, <1>1, PassedContinues
<1>3. /\ \A k \in Ids : k # n => ops'[k].stage = ops[k].stage
      /\ ops'[n].stage = "failed"
  BY <1>1 DEF Passed
<1>4. CASE ops[n].kind # "republish"
  <2>1. room' = room /\ driver' = driver
    BY <1>4 DEF RollBack
  <2>2. \A q \in Ids : LiveRepublish(q) => LiveRepublish(q)'
    BY <1>2, <1>3, <1>4 DEF LiveRepublish, Continues, Ended
  <2> QED BY <1>0, <1>2, <1>3, <2>1, <2>2, QuietHistory DEF Ended, At
<1>5. CASE ops[n].kind = "republish"
  <2>1. driver' = "backoff" /\ room' = "Reconnecting"
    BY <1>5 DEF RollBack, AttemptFails
  <2>2. LiveRepublish(n)
    BY <1>0, <1>5 DEF LiveRepublish
  <2>3. active /\ full /\ driver = "republishing"
    BY <2>2 DEF HInv, RecoveryOwns
  <2>4. ASSUME NEW k \in Ids, LiveRepublish(k)' PROVE FALSE
    <3>1. LiveRepublish(k) /\ k # n
      BY <1>2, <1>3, <2>4, EndedStay DEF Continues, LiveRepublish, Ended, At
    <3> QED BY <2>2, <3>1 DEF HInv, RecoveryOwns
  <2>5. RemovalsHeld'
    BY <1>0, <1>2, <1>3, HeldContinues DEF HInv, Ended, At
  <2>6. ~Listed' /\ Resume \notin waiters'
    BY <1>0, <2>3 DEF Listed, HInv, RecoveryOwns
  <2>7. \A m \in Ids : KeptAway(m) => (active' => ops[m].track \notin records')
    BY <1>0 DEF KeptAway
  <2>8. \A k \in Ids : Survives(ops[k].track) => (active' => ops[k].track \in records')
    BY <1>0 DEF Survives
  <2>9. \A k \in Ids : ops[k].kind = "publish" /\ ~Ended(k) => ops'[k].stage # "done"
    BY <1>0, <1>3 DEF Ended
  <2> QED BY <1>0, <1>2, <2>1, <2>3, <2>4, <2>5, <2>6, <2>7, <2>8, <2>9, RecoveryHistory
<1> QED BY <1>4, <1>5

LEMMA CommitUnpublishHistory ==
  ASSUME IInv, JInv, HInv, NEW m \in Ids, CommitUnpublish(m)
  PROVE  HInv'
<1> USE DEF recoveryVars, linkVars, pcVars, negotiationVars
<1>0. ~Ended(m) /\ ops[m].kind = "unpublish"
  BY DEF CommitUnpublish, At, Ended
<1>1. CASE ~(Current(m) /\ room = "Connected" /\ ops[m].of \in unpublishing)
  BY <1>0, <1>1, OneHistory DEF CommitUnpublish, Stages
<1>2. CASE Current(m) /\ room = "Connected" /\ ops[m].of \in unpublishing
  <2>1. Passed({m}, "done")
    BY <1>2, SomePass DEF CommitUnpublish, Move, Stages
  <2>2. /\ published' = published \ {ops[m].of}
        /\ unpublishing' = unpublishing \ {ops[m].of}
        /\ records' = records \ {ops[m].track}
        /\ UNCHANGED <<room, driver, active, full, generation, queue, waiters>>
    BY <1>2 DEF CommitUnpublish
  <2>3. Continues
    BY <1>0, <2>1, <2>2, PassedContinues
  <2>4. InOrder'
    BY <2>2, <2>3, OrderContinues DEF HInv
  <2>5. /\ \A k \in Ids : k # m => ops'[k].stage = ops[k].stage
        /\ \A k \in Ids : ops'[k].removed = ops[k].removed
        /\ ops'[m].stage = "done"
    BY <2>1 DEF Passed
  <2>6. \A k \in Ids : (Removal(k)' <=> Removal(k)) /\ ops'[k].of = ops[k].of
    BY <2>2, <2>3 DEF Continues, Removal, Current
  <2>7. Ids' = Ids /\ Removal(m) /\ ~At(m, "failed") /\ ~At(m, "uncertain")
    BY <1>0, <1>2, <2>3 DEF Continues, Removal, Ended, At
  <2>8. RemovalsHeld'
    <3>1. \A m1, m2 \in Ids' : (/\ Removal(m1)' /\ Removal(m2)' /\ ops'[m1].of = ops'[m2].of
                                /\ ~(At(m1, "failed")') /\ ~(At(m2, "failed")')) => m1 = m2
      BY <2>5, <2>6, <2>7 DEF HInv, RemovalsHeld, At
    <3>2. ASSUME NEW k \in Ids', Removal(k)'
          PROVE  /\ At(k, "uncertain")' => ops'[k].of \in unpublishing'
                 /\ ops'[k].removed => ~(At(k, "failed")')
      <4>1. CASE k = m
        BY <2>5, <4>1 DEF At
      <4>2. CASE k # m
        <5>1. k \in Ids /\ Removal(k) /\ ops'[k].of = ops[k].of /\ ops'[k].stage = ops[k].stage
          BY <2>5, <2>6, <2>7, <3>2, <4>2
        <5>2. At(k, "uncertain") => ops[k].of # ops[m].of
          BY <2>7, <4>2, <5>1 DEF HInv, RemovalsHeld, At
        <5> QED BY <2>2, <2>5, <5>1, <5>2 DEF HInv, RemovalsHeld, At
      <4> QED BY <4>1, <4>2
    <3>3. ASSUME NEW p \in unpublishing'
          PROVE  Current(p)' /\ \E k \in Ids' : Removal(k)' /\ ops'[k].of = p
      <4>1. p \in Ids /\ Current(p) /\ \E k \in Ids : Removal(k) /\ ops[k].of = p
        BY <2>2 DEF HInv, RemovalsHeld, IInv, SetsType
      <4> QED BY <2>2, <2>3, <2>6, <4>1 DEF Continues, Current
    <3> QED BY <3>1, <3>2, <3>3 DEF RemovalsHeld
  <2>9. RecoveryOwns'
    BY <2>2, <2>3, OwnsContinues DEF HInv
  <2>10. RemovedStays'
    BY <2>2, <2>3, AwayContinues, RemovedContinues DEF HInv
  <2>11. ASSUME NEW n \in Ids, ops[n].kind = "publish", At(n, "done"), Survives(ops[n].track)
         PROVE  Unpublished(n) \/ Survives(ops[n].track)'
    <3>1. m \in Nat /\ n \in Nat /\ m # n
      BY <1>0, <2>11, IdsAreNumbers DEF IInv
    <3>2. CASE ops[n].track = ops[m].track
      <4>1. n < m
        BY <1>0, <2>11, <3>1, <3>2 DEF HInv, InOrder
      <4> QED BY <1>0, <3>2, <4>1 DEF Unpublished
    <3>3. CASE ops[n].track # ops[m].track
      <4>1. PICK t : t = ops[n].track
        OBVIOUS
      <4>2. published \subseteq Ids /\ ops[ops[m].of].track = ops[m].track
            /\ \A q \in Ids : ops'[q].track = ops[q].track
        BY <1>0, <2>3 DEF IInv, PublishedDone, RemovalsOfDone, Continues
      <4>3. Published(t) => Published(t)'
        BY <2>2, <3>3, <4>1, <4>2 DEF Published
      <4>4. \A q \in Ids : LiveRepublish(q) => LiveRepublish(q)'
        BY <1>0, <2>3, <2>5 DEF LiveRepublish, Continues, Ended
      <4>5. Survives(t)
        BY <2>11, <4>1
      <4>6. Listed' => Listed
        BY <2>2 DEF Listed
      <4>7. Survives(t)'
        BY <2>2, <2>7, <3>3, <4>1, <4>2, <4>3, <4>4, <4>5, <4>6 DEF Survives
      <4> QED BY <4>1, <4>2, <4>7
    <3> QED BY <3>2, <3>3
  <2>12. PublishedSurvive'
    BY <1>0, <2>3, <2>5, <2>11, SurviveContinues DEF HInv, Ended
  <2> QED BY <2>4, <2>8, <2>9, <2>10, <2>12 DEF HInv
<1> QED BY <1>1, <1>2

\* A removal fails.  Whoever would hold its intent is itself.
LEMMA UnpublishFailsHistory ==
  ASSUME IInv, JInv, HInv, NEW m \in Ids, UnpublishFails(m)
  PROVE  HInv'
<1> USE DEF recoveryVars, linkVars, pcVars, negotiationVars
<1>0. /\ ~Ended(m) /\ ops[m].kind = "unpublish"
      /\ UNCHANGED <<room, driver, active, full, generation, published, records, queue, waiters>>
  BY DEF UnpublishFails, At, Ended
<1>1. PICK st \in {"uncertain", "failed"} :
        /\ Passed({m}, st)
        /\ st = "uncertain" => /\ ops[m].of \in unpublishing /\ ops[m].removed
                               /\ unpublishing' = unpublishing
        /\ st = "failed" => /\ ~(ops[m].of \in unpublishing /\ ops[m].removed)
                            /\ unpublishing' = unpublishing \ {ops[m].of}
  <2>1. CASE ops[m].of \in unpublishing /\ ops[m].removed
    BY <2>1, SomePass DEF UnpublishFails, Move, Stages
  <2>2. CASE ~(ops[m].of \in unpublishing /\ ops[m].removed)
    BY <2>2, SomePass DEF UnpublishFails, Move, Stages
  <2> QED BY <2>1, <2>2
<1>2. Continues
  BY <1>0, <1>1, PassedContinues
<1>3. /\ \A k \in Ids : k # m => ops'[k].stage = ops[k].stage
      /\ \A k \in Ids : ops'[k].removed = ops[k].removed
      /\ ops'[m].stage = st
  BY <1>1 DEF Passed
<1>4. /\ Ids' = Ids
      /\ \A k \in Ids : (Removal(k)' <=> Removal(k)) /\ ops'[k].of = ops[k].of
  BY <1>0, <1>2 DEF Continues, Removal, Current
<1>5. RemovalsHeld'
  <2>0. ~At(m, "failed") /\ ~At(m, "uncertain")
    BY <1>0 DEF Ended, At
  <2>1. \A m1, m2 \in Ids' : (/\ Removal(m1)' /\ Removal(m2)' /\ ops'[m1].of = ops'[m2].of
                              /\ ~(At(m1, "failed")') /\ ~(At(m2, "failed")')) => m1 = m2
    BY <1>3, <1>4, <2>0 DEF HInv, RemovalsHeld, At
  <2>2. ASSUME NEW k \in Ids', Removal(k)'
        PROVE  /\ At(k, "uncertain")' => ops'[k].of \in unpublishing'
               /\ ops'[k].removed => ~(At(k, "failed")')
    <3>1. CASE k = m
      <4>1. st = "failed" => ~ops[m].removed
        BY <1>0, <1>1, <1>4, <2>2, <3>1 DEF JInv, RInv, RemovalsIntended
      <4> QED BY <1>1, <1>3, <1>4, <3>1, <4>1 DEF At
    <3>2. CASE k # m
      <4>1. k \in Ids /\ Removal(k) /\ ops'[k].of = ops[k].of /\ ops'[k].stage = ops[k].stage
        BY <1>3, <1>4, <2>2, <3>2
      <4>2. At(k, "uncertain") => ops[k].of \in unpublishing'
        <5> SUFFICES ASSUME At(k, "uncertain"), ops[k].of = ops[m].of PROVE FALSE
          BY <1>1, <4>1 DEF HInv, RemovalsHeld
        <5>1. Removal(m)
          BY <1>0, <4>1 DEF JInv, RInv, RemovalsOfSession, Removal, Current
        <5> QED BY <2>0, <3>2, <4>1, <5>1 DEF HInv, RemovalsHeld, At
      <4> QED BY <1>3, <4>1, <4>2 DEF HInv, RemovalsHeld, At
    <3> QED BY <3>1, <3>2
  <2>3. ASSUME NEW p \in unpublishing'
        PROVE  Current(p)' /\ \E k \in Ids' : Removal(k)' /\ ops'[k].of = p
    <3>1. p \in Ids /\ Current(p) /\ \E k \in Ids : Removal(k) /\ ops[k].of = p
      BY <1>1 DEF HInv, RemovalsHeld, IInv, SetsType
    <3> QED BY <1>0, <1>2, <1>4, <3>1 DEF Continues, Current
  <2> QED BY <2>1, <2>2, <2>3 DEF RemovalsHeld
<1>6. /\ \A n \in Ids : ops[n].kind = "publish" /\ ~Ended(n) => ops'[n].stage # "done"
      /\ \A q \in Ids : LiveRepublish(q) => LiveRepublish(q)'
  BY <1>0, <1>2, <1>3 DEF LiveRepublish, Continues, Ended
<1> QED BY <1>0, <1>2, <1>5, <1>6, QuietButRemovals

-----------------------------------------------------------------------------
(* The past of a track: the beginnings of transactions.                    *)

\* One begins, of this session.
Begins(new, op) ==
  /\ Ids' = Ids \cup {new} /\ new \in Nat
  /\ \A n \in Ids : n \in Nat /\ n < new /\ ops'[n] = ops[n]
  /\ ops'[new] = op /\ op.gen = generation /\ generation' = generation
  /\ ~op.removed /\ op.stage \notin {"done", "failed", "uncertain"}

LEMMA AppendBegins ==
  ASSUME IInv, NEW op \in OpRecords, ops' = Append(ops, op), op.gen = generation, ~op.removed,
         op.stage \notin {"done", "failed", "uncertain"}, UNCHANGED generation,
         NEW new, new = Len(ops) + 1
  PROVE  Begins(new, op)
<1>1. Ids = 1 .. Len(ops) /\ Len(ops) \in Nat /\ ops \in Seq(OpRecords)
  BY IdsAreNumbers DEF IInv, OpsType
<1>2. /\ Ids' = Ids \cup {new} /\ ops'[new] = op /\ new \in Nat
      /\ \A n \in Ids : n \in Nat /\ n < new /\ ops'[n] = ops[n]
  BY <1>1 DEF Ids
<1> QED BY <1>2 DEF Begins

LEMMA OrderBegins ==
  ASSUME IInv, InOrder, NEW new, NEW op, Begins(new, op), UNCHANGED published,
         op.kind = "unpublish" => op.of \in Ids,
         op.kind = "publish" =>
           \A q \in Ids : ops[q].track = op.track => Ended(q) /\ q \notin published,
         op.kind = "unpublish" =>
           \A q \in Ids : (ops[q].track = op.track /\ ops[q].kind # "unpublish" /\ Current(q))
                            => Ended(q)
  PROVE  InOrder'
<1>1. /\ Ids' = Ids \cup {new} /\ new \notin Ids /\ new \in Nat
      /\ \A n \in Ids : n \in Nat /\ n < new /\ ops'[n] = ops[n] /\ ops[n].gen <= generation
      /\ ops'[new] = op /\ op.gen = generation
  BY DEF Begins, IInv, OpsType
<1>2. ASSUME NEW n1 \in Ids', NEW n2 \in Ids', n1 < n2
      PROVE  n1 \in Ids
  BY <1>1, <1>2
<1>3. \A n1, n2 \in Ids' : n1 < n2 => ops'[n1].gen <= ops'[n2].gen
  BY <1>1, <1>2 DEF InOrder
<1>4. \A m \in Ids' : ops'[m].kind = "unpublish" => ops'[m].of < m
  BY <1>1 DEF InOrder
<1>5. ASSUME NEW n \in Ids', NEW q \in Ids', q < n, ops'[q].track = ops'[n].track
      PROVE  /\ ops'[n].kind = "publish" => Ended(q)' /\ q \notin published'
             /\ (ops'[n].kind = "unpublish" /\ ops'[q].kind # "unpublish"
                 /\ ops'[q].gen = ops'[n].gen) => Ended(q)'
  <2>1. q \in Ids /\ ops'[q] = ops[q] /\ (Ended(q)' <=> Ended(q))
    BY <1>1, <1>2, <1>5 DEF Ended
  <2>2. CASE n \in Ids
    <3>1. ops'[n] = ops[n]
      BY <1>1, <2>2
    <3> QED BY <1>5, <2>1, <2>2, <3>1 DEF InOrder
  <2>3. CASE n = new
    BY <1>1, <1>5, <2>1, <2>3 DEF Current
  <2> QED BY <1>1, <2>2, <2>3
<1> QED BY <1>3, <1>4, <1>5 DEF InOrder

LEMMA RemovedBegins ==
  ASSUME RemovedStays, NEW new, NEW op, Begins(new, op),
         op.kind = "republish" =>
           \A m \in Ids : Standing(m) /\ ops[m].track = op.track => PublishedAfter(m),
         \A m \in Ids : Standing(m) /\ KeptAway(m) => KeptAway(m)',
         op.kind = "unpublish" /\ op.calm => KeptAway(new)'
  PROVE  RemovedStays'
<1>1. /\ Ids' = Ids \cup {new} /\ new \notin Ids /\ new \in Nat
      /\ \A n \in Ids : n \in Nat /\ n < new /\ ops'[n] = ops[n]
      /\ ops'[new] = op
  BY DEF Begins
<1> SUFFICES ASSUME NEW m \in Ids', Standing(m)'
             PROVE  /\ \A n \in Ids' : (m < n /\ ops'[n].kind = "republish"
                                         /\ ops'[n].track = ops'[m].track)
                          => PublishedAgain(m, n)'
                    /\ PublishedAfter(m)' \/ KeptAway(m)'
  BY DEF RemovedStays
<1>2. CASE m = new
  <2>1. KeptAway(new)'
    BY <1>1, <1>2 DEF Standing
  <2>2. \A n \in Ids' : ~(new < n)
    BY <1>1
  <2> QED BY <1>2, <2>1, <2>2
<1>3. CASE m \in Ids
  <2>1. Standing(m) /\ ops'[m] = ops[m]
    BY <1>1, <1>3 DEF Standing, Begins, Current, Ended
  <2>2. PublishedAfter(m) => PublishedAfter(m)'
    BY <1>1, <2>1 DEF PublishedAfter
  <2>3. ASSUME NEW n \in Ids', m < n, ops'[n].kind = "republish", ops'[n].track = ops'[m].track
        PROVE  PublishedAgain(m, n)'
    <3>1. CASE n = new
      <4>1. PublishedAfter(m)
        BY <1>1, <1>3, <2>1, <2>3, <3>1
      <4> QED BY <1>1, <2>1, <3>1, <4>1 DEF PublishedAfter, PublishedAgain
    <3>2. CASE n \in Ids
      <4>1. PublishedAgain(m, n)
        BY <1>1, <1>3, <2>1, <2>3, <3>2 DEF RemovedStays
      <4> QED BY <1>1, <2>1, <4>1 DEF PublishedAgain
    <3> QED BY <1>1, <3>1, <3>2
  <2> QED BY <1>3, <2>1, <2>2, <2>3 DEF RemovedStays
<1> QED BY <1>1, <1>2, <1>3

LEMMA SurviveBegins ==
  ASSUME PublishedSurvive, NEW new, NEW op, Begins(new, op),
         \A n \in Ids : Survives(ops[n].track) => Survives(ops[n].track)'
  PROVE  PublishedSurvive'
<1>1. /\ Ids' = Ids \cup {new} /\ new \notin Ids /\ \A n \in Ids : ops'[n] = ops[n]
      /\ ops'[new].stage # "done"
  BY DEF Begins
<1> SUFFICES ASSUME NEW n \in Ids', ops'[n].kind = "publish", At(n, "done")', ops'[n].calm
             PROVE  Unpublished(n)' \/ Survives(ops[n].track)'
  BY DEF PublishedSurvive
<1>2. n \in Ids /\ ops'[n] = ops[n] /\ At(n, "done")
  BY <1>1 DEF At
<1>3. Unpublished(n) => Unpublished(n)'
  BY <1>1, <1>2 DEF Unpublished
<1>4. Unpublished(n) \/ Survives(ops[n].track)'
  BY <1>2 DEF PublishedSurvive
<1> QED BY <1>3, <1>4

\* What a publication that begins leaves to be held.
LEMMA HeldBegins ==
  ASSUME IInv, RemovalsHeld, NEW new, NEW op, Begins(new, op), op.kind # "unpublish",
         UNCHANGED unpublishing
  PROVE  RemovalsHeld'
<1>1. /\ Ids' = Ids \cup {new} /\ new \notin Ids /\ \A n \in Ids : ops'[n] = ops[n]
      /\ ops'[new] = op
  BY DEF Begins
<1>2. /\ \A m \in Ids : Removal(m)' <=> Removal(m)
      /\ ~(Removal(new)')
  BY <1>1 DEF Removal, Current, Begins
<1>3. unpublishing \subseteq Ids
  BY DEF IInv, SetsType
<1> QED BY <1>1, <1>2, <1>3 DEF RemovalsHeld, At, Current, Begins

LEMMA PublishHistory ==
  ASSUME IInv, HInv, NEW t \in Tracks, Publish(t)
  PROVE  HInv'
<1> USE DEF recoveryVars, bookVars, negotiationVars
<1>1. PICK op : op = Operation("publish", t, Len(ops) + 1,
                               IF link = "open" THEN "acking" ELSE "refused")
  OBVIOUS
<1>2. /\ op \in OpRecords /\ ~op.removed /\ op.stage \notin {"done", "failed", "uncertain"}
      /\ op.gen = generation /\ op.kind = "publish" /\ op.track = t
  <2>1. generation \in Nat /\ Len(ops) + 1 \in Nat
    BY IdsAreNumbers DEF IInv, OpsType
  <2> QED BY <1>1, <2>1 DEF Operation, OpRecords, Kinds, Stages
<1>3. PICK new : new = Len(ops) + 1
  OBVIOUS
<1>4. UNCHANGED <<room, driver, active, full, generation, published, unpublishing, records,
                  queue, waiters>>
  BY DEF Publish
<1>5. Begins(new, op)
  <2>1. ops' = Append(ops, op)
    BY <1>1 DEF Publish, PublishTrack
  <2> QED BY <1>2, <1>3, <1>4, <2>1, AppendBegins
<1>6. /\ Ids' = Ids \cup {new} /\ new \notin Ids /\ (\A n \in Ids : ops'[n] = ops[n])
      /\ ops'[new] = op
  BY <1>5 DEF Begins
<1>7. InOrder'
  <2>1. \A q \in Ids : ops[q].track = t => Ended(q) /\ q \notin published
    BY DEF Publish, TracksOf
  <2> QED BY <1>2, <1>4, <1>5, <2>1, OrderBegins DEF HInv
<1>8. RemovalsHeld'
  BY <1>2, <1>4, <1>5, HeldBegins DEF HInv
<1>9. RecoveryOwns'
  <2>1. /\ \A n \in Ids : (LiveRepublish(n)' <=> LiveRepublish(n)) /\ (Current(n)' <=> Current(n))
        /\ ~(LiveRepublish(new)')
    BY <1>2, <1>4, <1>6 DEF LiveRepublish, Ended, Current
  <2> QED BY <1>4, <1>6, <2>1 DEF HInv, RecoveryOwns
<1>10. published \subseteq Ids
  BY DEF IInv, PublishedDone
<1>11. RemovedStays'
  <2>1. \A m \in Ids : KeptAway(m) => KeptAway(m)'
    BY <1>4, <1>6, <1>10 DEF KeptAway
  <2> QED BY <1>2, <1>5, <2>1, RemovedBegins DEF HInv
<1>12. PublishedSurvive'
  <2>1. ASSUME NEW n \in Ids, Survives(ops[n].track) PROVE Survives(ops[n].track)'
    <3>1. PICK u : u = ops[n].track
      OBVIOUS
    <3>2. Ids \subseteq Ids' /\ \A q \in Ids : ops'[q].track = ops[q].track
      BY <1>6
    <3>3. \A q \in Ids : LiveRepublish(q) => LiveRepublish(q)'
      BY <1>6 DEF LiveRepublish, Ended
    <3>4. Survives(u) /\ (Listed' => Listed)
      BY <1>4, <2>1, <3>1 DEF Listed
    <3>5. Survives(u)'
      BY <1>4, <3>2, <3>3, <3>4, SurvivesOn
    <3> QED BY <2>1, <3>1, <3>2, <3>5
  <2> QED BY <1>5, <2>1, SurviveBegins DEF HInv
<1> QED BY <1>7, <1>8, <1>9, <1>11, <1>12 DEF HInv

\* The recovery publishes a track that is in its turn.
LEMMA RepublishBeginsHistory ==
  ASSUME IInv, HInv, NEW t \in Tracks, Republish(t), room = "Connected"
  PROVE  HInv'
<1>1. PICK op : op = Operation("republish", t, Len(ops) + 1,
                               IF link = "open" THEN "acking" ELSE "refused")
  OBVIOUS
<1>2. /\ op \in OpRecords /\ ~op.removed /\ op.stage \notin {"done", "failed", "uncertain"}
      /\ op.gen = generation /\ op.kind = "republish" /\ op.track = t
  <2>1. generation \in Nat /\ Len(ops) + 1 \in Nat
    BY IdsAreNumbers DEF IInv, OpsType
  <2> QED BY <1>1, <2>1 DEF Operation, OpRecords, Kinds, Stages
<1>3. PICK new : new = Len(ops) + 1
  OBVIOUS
<1>4. /\ UNCHANGED <<room, driver, active, full, generation, published, unpublishing, records,
                     waiters>>
      /\ driver = "republishing" /\ t \in queue /\ queue' = queue \ {t}
      /\ \A n \in Ids : ~LiveRepublish(n)
  BY DEF Republish, negotiationVars, LiveRepublish, Republishing
<1>5. Begins(new, op)
  <2>1. ops' = Append(ops, op)
    BY <1>1 DEF Republish, PublishTrack
  <2> QED BY <1>2, <1>3, <1>4, <2>1, AppendBegins
<1>6. /\ Ids' = Ids \cup {new} /\ new \notin Ids /\ (\A n \in Ids : ops'[n] = ops[n])
      /\ ops'[new] = op
  BY <1>5 DEF Begins
<1>7. InOrder' /\ RemovalsHeld'
  BY <1>2, <1>4, <1>5, OrderBegins, HeldBegins DEF HInv
<1>8. /\ \A n \in Ids : ~(LiveRepublish(n)')
      /\ LiveRepublish(new)' /\ Current(new)'
  BY <1>2, <1>4, <1>6 DEF LiveRepublish, Ended, Current
<1>9. RecoveryOwns'
  BY <1>4, <1>6, <1>8 DEF HInv, RecoveryOwns
<1>10. published \subseteq Ids
  BY DEF IInv, PublishedDone
<1>11. RemovedStays'
  <2>1. \A m \in Ids : KeptAway(m) => KeptAway(m)'
    BY <1>4, <1>6, <1>10 DEF KeptAway
  <2>2. \A m \in Ids : Standing(m) /\ ops[m].track = t => PublishedAfter(m)
    BY <1>4 DEF HInv, RemovedStays, KeptAway
  <2> QED BY <1>2, <1>5, <2>1, <2>2, RemovedBegins DEF HInv
<1>12. PublishedSurvive'
  <2>1. ASSUME NEW n \in Ids, Survives(ops[n].track) PROVE Survives(ops[n].track)'
    <3>1. PICK u : u = ops[n].track
      OBVIOUS
    <3>2. Survives(u) /\ (Listed' => Listed) /\ (Published(u) => Published(u)')
      BY <1>4, <1>6, <1>10, <2>1, <3>1 DEF Listed, Published
    <3>3. u \in queue' \/ Published(u)' \/ \E q \in Ids' : LiveRepublish(q)' /\ ops'[q].track = u
      BY <1>2, <1>4, <1>6, <1>8, <3>2 DEF Survives
    <3>4. Survives(u)'
      BY <1>4, <3>2, <3>3 DEF Survives
    <3> QED BY <1>6, <3>1, <3>4
  <2> QED BY <1>5, <2>1, SurviveBegins DEF HInv
<1> QED BY <1>7, <1>9, <1>11, <1>12 DEF HInv

\* A removal begins.  Its track has no other publication, and no removal of the
\* same publication that has not failed.
LEMMA UnpublishHistory ==
  ASSUME IInv, JInv, HInv, NEW p \in published, Unpublish(p)
  PROVE  HInv'
<1> USE DEF recoveryVars, linkVars, negotiationVars
<1>1. PICK op : op = Operation("unpublish", ops[p].track, p, "removing")
  OBVIOUS
<1>2. p \in Ids /\ ops[p] \in OpRecords /\ generation \in Nat /\ Ended(p)
  BY DEF IInv, OpsType, PublishedDone, Ids, At, Ended
<1>3. PICK calm \in BOOLEAN : calm = (~active)
  OBVIOUS
<1>4. /\ op \in OpRecords /\ ~op.removed /\ op.stage = "removing" /\ op.of = p
      /\ op.gen = generation /\ op.kind = "unpublish" /\ op.track = ops[p].track
      /\ op.calm = calm
  <2>1. p \in Nat /\ ops[p].track \in Tracks
    BY <1>2, IdsAreNumbers DEF IInv, OpRecords
  <2> QED BY <1>1, <1>2, <1>3, <2>1 DEF Operation, OpRecords, Kinds, Stages
<1>5. PICK new : new = Len(ops) + 1
  OBVIOUS
<1>6. /\ UNCHANGED <<room, driver, active, full, generation, published, records, queue, waiters>>
      /\ p \notin unpublishing /\ unpublishing' = unpublishing \cup {p}
  BY DEF Unpublish
<1>7. Begins(new, op)
  <2>1. ops' = Append(ops, op)
    BY <1>1 DEF Unpublish
  <2> QED BY <1>4, <1>5, <1>6, <2>1, AppendBegins
<1>8. /\ Ids' = Ids \cup {new} /\ new \notin Ids /\ (\A n \in Ids : ops'[n] = ops[n])
      /\ ops'[new] = op
  BY <1>7 DEF Begins
<1>9. /\ \A q \in published : Current(q) /\ q \in Ids
      /\ \A q \in published : ops[q].track = ops[p].track => q = p
  BY DEF JInv, OneOfATrack, Live, IInv, PublishedDone
<1>10. InOrder'
  <2>1. \A q \in Ids : (ops[q].track = ops[p].track /\ ops[q].kind # "unpublish" /\ Current(q))
                         => Ended(q)
    BY <1>2 DEF JInv, OneOfATrack, Live
  <2> QED BY <1>2, <1>4, <1>6, <1>7, <2>1, OrderBegins DEF HInv
<1>11. RemovalsHeld'
  <2>1. /\ \A m \in Ids : Removal(m)' <=> Removal(m)
        /\ Removal(new)'
    BY <1>4, <1>6, <1>8 DEF Removal, Current
  <2>2. \A m \in Ids : Removal(m) /\ ops[m].of = p => At(m, "failed")
    BY <1>6 DEF JInv, RInv, RemovalsIntended, RemovedIsGone, HInv, RemovalsHeld, Ended, At
  <2>3. \A m1, m2 \in Ids' : (/\ Removal(m1)' /\ Removal(m2)' /\ ops'[m1].of = ops'[m2].of
                              /\ ~(At(m1, "failed")') /\ ~(At(m2, "failed")')) => m1 = m2
    BY <1>4, <1>8, <2>1, <2>2 DEF HInv, RemovalsHeld, At
  <2>4. \A m \in Ids' : Removal(m)' =>
          /\ At(m, "uncertain")' => ops'[m].of \in unpublishing'
          /\ ops'[m].removed => ~(At(m, "failed")')
    BY <1>4, <1>6, <1>8, <2>1 DEF HInv, RemovalsHeld, At
  <2>5. ASSUME NEW q \in unpublishing'
        PROVE  Current(q)' /\ \E m \in Ids' : Removal(m)' /\ ops'[m].of = q
    <3>1. CASE q = p
      BY <1>2, <1>4, <1>6, <1>8, <1>9, <2>1, <3>1 DEF Current
    <3>2. CASE q \in unpublishing
      <4>1. q \in Ids /\ Current(q) /\ \E m \in Ids : Removal(m) /\ ops[m].of = q
        BY <3>2 DEF HInv, RemovalsHeld, IInv, SetsType
      <4> QED BY <1>6, <1>8, <2>1, <4>1 DEF Current
    <3> QED BY <1>6, <3>1, <3>2
  <2> QED BY <2>3, <2>4, <2>5 DEF RemovalsHeld
<1>12. RecoveryOwns'
  <2>1. /\ \A n \in Ids : (LiveRepublish(n)' <=> LiveRepublish(n)) /\ (Current(n)' <=> Current(n))
        /\ ~(LiveRepublish(new)')
    BY <1>4, <1>6, <1>8 DEF LiveRepublish, Ended, Current
  <2> QED BY <1>6, <1>8, <2>1 DEF HInv, RecoveryOwns
<1>13. RemovedStays'
  <2>1. \A m \in Ids : KeptAway(m) => KeptAway(m)'
    BY <1>6, <1>8, <1>9 DEF KeptAway
  <2>2. op.calm => ~active /\ driver # "republishing"
    BY <1>3, <1>4 DEF HInv, RecoveryOwns
  <2>3. op.calm => KeptAway(new)'
    BY <1>4, <1>6, <1>8, <1>9, <2>2 DEF KeptAway
  <2> QED BY <1>4, <1>7, <2>1, <2>3, RemovedBegins DEF HInv
<1>14. PublishedSurvive'
  <2>1. ASSUME NEW n \in Ids, Survives(ops[n].track) PROVE Survives(ops[n].track)'
    <3>1. PICK u : u = ops[n].track
      OBVIOUS
    <3>2. Ids \subseteq Ids' /\ \A q \in Ids : ops'[q].track = ops[q].track
      BY <1>8
    <3>3. \A q \in Ids : LiveRepublish(q) => LiveRepublish(q)'
      BY <1>8 DEF LiveRepublish, Ended
    <3>4. Survives(u) /\ (Listed' => Listed)
      BY <1>6, <2>1, <3>1 DEF Listed
    <3>5. Survives(u)'
      BY <1>6, <3>2, <3>3, <3>4, SurvivesOn
    <3> QED BY <2>1, <3>1, <3>2, <3>5
  <2> QED BY <1>7, <2>1, SurviveBegins DEF HInv
<1> QED BY <1>10, <1>11, <1>12, <1>13, <1>14 DEF HInv

-----------------------------------------------------------------------------
(* The past of a track: the recovery.                                      *)

\* A step of the recovery that leaves the books and the transactions alone.
LEMMA RecoveryGoesOn ==
  ASSUME IInv, HInv, UNCHANGED <<ops, generation, full, published, unpublishing, records>>,
         \A n \in Ids : ~LiveRepublish(n),
         driver' # "idle" => active', Resume \in waiters' => driver' = "resuming",
         driver' \in {"connecting stream", "resuming", "resumed"} => ~full,
         active' /\ driver' \in {"idle", "connecting", "republishing"} => full,
         active' => active, driver' # "republishing",
         \A t : Listed' /\ Survives(t) => Published(t)
  PROVE  HInv'
<1>1. Continues
  BY StillContinues
<1>2. RemovalsHeld' /\ (\A n \in Ids : ~(LiveRepublish(n)')) /\ \A n \in Ids : ops'[n] = ops[n]
  BY <1>1, HeldContinues DEF HInv, LiveRepublish, Ended, At
<1>3. \A m \in Ids : KeptAway(m) => (active' => ops[m].track \notin records')
  BY DEF KeptAway
<1>4. \A n \in Ids : Survives(ops[n].track) =>
        /\ active' => ops[n].track \in records'
        /\ Listed' => Published(ops[n].track)
  BY DEF Survives
<1>5. \A n \in Ids : ops[n].kind = "publish" /\ ~Ended(n) => ops'[n].stage # "done"
  BY <1>2 DEF Ended
<1> QED BY <1>1, <1>2, <1>3, <1>4, <1>5, RecoveryHistory

\* What is recorded is published and not being removed.  A publication that is
\* being removed is the last of its track, and what is published otherwise is
\* recorded.
LEMMA StartReconnectHistory ==
  ASSUME IInv, JInv, HInv, StartReconnect
  PROVE  HInv'
<1> USE DEF linkVars, negotiationVars
<1>0. /\ room = "Reconnecting" /\ ~active /\ active' /\ driver' = "backoff"
      /\ UNCHANGED <<ops, generation, published, unpublishing, queue, waiters>>
      /\ records' = TracksOf(published \ unpublishing)
  BY DEF StartReconnect, RecordPublishedTracks
<1>1. Continues
  BY <1>0, StillContinues
<1>2. driver = "idle" /\ Resume \notin waiters /\ \A n \in Ids : ~LiveRepublish(n)
  BY <1>0 DEF HInv, RecoveryOwns
<1>3. RemovalsHeld' /\ (\A n \in Ids : ~(LiveRepublish(n)')) /\ \A n \in Ids : ops'[n] = ops[n]
  BY <1>0, <1>1, <1>2, HeldContinues DEF HInv, LiveRepublish, Ended, At
<1>4. ASSUME NEW m \in Ids, Standing(m), KeptAway(m)
      PROVE  ops[m].track \notin records'
  <2> SUFFICES ASSUME NEW q \in published, q \notin unpublishing, ops[q].track = ops[m].track
               PROVE  FALSE
    BY <1>0 DEF TracksOf
  <2>1. q = ops[m].of /\ ops[m].kind = "unpublish" /\ q \in Ids
    BY <1>4 DEF KeptAway, Standing, IInv, PublishedDone
  <2>2. Removal(m)
    BY <2>1 DEF JInv, OneOfATrack, RInv, RemovalsOfSession, Removal, Current
  <2>3. Ended(m)
    BY <2>1, <2>2 DEF JInv, RInv, RemovalsIntended
  <2>4. At(m, "failed")
    BY <2>1, <2>2, <2>3 DEF JInv, RInv, RemovedIsGone, HInv, RemovalsHeld, Ended, At
  <2> QED BY <1>4, <2>2, <2>3, <2>4 DEF HInv, RemovalsHeld, Standing
<1>5. ASSUME NEW n \in Ids, ops[n].kind = "publish", At(n, "done"), Survives(ops[n].track)
      PROVE  Unpublished(n) \/ (ops[n].track \in records' /\ Published(ops[n].track))
  <2>1. PICK q \in published : ops[q].track = ops[n].track
    BY <1>0, <1>5 DEF Survives, Listed, Published
  <2>2. CASE q \notin unpublishing
    BY <1>0, <2>1, <2>2 DEF TracksOf, Published
  <2>3. CASE q \in unpublishing
    <3>1. PICK m \in Ids : Removal(m) /\ ops[m].of = q
      BY <2>3 DEF HInv, RemovalsHeld
    <3>2. /\ q < m /\ ops[m].track = ops[n].track /\ ops[m].kind = "unpublish"
          /\ n \in Nat /\ q \in Nat /\ m \in Nat
      BY <2>1, <3>1, IdsAreNumbers DEF HInv, InOrder, IInv, RemovalsOfDone, Removal, PublishedDone
    <3>3. ~(q < n)
      BY <1>5, <2>1 DEF HInv, InOrder, IInv, PublishedDone
    <3>4. n < m
      BY <3>2, <3>3
    <3> QED BY <3>2, <3>4 DEF Unpublished
  <2> QED BY <2>2, <2>3
<1>6. \A n \in Ids : ops[n].kind = "publish" /\ ~Ended(n) => ops'[n].stage # "done"
  BY <1>3 DEF Ended
<1> QED BY <1>0, <1>1, <1>2, <1>3, <1>4, <1>5, <1>6, RecoveryHistory

\* The session ends.
LEMMA TearDownHistory ==
  ASSUME IInv, HInv, TearDown, driver \in {"restarting", "backoff"}, UNCHANGED records,
         \/ driver' = "connecting" /\ full' /\ active' = active
         \/ driver' = "idle" /\ ~active'
  PROVE  HInv'
<1>0. /\ room' = "Disconnected" /\ published' = {} /\ unpublishing' = {} /\ waiters' = {}
      /\ active
  BY DEF TearDown, HInv, RecoveryOwns
<1>1. Continues
  BY TearDownContinues
<1>2. /\ \A n \in Ids : ~(Current(n)')
      /\ \A n \in Ids : ~Ended(n) => ops'[n].stage # "done"
  BY TearDownPasses DEF Ended
<1>3. RemovalsHeld'
  BY <1>0, <1>1, <1>2 DEF RemovalsHeld, Removal, Continues
<1>4. \A n \in Ids : ~(LiveRepublish(n)')
  BY <1>1, EndedStay DEF HInv, RecoveryOwns, LiveRepublish, Continues
<1>5. ~Listed'
  BY <1>0 DEF Listed
<1>6. /\ \A m \in Ids : KeptAway(m) => (active' => ops[m].track \notin records')
      /\ \A n \in Ids : Survives(ops[n].track) => (active' => ops[n].track \in records')
  BY <1>0 DEF KeptAway, Survives
<1> QED BY <1>0, <1>1, <1>2, <1>3, <1>4, <1>5, <1>6, RecoveryHistory

\* A new session, in which the records take their turns.
LEMMA RejoinHistory ==
  ASSUME IInv, HInv, Rejoin
  PROVE  HInv'
<1> USE DEF negotiationVars
<1>0. /\ driver = "connecting" /\ driver' = "republishing" /\ queue' = records
      /\ UNCHANGED <<ops, active, full, generation, published, unpublishing, records, waiters>>
  BY DEF Rejoin
<1>1. Continues
  BY <1>0, StillContinues
<1>2. active /\ full /\ Resume \notin waiters /\ \A n \in Ids : ~LiveRepublish(n)
  BY <1>0 DEF HInv, RecoveryOwns
<1>3. RemovalsHeld' /\ (\A n \in Ids : ~(LiveRepublish(n)')) /\ \A n \in Ids : ops'[n] = ops[n]
  BY <1>0, <1>1, <1>2, HeldContinues DEF HInv, LiveRepublish, Ended, At
<1>4. ~Listed'
  BY <1>0, <1>2 DEF Listed
<1>5. /\ \A m \in Ids : KeptAway(m) => ops[m].track \notin records
      /\ \A n \in Ids : Survives(ops[n].track) => ops[n].track \in records
  BY <1>2 DEF KeptAway, Survives
<1>6. \A n \in Ids : ops[n].kind = "publish" /\ ~Ended(n) => ops'[n].stage # "done"
  BY <1>3 DEF Ended
<1> QED BY <1>0, <1>1, <1>2, <1>3, <1>4, <1>5, <1>6, RecoveryHistory

LEMMA RecoveryStepHistory ==
  ASSUME IInv, JInv, HInv, Recovery \/ BreakLink \/ RestartFails
  PROVE  HInv'
<1> USE DEF recoveryVars, linkVars, bookVars, negotiationVars
<1>0. /\ driver # "idle" => active
      /\ Resume \in waiters => driver = "resuming"
      /\ driver # "republishing" => \A n \in Ids : ~LiveRepublish(n)
      /\ Republished => \A n \in Ids : ~LiveRepublish(n)
      /\ driver \in {"connecting stream", "resuming", "resumed"} => ~full
      /\ active /\ driver \in {"connecting", "republishing"} => full
  BY DEF HInv, RecoveryOwns, Republished, Republishing, LiveRepublish
<1>1. CASE BreakLink
  BY <1>1, StillHistory DEF BreakLink
<1>2. CASE NoticeClose
  BY <1>2, StillHistory DEF NoticeClose
<1>3. CASE StartReconnect
  BY <1>3, StartReconnectHistory
<1>4. CASE BeginAttempt
  <2>1. \A t : Listed' /\ Survives(t) => Published(t)
    BY <1>4 DEF BeginAttempt, Listed, Survives
  <2> QED BY <1>0, <1>4, <2>1, RecoveryGoesOn DEF BeginAttempt
<1>5. CASE ResumeStream
  <2>1. \A t : Listed' /\ Survives(t) => Published(t)
    BY <1>5 DEF ResumeStream, Listed, Survives
  <2>2. waiters' = waiters \cup {Resume}
    BY <1>5 DEF ResumeStream, Negotiate
  <2> QED BY <1>0, <1>5, <2>1, <2>2, RecoveryGoesOn DEF ResumeStream
<1>6. CASE ResumeFails
  <2>1. \A t : Listed' /\ Survives(t) => Published(t)
    BY <1>6 DEF ResumeFails, Listed, Survives
  <2> QED BY <1>0, <1>6, <2>1, RecoveryGoesOn DEF ResumeFails
<1>7. CASE CommitResume
  <2>1. \A t : Listed' /\ Survives(t) => Published(t)
    BY <1>0, <1>7 DEF CommitResume, Listed, Survives
  <2> QED BY <1>0, <1>7, <2>1, RecoveryGoesOn DEF CommitResume
<1>8. CASE Restart
  BY <1>8, TearDownHistory DEF Restart
<1>9. CASE GiveUp
  BY <1>9, TearDownHistory DEF GiveUp
<1>10. CASE Rejoin
  BY <1>10, RejoinHistory
<1>11. CASE RestartFails
  <2>1. /\ driver' = "backoff" /\ active /\ full /\ Resume \notin waiters
        /\ \A n \in Ids : ~LiveRepublish(n)
    BY <1>0, <1>11 DEF RestartFails, AttemptFails, Republished
  <2>2. \A t : Listed' /\ Survives(t) => Published(t)
    BY <1>11, <2>1 DEF RestartFails, Listed
  <2> QED BY <1>11, <2>1, <2>2, RecoveryGoesOn DEF RestartFails
<1>12. CASE CommitRestart
  <2>1. /\ driver = "republishing" /\ driver' = "idle" /\ active /\ full /\ Resume \notin waiters
        /\ queue = {} /\ \A n \in Ids : ~LiveRepublish(n)
    BY <1>0, <1>12 DEF CommitRestart, Republished
  <2>2. \A t : Survives(t) => Published(t)
    BY <2>1 DEF Survives
  <2> QED BY <1>12, <2>1, <2>2, RecoveryGoesOn DEF CommitRestart
<1>13. CASE \E t \in Tracks : Republish(t)
  <2>1. PICK t \in Tracks : Republish(t)
    BY <1>13
  <2>2. CASE room = "Connected"
    BY <2>1, <2>2, RepublishBeginsHistory
  <2>3. CASE room # "Connected"
    <3>1. /\ driver' = "backoff" /\ active /\ full /\ Resume \notin waiters
          /\ \A n \in Ids : ~LiveRepublish(n)
      BY <1>0, <2>1, <2>3 DEF Republish, AttemptFails, Republishing, LiveRepublish
    <3>2. \A u : Listed' /\ Survives(u) => Published(u)
      BY <2>1, <3>1 DEF Republish, Listed
    <3> QED BY <2>1, <2>3, <3>1, <3>2, RecoveryGoesOn DEF Republish
  <2> QED BY <2>2, <2>3
<1> QED
  BY <1>1, <1>2, <1>3, <1>4, <1>5, <1>6, <1>7, <1>8, <1>9, <1>10, <1>11, <1>12, <1>13
     DEF Recovery

-----------------------------------------------------------------------------
(* The past of a track: the invariant.                                     *)

LEMMA InitHistory ==
  ASSUME Init
  PROVE  HInv
<1>1. /\ Ids = {} /\ published = {} /\ unpublishing = {} /\ waiters = {}
      /\ driver = "idle" /\ active = FALSE
  BY DEF Init, Ids
<1> QED BY <1>1 DEF HInv, InOrder, RemovalsHeld, RecoveryOwns, RemovedStays, PublishedSurvive

LEMMA StepHistory ==
  ASSUME IInv, JInv, HInv, [Next]_vars
  PROVE  HInv'
<1>1. CASE \E t \in Tracks : Publish(t)
  BY <1>1, PublishHistory
<1>2. CASE \E p \in published : Unpublish(p)
  BY <1>2, UnpublishHistory
<1>3. CASE \E n \in Ids : Timeout(n)
  BY <1>3, StagesHistory
<1>4. CASE \E n \in Ids : Transaction(n)
  <2>1. PICK n \in Ids : Transaction(n)
    BY <1>4
  <2> QED
    BY <2>1, AcknowledgeHistory, StagesHistory, CommitPublishHistory, RollBackHistory,
       NegotiateRemovalHistory, CommitUnpublishHistory, UnpublishFailsHistory DEF Transaction
<1>5. CASE Negotiation \/ OfferFails \/ SetLocalFails \/ RefuseAnswer
  BY <1>5, NegotiationHistory
<1>6. CASE Recovery \/ BreakLink \/ RestartFails
  BY <1>6, RecoveryStepHistory
<1>7. CASE UNCHANGED vars
  BY <1>7, StillHistory DEF vars, recoveryVars, linkVars, bookVars, negotiationVars
<1> QED BY <1>1, <1>2, <1>3, <1>4, <1>5, <1>6, <1>7 DEF Next

\* Transactions keep the order of their tracks, and the books of a recovery
\* what was published and not removed (RecordPublishedTracks,
\* PendingLocalUnpublish).
THEOREM HistoryInvariant == Spec => [](IInv /\ JInv /\ HInv)
<1>1. Init => HInv
  BY InitHistory
<1>2. (IInv /\ JInv) /\ HInv /\ [Next]_vars => HInv'
  BY StepHistory
<1> QED BY <1>1, <1>2, BothHold, PTL DEF Spec

\* However a removal, the recovery and the restart interleave, a track whose
\* sender the application has had removed is not published again by a restart,
\* even when the removal was never confirmed, unless it was removed while a
\* restart was publishing (PendingLocalUnpublish, RecordPublishedTracks).
THEOREM RemovedTracksStayRemoved == Spec => []RemovedStaysRemoved
<1>1. IInv /\ HInv => RemovedStaysRemoved
  <2> SUFFICES ASSUME IInv, HInv, NEW m \in Ids, ops[m].kind = "unpublish", ops[m].removed,
                      ops[m].calm, NEW n \in Republishes(ops[m].track, m)
               PROVE  \E k \in m .. n : ops[k].kind = "publish" /\ ops[k].track = ops[m].track
    BY DEF RemovedStaysRemoved
  <2>1. n \in Ids /\ m < n /\ ops[n].kind = "republish" /\ ops[n].track = ops[m].track
    BY DEF Republishes
  <2>2. PICK k \in Ids : m < k /\ k < n /\ ops[k].kind = "publish" /\ ops[k].track = ops[m].track
    BY <2>1 DEF HInv, RemovedStays, Standing, PublishedAgain
  <2>3. k \in m .. n
    BY <2>1, <2>2, IdsAreNumbers DEF IInv
  <2> QED BY <2>2, <2>3
<1> QED BY <1>1, HistoryInvariant, PTL

\* What the application published stays published through any recovery that
\* succeeds, resumed or restarted, until the application removes it, unless it
\* was committed while the recovery was under way (RecordPublishedTracks,
\* RepublishLocalTracks).
THEOREM PublicationsAreKept == Spec => []PublicationsSurvive
<1>1. HInv => PublicationsSurvive
  <2> SUFFICES ASSUME HInv, room = "Connected", ~active,
                      NEW n \in Ids, ops[n].kind = "publish", At(n, "done"), ops[n].calm
               PROVE  \/ ops[n].track \in TracksOf(published)
                      \/ \E m \in Ids : m > n /\ ops[m].track = ops[n].track
                                              /\ ops[m].kind = "unpublish"
    BY DEF PublicationsSurvive
  <2>1. CASE Unpublished(n)
    BY <2>1 DEF Unpublished
  <2>2. CASE Survives(ops[n].track)
    BY <2>2 DEF Survives, Listed, Published, TracksOf
  <2> QED BY <2>1, <2>2 DEF HInv, PublishedSurvive
<1> QED BY <1>1, HistoryInvariant, PTL

=============================================================================
