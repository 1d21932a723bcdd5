---------------------- MODULE LocalPublication_proofs ----------------------
(* Proofs about LocalPublication, for any tracks and any bounds.           *)
EXTENDS LocalPublication, TLAPS

Kinds == {"publish", "republish", "unpublish"}
OpRecords == [kind : Kinds, track : Tracks, of : Nat, stage : Stages,
              gen : Nat, removed : BOOLEAN, calm : BOOLEAN]

-----------------------------------------------------------------------------
(* The inductive invariant.                                                *)

\* The transactions, and what the room's books say of them.
OpsType ==
  /\ ops \in Seq(OpRecords)
  /\ generation \in Nat
  /\ \A n \in Ids : ops[n].gen <= generation

\* The control states.
ControlType ==
  /\ room \in {"Connected", "Reconnecting", "Disconnected"}
  /\ driver \in {"idle", "backoff", "connecting stream", "resuming", "resumed",
                 "restarting", "connecting", "republishing"}
  /\ link \in {"open", "broken"} /\ signaling \in {"stable", "offer"}
  /\ negotiation \in {"Idle", "InProgress", "PendingRetry"}
  /\ creating \in BOOLEAN /\ timer \in BOOLEAN

\* The sets of transactions.
SetsType ==
  /\ tasks \in Seq(Nat) /\ \A i \in DOMAIN tasks : tasks[i] \in Ids
  /\ unpublishing \subseteq Ids /\ answered \subseteq Ids
  /\ offer = None \/ offer \subseteq Ids
  /\ answer = None \/ answer \subseteq Ids

\* One offer at a time: it is being made, given to the connection, or
\* answered.  The timer waits only for an answer that will not come.
OneOffer ==
  /\ creating => negotiation # "Idle" /\ signaling = "stable" /\ offer = None /\ answer = None
  /\ offer # None => negotiation # "Idle" /\ signaling = "stable" /\ answer = None
  /\ answer # None => negotiation # "Idle" /\ signaling = "offer"
  /\ timer => signaling = "offer" /\ answer = None

\* The waiters wait.
WaitersWait == waiters \subseteq {n \in Ids : At(n, "negotiating")} \cup {Resume}

\* A publication is a publish that has ended well.
PublishedDone ==
  \A p \in published : p \in Ids /\ At(p, "done") /\ ops[p].kind # "unpublish"

\* A removal is of such a publication, and has stages of its own.
PublishStages == {"acking", "acked", "refused", "installing", "installed"}
RemovalsOfDone ==
  \A m \in Ids : ops[m].kind = "unpublish" => ops[m].stage \notin PublishStages /\
    LET p == ops[m].of
    IN  p \in Ids /\ At(p, "done") /\ ops[p].kind # "unpublish" /\ ops[p].track = ops[m].track

\* Who has a sender.
Owned ==
  \A n \in senders : n \in Ids /\ ops[n].kind # "unpublish" /\ (n \in published \/ ~Ended(n))

\* A removal past the signaling thread has taken the sender away.
RemovedAway ==
  \A m \in Ids :
    (ops[m].kind = "unpublish" /\ ops[m].stage \in {"removed", "negotiating", "negotiated"}
     /\ Current(m)) => ops[m].of \notin senders

IInv ==
  /\ OpsType /\ ControlType /\ SetsType
  /\ OneOffer /\ WaitersWait /\ PublishedDone /\ RemovalsOfDone /\ Owned /\ RemovedAway

-----------------------------------------------------------------------------
(* What a step does to the transactions.                                   *)

LEMMA IdsAreNumbers ==
  ASSUME OpsType
  PROVE  Ids = 1 .. Len(ops) /\ Len(ops) \in Nat /\ Resume \notin Ids
BY DEF OpsType, Ids, Resume

\* MoveAll changes nothing but stages.
LEMMA MoveAllKeeps ==
  ASSUME OpsType, NEW S, NEW st \in Stages, MoveAll(S, st)
  PROVE  /\ ops' \in Seq(OpRecords) /\ Ids' = Ids
         /\ \A n \in Ids : /\ ops'[n].kind = ops[n].kind /\ ops'[n].track = ops[n].track
                           /\ ops'[n].of = ops[n].of /\ ops'[n].gen = ops[n].gen
                           /\ ops'[n].stage = IF n \in S THEN st ELSE ops[n].stage
<1>1. Ids = 1 .. Len(ops) /\ Len(ops) \in Nat
  BY IdsAreNumbers
<1>2. \A n \in Ids : ops[n] \in OpRecords
  BY DEF OpsType, Ids
<1>3. \A n \in Ids : ops'[n] \in OpRecords
  BY <1>2 DEF MoveAll, OpRecords
<1>4. ops' \in [1 .. Len(ops) -> OpRecords]
  BY <1>1, <1>3 DEF MoveAll
<1>5. ops' \in Seq(OpRecords) /\ Ids' = Ids
  BY <1>1, <1>4 DEF Ids
<1>6. QED
  BY <1>2, <1>5 DEF MoveAll, OpRecords

\* The transactions are the same, and what has ended well stays so.
Kept ==
  /\ ops' \in Seq(OpRecords) /\ Ids' = Ids
  /\ \A n \in Ids : /\ ops'[n].kind = ops[n].kind /\ ops'[n].track = ops[n].track
                    /\ ops'[n].of = ops[n].of /\ ops'[n].gen = ops[n].gen
                    /\ ops[n].stage = "done" => ops'[n].stage = "done"
                    /\ ops'[n].stage \in PublishStages => ops[n].kind # "unpublish"

LEMMA KeptTransactions ==
  ASSUME OpsType, RemovalsOfDone, Kept, generation' \in Nat, generation <= generation'
  PROVE  OpsType' /\ RemovalsOfDone'
<1>1. \A n \in Ids : ops[n] \in OpRecords /\ ops'[n] \in OpRecords
  BY DEF OpsType, Kept, Ids
<1>2. OpsType'
  <2>1. \A n \in Ids : ops[n].gen \in Nat /\ ops[n].gen <= generation /\ ops'[n].gen = ops[n].gen
    BY <1>1 DEF OpsType, Kept, OpRecords
  <2>2. \A n \in Ids : ops'[n].gen <= generation'
    BY <2>1 DEF OpsType
  <2>3. QED
    BY <2>2 DEF OpsType, Kept
<1>3. RemovalsOfDone'
  BY DEF RemovalsOfDone, Kept, At
<1>4. QED
  BY <1>2, <1>3

LEMMA NothingMoves ==
  ASSUME OpsType, RemovalsOfDone, UNCHANGED ops
  PROVE  Kept
BY DEF OpsType, RemovalsOfDone, Kept, Ids

LEMMA MovesKeep ==
  ASSUME OpsType, RemovalsOfDone, NEW S, NEW st \in Stages, MoveAll(S, st),
         \A n \in S \cap Ids : ops[n].stage # "done",
         \A n \in S \cap Ids : st \in PublishStages => ops[n].kind # "unpublish"
  PROVE  Kept
BY MoveAllKeeps DEF Kept, RemovalsOfDone

-----------------------------------------------------------------------------
(* The ways in which a step changes the transactions.                      *)

\* Nothing of them, of the publications or of the senders.
LEMMA TransactionsStay ==
  ASSUME IInv, UNCHANGED <<ops, generation, published, senders>>
  PROVE  OpsType' /\ RemovalsOfDone' /\ PublishedDone' /\ Owned' /\ RemovedAway' /\ Ids' = Ids
<1>1. Kept
  BY NothingMoves DEF IInv
<1>2. OpsType' /\ RemovalsOfDone'
  BY <1>1, KeptTransactions DEF IInv, OpsType
<1>3. PublishedDone' /\ Owned' /\ RemovedAway' /\ Ids' = Ids
  BY DEF IInv, PublishedDone, Owned, RemovedAway, Ids, At, Ended, Current
<1>4. QED
  BY <1>2, <1>3

\* A stage that a removal reaches after the signaling thread has run.
Past == {"removed", "negotiating", "negotiated"}

\* Some move to another stage.
LEMMA TransactionsMove ==
  ASSUME IInv, NEW S, NEW st \in Stages \ {"done"}, MoveAll(S, st),
         UNCHANGED <<generation, published>>, senders' \subseteq senders,
         \A n \in S \cap Ids : ops[n].stage # "done",
         \A n \in S \cap Ids : st \in PublishStages => ops[n].kind # "unpublish",
         \A n \in S \cap senders' : st \notin {"failed", "uncertain"},
         \A n \in S \cap Ids :
           st \in Past /\ ops[n].kind = "unpublish" /\ Current(n)
             => ops[n].stage \in Past \/ ops[n].of \notin senders'
  PROVE  OpsType' /\ RemovalsOfDone' /\ PublishedDone' /\ Owned' /\ RemovedAway' /\ Ids' = Ids
<1>1. Kept /\ Ids' = Ids
  BY MovesKeep DEF IInv, Kept
<1>2. OpsType' /\ RemovalsOfDone'
  BY <1>1, KeptTransactions DEF IInv, OpsType
<1>3. \A n \in Ids : ops'[n].stage = IF n \in S THEN st ELSE ops[n].stage
  BY MoveAllKeeps DEF IInv
<1>4. PublishedDone'
  BY <1>1, <1>3 DEF IInv, PublishedDone, At, Kept
<1>5. Owned'
  BY <1>1, <1>3 DEF IInv, Owned, Ended, Kept
<1>6. RemovedAway'
  BY <1>1, <1>3 DEF IInv, RemovedAway, Current, Kept, Past
<1>7. QED
  BY <1>1, <1>2, <1>4, <1>5, <1>6

\* One begins.
LEMMA TransactionBegins ==
  ASSUME IInv, NEW op \in OpRecords, ops' = Append(ops, op), op.gen = generation,
         op.stage \notin Past, UNCHANGED <<generation, published, senders>>,
         op.kind = "unpublish" => /\ op.stage \notin PublishStages
                                  /\ op.of \in Ids /\ At(op.of, "done")
                                  /\ ops[op.of].kind # "unpublish"
                                  /\ ops[op.of].track = op.track
  PROVE  /\ OpsType' /\ RemovalsOfDone' /\ PublishedDone' /\ Owned' /\ RemovedAway'
         /\ Ids' = Ids \cup {Len(ops) + 1} /\ \A n \in Ids : ops'[n] = ops[n]
<1>1. Ids = 1 .. Len(ops) /\ Len(ops) \in Nat /\ ops \in Seq(OpRecords)
  BY IdsAreNumbers DEF IInv, OpsType
<1>2. /\ ops' \in Seq(OpRecords) /\ Len(ops') = Len(ops) + 1
      /\ ops'[Len(ops) + 1] = op /\ \A n \in 1 .. Len(ops) : ops'[n] = ops[n]
  BY <1>1
<1>3. Ids' = Ids \cup {Len(ops) + 1}
  BY <1>1, <1>2 DEF Ids
<1>4. \A n \in Ids : ops'[n] = ops[n]
  BY <1>1, <1>2
<1>5. OpsType'
  <2>1. \A n \in Ids' : ops'[n].gen <= generation
    <3>1. generation \in Nat /\ generation <= generation
      BY DEF IInv, OpsType
    <3>2. op.gen <= generation /\ \A n \in Ids : ops[n].gen <= generation
      BY <3>1 DEF IInv, OpsType
    <3>3. QED
      BY <1>2, <1>3, <1>4, <3>2
  <2>2. QED
    BY <1>2, <2>1 DEF IInv, OpsType
<1>6. RemovalsOfDone'
  <2>1. SUFFICES ASSUME NEW m \in Ids', ops'[m].kind = "unpublish"
                 PROVE  /\ ops'[m].stage \notin PublishStages
                        /\ ops'[m].of \in Ids' /\ ops'[ops'[m].of].stage = "done"
                        /\ ops'[ops'[m].of].kind # "unpublish"
                        /\ ops'[ops'[m].of].track = ops'[m].track
    BY DEF RemovalsOfDone, At
  <2>2. CASE m \in Ids
    BY ZenonT(30), <1>3, <1>4, <2>1, <2>2 DEF IInv, RemovalsOfDone, At
  <2>3. CASE m \notin Ids
    <3>1. ops'[m] = op
      BY <1>2, <1>3, <2>3
    <3>2. QED
      BY <1>3, <1>4, <2>1, <3>1 DEF At
  <2>4. QED
    BY <2>2, <2>3
<1>7. PublishedDone' /\ Owned'
  <2>1. PublishedDone'
    BY <1>3, <1>4 DEF IInv, PublishedDone, At
  <2>2. Owned'
    BY <1>3, <1>4 DEF IInv, Owned, Ended
  <2>3. QED
    BY <2>1, <2>2
<1>8. RemovedAway'
  <2>1. SUFFICES ASSUME NEW m \in Ids', ops'[m].kind = "unpublish", ops'[m].stage \in Past,
                        Current(m)'
                 PROVE  ops'[m].of \notin senders'
    BY DEF RemovedAway, Past
  <2>2. m \in Ids /\ ops'[m] = ops[m]
    BY <1>1, <1>2, <1>3, <1>4, <2>1
  <2>3. QED
    BY <2>1, <2>2 DEF IInv, RemovedAway, Current, Past
<1>9. QED
  BY <1>3, <1>4, <1>5, <1>6, <1>7, <1>8

\* No one who waits is moved.
LEMMA WaitersStay ==
  ASSUME IInv, NEW S, NEW st \in Stages, MoveAll(S, st), waiters' \subseteq waiters \ S
  PROVE  WaitersWait'
<1>1. Ids' = Ids /\ \A n \in Ids : n \notin S => ops'[n].stage = ops[n].stage
  BY MoveAllKeeps DEF IInv
<1>2. QED
  BY <1>1 DEF IInv, WaitersWait, At

\* The sets of transactions are of the same.
LEMMA SetsStay ==
  ASSUME IInv, Ids \subseteq Ids', UNCHANGED tasks, unpublishing' \subseteq unpublishing,
         answered' \subseteq answered \cup Ids,
         offer' \in {offer, None} \/ offer' \subseteq Ids,
         answer' \in {answer, None} \/ answer' \subseteq Ids
  PROVE  SetsType'
BY DEF IInv, SetsType

-----------------------------------------------------------------------------
(* Negotiation.                                                            *)

LEMMA NegotiateKeeps ==
  ASSUME IInv, NEW S, Negotiate(S), UNCHANGED <<signaling, offer, answer>>
  PROVE  /\ creating' \in BOOLEAN /\ timer' \in BOOLEAN
         /\ negotiation' \in {"Idle", "InProgress", "PendingRetry"} /\ OneOffer'
BY DEF IInv, Negotiate, Execute, ControlType, OneOffer

\* A round that ends moves its waiters.
LEMMA CompleteKeeps ==
  ASSUME IInv, NEW st \in {"negotiated", "failing"}, Complete(st),
         UNCHANGED <<generation, published, senders>>
  PROVE  /\ OpsType' /\ RemovalsOfDone' /\ PublishedDone' /\ Owned' /\ RemovedAway'
         /\ Ids' = Ids /\ WaitersWait' /\ driver' \in {driver, "resumed", "restarting"}
<1>1. \A n \in waiters \cap Ids : ops[n].stage = "negotiating"
  BY IdsAreNumbers DEF IInv, WaitersWait, At
<1>2. st \in Stages \ {"done"} /\ MoveAll(waiters, st) /\ waiters' = {}
  BY DEF Complete, Stages
<1>3. /\ OpsType' /\ RemovalsOfDone' /\ PublishedDone' /\ Owned' /\ RemovedAway'
      /\ Ids' = Ids
  BY <1>1, <1>2, TransactionsMove DEF Past, PublishStages
<1>4. WaitersWait' /\ driver' \in {driver, "resumed", "restarting"}
  BY DEF Complete, WaitersWait
<1>5. QED
  BY <1>3, <1>4

LEMMA CreateOfferKeeps ==
  ASSUME IInv, CreateOffer
  PROVE  IInv'
<1> USE DEF CreateOffer, recoveryVars, linkVars, bookVars, negotiationVars
<1>1. /\ OpsType' /\ RemovalsOfDone' /\ PublishedDone' /\ Owned' /\ RemovedAway'
      /\ Ids' = Ids
  BY TransactionsStay
<1>2. SetsType'
  BY <1>1, SetsStay DEF IInv, Owned
<1>3. ControlType' /\ OneOffer' /\ WaitersWait'
  BY <1>1 DEF IInv, ControlType, OneOffer, WaitersWait, At
<1>4. QED
  BY <1>1, <1>2, <1>3 DEF IInv

LEMMA SendOfferKeeps ==
  ASSUME IInv, SendOffer
  PROVE  IInv'
<1> USE DEF SendOffer, bookVars
<1>1. CASE link = "open"
  <2>1. /\ OpsType' /\ RemovalsOfDone' /\ PublishedDone' /\ Owned' /\ RemovedAway'
        /\ Ids' = Ids
    BY <1>1, TransactionsStay
  <2>2. SetsType'
    BY <1>1, <2>1, SetsStay DEF IInv, SetsType
  <2>3. ControlType' /\ OneOffer' /\ WaitersWait'
    BY <1>1, <2>1 DEF IInv, ControlType, OneOffer, WaitersWait, At
  <2>4. QED
    BY <2>1, <2>2, <2>3 DEF IInv
<1>2. CASE link # "open"
  <2>1. /\ OpsType' /\ RemovalsOfDone' /\ PublishedDone' /\ Owned' /\ RemovedAway'
        /\ Ids' = Ids /\ WaitersWait' /\ driver' \in {driver, "resumed", "restarting"}
    BY <1>2, CompleteKeeps
  <2>2. SetsType'
    BY <1>2, <2>1, SetsStay
  <2>3. ControlType' /\ OneOffer'
    BY <1>2, <2>1 DEF IInv, ControlType, OneOffer
  <2>4. QED
    BY <2>1, <2>2, <2>3 DEF IInv
<1>3. QED
  BY <1>1, <1>2

LEMMA OfferFailsKeeps ==
  ASSUME IInv, OfferFails \/ SetLocalFails
  PROVE  IInv'
<1> USE DEF OfferFails, SetLocalFails, OnNegotiationFailed, linkVars, bookVars
<1>1. /\ OpsType' /\ RemovalsOfDone' /\ PublishedDone' /\ Owned' /\ RemovedAway'
      /\ Ids' = Ids /\ WaitersWait' /\ driver' \in {driver, "resumed", "restarting"}
  BY CompleteKeeps
<1>2. SetsType'
  BY <1>1, SetsStay
<1>3. ControlType'
  BY <1>1 DEF IInv, ControlType
<1>4. OneOffer'
  <2>1. ~creating' /\ offer' = None /\ negotiation' = "Idle"
        /\ UNCHANGED <<signaling, answer, timer>>
    BY DEF IInv, OneOffer
  <2>2. QED
    BY <2>1 DEF IInv, OneOffer
<1>5. QED
  BY <1>1, <1>2, <1>3, <1>4 DEF IInv

LEMMA ApplyAnswerKeeps ==
  ASSUME IInv, ApplyAnswer
  PROVE  IInv'
<1> USE DEF ApplyAnswer, bookVars
<1>1. CASE negotiation = "PendingRetry"
  <2>1. /\ OpsType' /\ RemovalsOfDone' /\ PublishedDone' /\ Owned' /\ RemovedAway'
        /\ Ids' = Ids
    BY <1>1, TransactionsStay
  <2>2. ControlType' /\ OneOffer' /\ WaitersWait'
    BY <1>1, <2>1 DEF IInv, ControlType, OneOffer, WaitersWait, At, Execute
  <2>3. SetsType'
    BY <2>1, SetsStay DEF IInv, SetsType
  <2>4. QED
    BY <2>1, <2>2, <2>3 DEF IInv
<1>2. CASE negotiation # "PendingRetry"
  <2>1. /\ OpsType' /\ RemovalsOfDone' /\ PublishedDone' /\ Owned' /\ RemovedAway'
        /\ Ids' = Ids /\ WaitersWait' /\ driver' \in {driver, "resumed", "restarting"}
    BY <1>2, CompleteKeeps
  <2>2. SetsType'
    BY <2>1, SetsStay DEF IInv, SetsType
  <2>3. ControlType' /\ OneOffer'
    BY <1>2, <2>1 DEF IInv, ControlType, OneOffer
  <2>4. QED
    BY <2>1, <2>2, <2>3 DEF IInv
<1>3. QED
  BY <1>1, <1>2

LEMMA RefuseAnswerKeeps ==
  ASSUME IInv, RefuseAnswer
  PROVE  IInv'
<1> USE DEF RefuseAnswer, bookVars
<1>1. /\ OpsType' /\ RemovalsOfDone' /\ PublishedDone' /\ Owned' /\ RemovedAway'
      /\ Ids' = Ids /\ WaitersWait' /\ driver' \in {driver, "resumed", "restarting"}
  BY CompleteKeeps
<1>2. SetsType'
  BY <1>1, SetsStay
<1>3. ControlType' /\ OneOffer'
  BY <1>1 DEF IInv, ControlType, OneOffer, Execute
<1>4. QED
  BY <1>1, <1>2, <1>3 DEF IInv

LEMMA RetryTimerKeeps ==
  ASSUME IInv, RetryTimer
  PROVE  IInv'
<1> USE DEF RetryTimer, recoveryVars, linkVars, bookVars
<1>1. /\ OpsType' /\ RemovalsOfDone' /\ PublishedDone' /\ Owned' /\ RemovedAway'
      /\ Ids' = Ids
  BY TransactionsStay
<1>2. SetsType'
  BY <1>1, SetsStay
<1>3. ControlType' /\ OneOffer' /\ WaitersWait'
  BY <1>1 DEF IInv, ControlType, OneOffer, WaitersWait, At, Execute
<1>4. QED
  BY <1>1, <1>2, <1>3 DEF IInv

-----------------------------------------------------------------------------
(* Publishing.                                                             *)

LEMMA PublishTrackKeeps ==
  ASSUME IInv, NEW kind \in {"publish", "republish"}, NEW t \in Tracks, PublishTrack(kind, t),
         UNCHANGED <<generation, answer, published, unpublishing, waiters, pcVars>>
  PROVE  /\ OpsType' /\ RemovalsOfDone' /\ PublishedDone' /\ Owned' /\ RemovedAway'
         /\ SetsType' /\ WaitersWait'
<1> DEFINE op == Operation(kind, t, Len(ops) + 1, IF link = "open" THEN "acking" ELSE "refused")
<1>1. op \in OpRecords /\ op.gen = generation /\ op.stage \notin Past /\ op.kind # "unpublish"
  BY IdsAreNumbers DEF IInv, Operation, OpRecords, Kinds, Stages, Past, OpsType
<1>2. ops' = Append(ops, op)
  BY DEF PublishTrack
<1>3. /\ OpsType' /\ RemovalsOfDone' /\ PublishedDone' /\ Owned' /\ RemovedAway'
      /\ Ids' = Ids \cup {Len(ops) + 1} /\ \A n \in Ids : ops'[n] = ops[n]
  <2> HIDE DEF op
  <2>1. QED
    BY <1>1, <1>2, TransactionBegins DEF pcVars
<1>4. SetsType'
  BY <1>3, SetsStay DEF pcVars
<1>5. WaitersWait'
  BY <1>3 DEF IInv, WaitersWait, At
<1>6. QED
  BY <1>3, <1>4, <1>5

LEMMA PublishKeeps ==
  ASSUME IInv, NEW t \in Tracks, Publish(t)
  PROVE  IInv'
<1>1. /\ OpsType' /\ RemovalsOfDone' /\ PublishedDone' /\ Owned' /\ RemovedAway'
      /\ SetsType' /\ WaitersWait'
  BY PublishTrackKeeps DEF Publish, recoveryVars, bookVars, negotiationVars
<1>2. ControlType' /\ OneOffer'
  BY DEF IInv, ControlType, OneOffer, Publish, recoveryVars, pcVars, negotiationVars
<1>3. QED
  BY <1>1, <1>2 DEF IInv

LEMMA AcknowledgeKeeps ==
  ASSUME IInv, NEW n \in Ids, Acknowledge(n)
  PROVE  IInv'
<1> USE DEF Acknowledge, recoveryVars, bookVars, pcVars, negotiationVars
<1> DEFINE S == {m \in Ids : At(m, "acking") /\ ops[m].track = ops[n].track}
<1>1. MoveAll(S, "acked") /\ S \cap waiters = {}
  BY IdsAreNumbers DEF IInv, WaitersWait, At
<1>2. /\ OpsType' /\ RemovalsOfDone' /\ PublishedDone' /\ Owned' /\ RemovedAway'
      /\ Ids' = Ids
  BY <1>1, TransactionsMove DEF IInv, RemovalsOfDone, PublishStages, At, Past, Stages
<1>3. WaitersWait'
  BY <1>1, WaitersStay DEF Stages
<1>4. SetsType' /\ ControlType' /\ OneOffer'
  BY ZenonT(30), <1>2, SetsStay DEF IInv, ControlType, OneOffer
<1>5. QED
  BY <1>2, <1>3, <1>4 DEF IInv

\* A transaction that is not waiting moves on.
LEMMA OneMoves ==
  ASSUME IInv, NEW n \in Ids, NEW st \in Stages \ {"done"}, Move(n, st),
         ~At(n, "done"), n \notin waiters',
         st \in PublishStages => ops[n].kind # "unpublish",
         waiters' \subseteq waiters,
         UNCHANGED <<generation, published>>, senders' \subseteq senders,
         n \in senders' => st \notin {"failed", "uncertain"},
         st \in Past /\ ops[n].kind = "unpublish" /\ Current(n)
             => ops[n].stage \in Past \/ ops[n].of \notin senders'
  PROVE  /\ OpsType' /\ RemovalsOfDone' /\ PublishedDone' /\ Owned' /\ RemovedAway'
         /\ Ids' = Ids /\ WaitersWait'
<1>1. MoveAll({n}, st)
  BY DEF Move
<1>2. /\ OpsType' /\ RemovalsOfDone' /\ PublishedDone' /\ Owned' /\ RemovedAway'
      /\ Ids' = Ids
  BY <1>1, TransactionsMove DEF At
<1>3. WaitersWait'
  BY <1>1, WaitersStay
<1>4. QED
  BY <1>2, <1>3

LEMMA PostInstallKeeps ==
  ASSUME IInv, NEW n \in Ids, PostInstall(n)
  PROVE  IInv'
<1> USE DEF PostInstall, recoveryVars, linkVars, bookVars, negotiationVars
<1>1. PICK st \in {"installing", "failing"} : Move(n, st)
  OBVIOUS
<1>2. /\ OpsType' /\ RemovalsOfDone' /\ PublishedDone' /\ Owned' /\ RemovedAway'
      /\ Ids' = Ids /\ WaitersWait'
  <2>1. n \notin waiters /\ ops[n].kind # "unpublish"
    BY IdsAreNumbers DEF IInv, WaitersWait, RemovalsOfDone, PublishStages, At
  <2>2. QED
    BY <1>1, <2>1, OneMoves DEF At, Past, Stages
<1>3. tasks' \in Seq(Nat) /\ \A i \in DOMAIN tasks' : tasks'[i] \in Ids
  <2>1. n \in Nat /\ tasks \in Seq(Nat)
    BY IdsAreNumbers DEF IInv, SetsType
  <2>2. tasks' = Append(tasks, n) \/ tasks' = tasks
    OBVIOUS
  <2>3. QED
    BY SMTT(30), <2>1, <2>2 DEF IInv, SetsType
<1>4. SetsType'
  BY <1>2, <1>3 DEF IInv, SetsType
<1>5. ControlType' /\ OneOffer'
  BY DEF IInv, ControlType, OneOffer
<1>6. QED
  BY <1>2, <1>4, <1>5 DEF IInv

LEMMA TasksGoOn ==
  ASSUME IInv, tasks # <<>>, tasks' = Tail(tasks), Ids' = Ids,
         UNCHANGED <<unpublishing, answered, offer, answer>>
  PROVE  SetsType' /\ Head(tasks) \in Ids
<1>1. tasks \in Seq(Nat) /\ \A i \in DOMAIN tasks : tasks[i] \in Ids
  BY DEF IInv, SetsType
<1>2. /\ tasks' \in Seq(Nat) /\ Head(tasks) = tasks[1] /\ 1 \in DOMAIN tasks
      /\ \A i \in DOMAIN tasks' : i + 1 \in DOMAIN tasks /\ tasks'[i] = tasks[i + 1]
  BY <1>1
<1>3. QED
  BY <1>1, <1>2 DEF IInv, SetsType

LEMMA InstallKeeps ==
  ASSUME IInv, NEW n \in Ids, Install(n)
  PROVE  IInv'
<1> USE DEF Install, recoveryVars, linkVars, bookVars, negotiationVars
<1>1. /\ OpsType' /\ RemovalsOfDone' /\ PublishedDone' /\ Owned' /\ RemovedAway'
      /\ Ids' = Ids /\ WaitersWait'
  <2>1. CASE ~At(n, "installing")
    <3>1. /\ OpsType' /\ RemovalsOfDone' /\ PublishedDone' /\ Owned' /\ RemovedAway'
          /\ Ids' = Ids
      BY <2>1, TransactionsStay
    <3>2. WaitersWait'
      BY <2>1, <3>1 DEF IInv, WaitersWait, At
    <3>3. QED
      BY <3>1, <3>2
  <2>2. CASE At(n, "installing") /\ ~Current(n)
    <3>1. Move(n, "failing") /\ senders' = senders
      BY <2>2
    <3>2. n \notin waiters
      BY <2>2, IdsAreNumbers DEF At, IInv, WaitersWait
    <3>3. QED
      BY <2>2, <3>1, <3>2, OneMoves DEF At, Past, Stages
  <2>3. CASE At(n, "installing") /\ Current(n)
    <3>1. MoveAll({n}, "installed") /\ senders' = senders \cup {n}
      BY <2>3 DEF Move
    <3>2. Kept /\ \A m \in Ids : ops'[m].stage = IF m = n THEN "installed" ELSE ops[m].stage
      BY <2>3, <3>1, MovesKeep, MoveAllKeeps DEF IInv, At, Stages
    <3>3. OpsType' /\ RemovalsOfDone' /\ Ids' = Ids
      BY <3>2, KeptTransactions DEF IInv, OpsType, Kept
    <3>4. PublishedDone' /\ Owned'
      BY <3>1, <3>2 DEF IInv, PublishedDone, Owned, At, Ended, Kept
    <3>5. \A m \in Ids : ops[m].kind = "unpublish" => ops[m].of # n
      BY <2>3 DEF IInv, RemovalsOfDone, At
    <3>6. RemovedAway'
      BY <3>1, <3>2, <3>5 DEF IInv, RemovedAway, Current, Kept
    <3>7. WaitersWait'
      BY <2>3, <3>2 DEF IInv, WaitersWait, At, Kept
    <3>8. QED
      BY <3>3, <3>4, <3>6, <3>7
  <2>4. QED
    BY <2>1, <2>2, <2>3
<1>2. SetsType'
  BY <1>1, TasksGoOn
<1>3. ControlType' /\ OneOffer'
  BY DEF IInv, ControlType, OneOffer
<1>4. QED
  BY <1>1, <1>2, <1>3 DEF IInv

\* A transaction asks for a negotiation and waits for it.
LEMMA OneNegotiates ==
  ASSUME IInv, NEW n \in Ids, Negotiate({n}),
         UNCHANGED <<generation, published, senders, signaling, offer, answer>>,
         ~At(n, "done"), ops[n].kind = "unpublish" /\ Current(n) => ops[n].stage \in Past,
         OpsType' /\ RemovalsOfDone', Ids' = Ids,
         \A m \in Ids : /\ ops'[m].kind = ops[m].kind /\ ops'[m].of = ops[m].of
                        /\ ops'[m].gen = ops[m].gen
                        /\ ops'[m].stage = IF m = n THEN "negotiating" ELSE ops[m].stage
  PROVE  PublishedDone' /\ Owned' /\ RemovedAway' /\ WaitersWait'
<1>1. PublishedDone' /\ Owned'
  BY DEF IInv, PublishedDone, Owned, At, Ended
<1>2. RemovedAway'
  BY DEF IInv, RemovedAway, Current, Past
<1>3. WaitersWait'
  BY DEF IInv, WaitersWait, At, Negotiate
<1>4. QED
  BY <1>1, <1>2, <1>3

LEMMA NegotiateTrackKeeps ==
  ASSUME IInv, NEW n \in Ids, NegotiateTrack(n)
  PROVE  IInv'
<1> USE DEF NegotiateTrack, recoveryVars, linkVars, bookVars
<1>1. CASE Current(n)
  <2>1. MoveAll({n}, "negotiating") /\ Negotiate({n})
    BY <1>1 DEF Move
  <2>2. Kept
    BY <2>1, MovesKeep DEF IInv, At, Stages, PublishStages
  <2>3. OpsType' /\ RemovalsOfDone' /\ Ids' = Ids
    BY <2>2, KeptTransactions DEF IInv, OpsType, Kept
  <2>4. \A m \in Ids : ops'[m].stage = IF m = n THEN "negotiating" ELSE ops[m].stage
    BY <2>1, MoveAllKeeps DEF IInv, Stages
  <2>5. PublishedDone' /\ Owned' /\ RemovedAway' /\ WaitersWait'
    <3>1. ops[n].kind # "unpublish"
      BY DEF IInv, RemovalsOfDone, PublishStages, At
    <3>2. QED
      BY <2>1, <2>2, <2>3, <2>4, <3>1, OneNegotiates DEF Kept, At
  <2>6. ControlType' /\ OneOffer'
    BY <2>1, NegotiateKeeps DEF IInv, ControlType
  <2>7. SetsType'
    BY <2>3, SetsStay
  <2>8. QED
    BY <2>3, <2>5, <2>6, <2>7 DEF IInv
<1>2. CASE ~Current(n)
  <2>1. /\ OpsType' /\ RemovalsOfDone' /\ PublishedDone' /\ Owned' /\ RemovedAway'
        /\ Ids' = Ids /\ WaitersWait'
    <3>1. Move(n, "failing") /\ n \notin waiters'
      BY <1>2, IdsAreNumbers DEF At, IInv, WaitersWait, negotiationVars
    <3>2. QED
      BY <1>2, <3>1, OneMoves DEF At, Past, PublishStages, Stages, negotiationVars
  <2>2. SetsType'
    BY <2>1, SetsStay
  <2>3. ControlType' /\ OneOffer'
    BY <1>2 DEF IInv, ControlType, OneOffer, negotiationVars
  <2>4. QED
    BY <2>1, <2>2, <2>3 DEF IInv
<1>3. QED
  BY <1>1, <1>2

\* One transaction is replaced by another record.
LEMMA OneChanges ==
  ASSUME IInv, NEW n \in Ids, NEW r \in OpRecords, ops' = [ops EXCEPT ![n] = r]
  PROVE  /\ ops' \in Seq(OpRecords) /\ Ids' = Ids /\ ops'[n] = r
         /\ \A m \in Ids : m # n => ops'[m] = ops[m]
<1>1. Ids = 1 .. Len(ops) /\ Len(ops) \in Nat /\ ops \in Seq(OpRecords)
  BY IdsAreNumbers DEF IInv, OpsType
<1>2. ops' \in Seq(OpRecords) /\ Len(ops') = Len(ops)
  BY <1>1
<1>3. QED
  BY <1>1, <1>2 DEF Ids

LEMMA RecordEnds ==
  ASSUME NEW op \in OpRecords, NEW c, c \in BOOLEAN
  PROVE  LET new == [op EXCEPT !.stage = "done", !.calm = c]
         IN  /\ new \in OpRecords /\ new.stage = "done" /\ new.kind = op.kind
             /\ new.track = op.track /\ new.of = op.of /\ new.gen = op.gen
BY DEF OpRecords, Stages

\* A publish ends well.
LEMMA PublishEnds ==
  ASSUME IInv, NEW n \in Ids, At(n, "negotiated"), ops[n].kind # "unpublish",
         NEW r \in OpRecords, ops' = [ops EXCEPT ![n] = r],
         r.stage = "done", r.kind = ops[n].kind, r.track = ops[n].track,
         r.of = ops[n].of, r.gen = ops[n].gen,
         published' = published \cup {n}, UNCHANGED <<generation, senders, waiters>>
  PROVE  /\ OpsType' /\ RemovalsOfDone' /\ PublishedDone' /\ Owned' /\ RemovedAway'
         /\ Ids' = Ids /\ WaitersWait'
<1>1. /\ ops' \in Seq(OpRecords) /\ Ids' = Ids /\ ops'[n] = r
      /\ \A m \in Ids : m # n => ops'[m] = ops[m]
  BY OneChanges
<1>2. Kept
  BY <1>1 DEF IInv, RemovalsOfDone, PublishStages, Kept
<1>3. OpsType' /\ RemovalsOfDone'
  BY <1>2, KeptTransactions DEF IInv, OpsType
<1>4. PublishedDone'
  BY <1>1 DEF IInv, PublishedDone, At
<1>5. Owned'
  BY <1>1 DEF IInv, Owned, Ended
<1>6. RemovedAway' /\ WaitersWait'
  BY <1>1 DEF IInv, RemovedAway, WaitersWait, Current, At
<1>7. QED
  BY <1>1, <1>3, <1>4, <1>5, <1>6

LEMMA CommitPublishKeeps ==
  ASSUME IInv, NEW n \in Ids, CommitPublish(n)
  PROVE  IInv'
<1> USE DEF CommitPublish, recoveryVars, linkVars, pcVars, negotiationVars
<1>1. CASE Current(n)
  <2>1. /\ OpsType' /\ RemovalsOfDone' /\ PublishedDone' /\ Owned' /\ RemovedAway'
        /\ Ids' = Ids /\ WaitersWait'
    <3> DEFINE r == [ops[n] EXCEPT !.stage = "done", !.calm = ~active]
    <3>1. ops' = [ops EXCEPT ![n] = r]
      BY <1>1, Zenon
    <3>2. ops[n] \in OpRecords
      BY DEF IInv, OpsType, Ids
    <3>3. (~active) \in BOOLEAN
      OBVIOUS
    <3>4. /\ r \in OpRecords /\ r.stage = "done" /\ r.kind = ops[n].kind
          /\ r.track = ops[n].track /\ r.of = ops[n].of /\ r.gen = ops[n].gen
      BY <3>2, <3>3, RecordEnds, Zenon
    <3> HIDE DEF r
    <3>5. QED
      BY <1>1, <3>1, <3>4, PublishEnds
  <2>2. SetsType'
    BY <2>1, SetsStay
  <2>3. ControlType' /\ OneOffer'
    BY DEF IInv, ControlType, OneOffer
  <2>4. QED
    BY <2>1, <2>2, <2>3 DEF IInv
<1>2. CASE ~Current(n)
  <2>1. /\ OpsType' /\ RemovalsOfDone' /\ PublishedDone' /\ Owned' /\ RemovedAway'
        /\ Ids' = Ids /\ WaitersWait'
    <3>1. Move(n, "failing") /\ n \notin waiters'
      BY <1>2, IdsAreNumbers DEF At, IInv, WaitersWait
    <3>2. QED
      BY <1>2, <3>1, OneMoves DEF At, Past, Stages
  <2>2. SetsType'
    BY <2>1, SetsStay
  <2>3. ControlType' /\ OneOffer'
    BY DEF IInv, ControlType, OneOffer
  <2>4. QED
    BY <2>1, <2>2, <2>3 DEF IInv
<1>3. QED
  BY <1>1, <1>2

LEMMA RollBackKeeps ==
  ASSUME IInv, NEW n \in Ids, RollBack(n)
  PROVE  IInv'
<1> USE DEF RollBack, linkVars, bookVars
<1>1. n \notin waiters /\ ~At(n, "done") /\ waiters' = waiters
  BY IdsAreNumbers DEF IInv, WaitersWait, At, Negotiate, negotiationVars
<1>2. /\ OpsType' /\ RemovalsOfDone' /\ PublishedDone' /\ Owned' /\ RemovedAway'
      /\ Ids' = Ids /\ WaitersWait'
  BY <1>1, OneMoves DEF Past, Stages
<1>3. SetsType'
  BY <1>2, SetsStay
<1>4. /\ creating' \in BOOLEAN /\ timer' \in BOOLEAN
      /\ negotiation' \in {"Idle", "InProgress", "PendingRetry"} /\ OneOffer'
  <2>1. CASE At(n, "failing") /\ Current(n)
    BY <2>1, NegotiateKeeps
  <2>2. CASE ~(At(n, "failing") /\ Current(n))
    BY <2>2 DEF IInv, ControlType, OneOffer, negotiationVars
  <2>3. QED
    BY <2>1, <2>2
<1>5. ControlType'
  BY <1>4 DEF IInv, ControlType, AttemptFails
<1>6. QED
  BY <1>2, <1>3, <1>4, <1>5 DEF IInv

-----------------------------------------------------------------------------
(* Unpublishing.                                                           *)

LEMMA UnpublishKeeps ==
  ASSUME IInv, NEW p \in published, Unpublish(p)
  PROVE  IInv'
<1> USE DEF Unpublish, recoveryVars, linkVars, negotiationVars
<1> DEFINE op == Operation("unpublish", ops[p].track, p, "removing")
<1>1. p \in Ids /\ At(p, "done") /\ ops[p].kind # "unpublish" /\ ops[p] \in OpRecords
  BY DEF IInv, PublishedDone, OpsType, Ids
<1>2. p \in Nat /\ Len(ops) + 1 \in Nat
  BY <1>1, IdsAreNumbers DEF IInv
<1>3. /\ op \in OpRecords /\ op.gen = generation /\ op.stage \notin Past \cup PublishStages
      /\ op.of = p /\ op.track = ops[p].track
  BY <1>1, <1>2 DEF IInv, Operation, OpRecords, Kinds, Stages, Past, PublishStages, OpsType
<1>4. /\ OpsType' /\ RemovalsOfDone' /\ PublishedDone' /\ Owned' /\ RemovedAway'
      /\ Ids' = Ids \cup {Len(ops) + 1} /\ \A n \in Ids : ops'[n] = ops[n]
  <2>1. ops' = Append(ops, op)
    OBVIOUS
  <2>2. UNCHANGED <<generation, published, senders>>
    OBVIOUS
  <2> HIDE DEF op
  <2>3. QED
    BY <1>1, <1>3, <2>1, <2>2, TransactionBegins
<1>5. WaitersWait'
  BY <1>4 DEF IInv, WaitersWait, At
<1>6. SetsType'
  <2>1. tasks' = Append(tasks, Len(ops) + 1) /\ tasks \in Seq(Nat)
        /\ \A i \in DOMAIN tasks : tasks[i] \in Ids
    BY DEF IInv, SetsType
  <2>2. tasks' \in Seq(Nat) /\ \A i \in DOMAIN tasks' : tasks'[i] \in Ids \cup {Len(ops) + 1}
    BY <1>2, <2>1
  <2>3. /\ unpublishing' \subseteq Ids' /\ answered' \subseteq Ids'
        /\ (offer' = None \/ offer' \subseteq Ids') /\ (answer' = None \/ answer' \subseteq Ids')
    BY <1>1, <1>4 DEF IInv, SetsType
  <2>4. QED
    BY <1>4, <2>2, <2>3 DEF SetsType
<1>7. ControlType' /\ OneOffer'
  BY DEF IInv, ControlType, OneOffer
<1>8. QED
  BY <1>4, <1>5, <1>6, <1>7 DEF IInv

LEMMA RemoveSendersKeeps ==
  ASSUME IInv, NEW m \in Ids, RemoveSenders(m)
  PROVE  IInv'
<1> USE DEF RemoveSenders, recoveryVars, linkVars, bookVars, negotiationVars
<1> DEFINE own == {n \in senders : Current(m) /\ ops[n].track = ops[m].track}
<1>1. /\ OpsType' /\ RemovalsOfDone' /\ PublishedDone' /\ Owned' /\ RemovedAway'
      /\ Ids' = Ids /\ WaitersWait'
  <2>1. CASE At(m, "removing")
    <3>1. PICK st \in {"failing", "removed"} : Move(m, st)
      BY <2>1
    <3>2. m \notin waiters'
      BY <2>1, IdsAreNumbers DEF IInv, WaitersWait, At
    <3>3. m \notin senders
      BY DEF IInv, Owned
    <3>4. Current(m) => ops[m].of \notin senders'
      BY DEF IInv, RemovalsOfDone
    <3>5. QED
      BY <2>1, <3>1, <3>2, <3>3, <3>4, OneMoves DEF At, Past, PublishStages, Stages
  <2>2. CASE ~At(m, "removing")
    <3>1. ops' = ops
      BY <2>2
    <3>2. Kept
      BY <3>1, NothingMoves DEF IInv
    <3>3. OpsType' /\ RemovalsOfDone' /\ Ids' = Ids
      BY <3>2, KeptTransactions DEF IInv, OpsType, Kept
    <3>4. PublishedDone' /\ Owned'
      BY <3>1, <3>3 DEF IInv, PublishedDone, Owned, At, Ended
    <3>5. RemovedAway' /\ WaitersWait'
      BY <3>1, <3>3 DEF IInv, RemovedAway, WaitersWait, Current, At
    <3>6. QED
      BY <3>3, <3>4, <3>5
  <2>3. QED
    BY <2>1, <2>2
<1>2. SetsType'
  BY <1>1, TasksGoOn
<1>3. ControlType' /\ OneOffer'
  BY DEF IInv, ControlType, OneOffer
<1>4. QED
  BY <1>1, <1>2, <1>3 DEF IInv

LEMMA RecordNegotiates ==
  ASSUME NEW op \in OpRecords
  PROVE  LET new == [op EXCEPT !.stage = "negotiating", !.removed = TRUE]
         IN  /\ new \in OpRecords /\ new.stage = "negotiating" /\ new.kind = op.kind
             /\ new.track = op.track /\ new.of = op.of /\ new.gen = op.gen
BY DEF OpRecords, Stages

LEMMA NegotiateRemovalKeeps ==
  ASSUME IInv, NEW m \in Ids, NegotiateRemoval(m)
  PROVE  IInv'
<1> USE DEF NegotiateRemoval, recoveryVars, linkVars, bookVars
<1>1. CASE Current(m)
  <2> DEFINE r == [ops[m] EXCEPT !.stage = "negotiating", !.removed = TRUE]
  <2>1. ops' = [ops EXCEPT ![m] = r] /\ Negotiate({m})
    BY <1>1, Zenon
  <2>2. ops[m] \in OpRecords
    BY DEF IInv, OpsType, Ids
  <2>3. /\ r \in OpRecords /\ r.stage = "negotiating" /\ r.kind = ops[m].kind
        /\ r.track = ops[m].track /\ r.of = ops[m].of /\ r.gen = ops[m].gen
    BY <2>2, RecordNegotiates, Zenon
  <2> HIDE DEF r
  <2>4. /\ ops' \in Seq(OpRecords) /\ Ids' = Ids /\ ops'[m] = r
        /\ \A n \in Ids : n # m => ops'[n] = ops[n]
    BY <2>1, <2>3, OneChanges
  <2>5. Kept
    BY <2>3, <2>4 DEF IInv, RemovalsOfDone, PublishStages, Kept, At
  <2>6. OpsType' /\ RemovalsOfDone'
    BY <2>5, KeptTransactions DEF IInv, OpsType
  <2>7. PublishedDone' /\ Owned' /\ RemovedAway' /\ WaitersWait'
    <3> HIDE DEF NegotiateRemoval, recoveryVars, linkVars, bookVars
    <3>1. ops[m].stage = "removed"
          /\ UNCHANGED <<generation, published, senders, signaling, offer, answer>>
      BY <1>1 DEF NegotiateRemoval, recoveryVars, linkVars, bookVars, At
    <3>2. ~At(m, "done") /\ ops[m].stage \in Past
      BY <3>1 DEF At, Past
    <3>3. \A n \in Ids :
             /\ ops'[n].kind = ops[n].kind /\ ops'[n].of = ops[n].of /\ ops'[n].gen = ops[n].gen
             /\ ops'[n].stage = IF n = m THEN "negotiating" ELSE ops[n].stage
      BY <2>3, <2>4
    <3>4. QED
      BY <2>1, <2>4, <2>6, <3>1, <3>2, <3>3, OneNegotiates
  <2>8. ControlType' /\ OneOffer'
    BY <2>1, NegotiateKeeps DEF IInv, ControlType
  <2>9. SetsType'
    BY <2>4, SetsStay
  <2>10. QED
    BY <2>6, <2>7, <2>8, <2>9 DEF IInv
<1>2. CASE ~Current(m)
  <2>1. /\ OpsType' /\ RemovalsOfDone' /\ PublishedDone' /\ Owned' /\ RemovedAway'
        /\ Ids' = Ids /\ WaitersWait'
    <3>1. Move(m, "failing") /\ m \notin waiters'
      BY <1>2, IdsAreNumbers DEF At, IInv, WaitersWait, negotiationVars
    <3>2. QED
      BY <1>2, <3>1, OneMoves DEF At, Past, PublishStages, Stages, negotiationVars
  <2>2. SetsType'
    BY <2>1, SetsStay
  <2>3. ControlType' /\ OneOffer'
    BY <1>2 DEF IInv, ControlType, OneOffer, negotiationVars
  <2>4. QED
    BY <2>1, <2>2, <2>3 DEF IInv
<1>3. QED
  BY <1>1, <1>2

\* The publication goes, and has no sender any more.
LEMMA CommitUnpublishKeeps ==
  ASSUME IInv, NEW m \in Ids, CommitUnpublish(m)
  PROVE  IInv'
<1> USE DEF CommitUnpublish, recoveryVars, linkVars, pcVars, negotiationVars
<1>0. m \notin waiters
  BY IdsAreNumbers DEF IInv, WaitersWait, At
<1>1. CASE Current(m) /\ room = "Connected" /\ ops[m].of \in unpublishing
  <2>1. MoveAll({m}, "done") /\ published' = published \ {ops[m].of}
    BY <1>1 DEF Move
  <2>2. Kept
    BY <2>1, MovesKeep DEF IInv, Stages, PublishStages, At
  <2>3. OpsType' /\ RemovalsOfDone' /\ Ids' = Ids
    BY <2>2, KeptTransactions DEF IInv, OpsType, Kept
  <2>4. \A n \in Ids : ops'[n].stage = IF n = m THEN "done" ELSE ops[n].stage
    BY <2>1, MoveAllKeeps DEF IInv, Stages
  <2>5. PublishedDone'
    BY <2>1, <2>2, <2>3, <2>4 DEF IInv, PublishedDone, At, Kept
  <2>6. ops[m].of \notin senders /\ m \notin senders
    BY <1>1 DEF IInv, RemovedAway, Owned, Current, At
  <2>7. Owned'
    BY <2>1, <2>2, <2>3, <2>4, <2>6 DEF IInv, Owned, Ended, Kept
  <2>8. RemovedAway' /\ WaitersWait'
    BY <1>0, <2>2, <2>3, <2>4 DEF IInv, RemovedAway, WaitersWait, Current, At, Kept
  <2>9. SetsType'
    BY <1>1, <2>3, SetsStay
  <2>10. ControlType' /\ OneOffer'
    BY DEF IInv, ControlType, OneOffer
  <2>11. QED
    BY <2>3, <2>5, <2>7, <2>8, <2>9, <2>10 DEF IInv
<1>2. CASE ~(Current(m) /\ room = "Connected" /\ ops[m].of \in unpublishing)
  <2>1. /\ OpsType' /\ RemovalsOfDone' /\ PublishedDone' /\ Owned' /\ RemovedAway'
        /\ Ids' = Ids /\ WaitersWait'
    <3>1. Move(m, "failing")
      BY <1>2
    <3>2. QED
      BY <1>0, <1>2, <3>1, OneMoves DEF At, Past, PublishStages, Stages
  <2>2. SetsType'
    BY <1>2, <2>1, SetsStay
  <2>3. ControlType' /\ OneOffer'
    BY DEF IInv, ControlType, OneOffer
  <2>4. QED
    BY <2>1, <2>2, <2>3 DEF IInv
<1>3. QED
  BY <1>1, <1>2

LEMMA UnpublishFailsKeeps ==
  ASSUME IInv, NEW m \in Ids, UnpublishFails(m)
  PROVE  IInv'
<1> USE DEF UnpublishFails, recoveryVars, linkVars, pcVars, negotiationVars
<1>1. m \notin waiters /\ m \notin senders
  BY IdsAreNumbers DEF IInv, WaitersWait, Owned, At
<1>2. PICK st \in {"uncertain", "failed"} : Move(m, st)
  OBVIOUS
<1>3. /\ OpsType' /\ RemovalsOfDone' /\ PublishedDone' /\ Owned' /\ RemovedAway'
      /\ Ids' = Ids /\ WaitersWait'
  BY <1>1, <1>2, OneMoves DEF At, Past, PublishStages, Stages
<1>4. SetsType'
  BY <1>3, SetsStay
<1>5. ControlType' /\ OneOffer'
  BY DEF IInv, ControlType, OneOffer
<1>6. QED
  BY <1>3, <1>4, <1>5 DEF IInv

LEMMA TimeoutKeeps ==
  ASSUME IInv, NEW n \in Ids, Timeout(n)
  PROVE  IInv'
<1> USE DEF Timeout, recoveryVars, linkVars, bookVars, pcVars
<1>1. PICK st \in {"refused", "failing"} :
        Move(n, st) /\ (st = "refused" => At(n, "acking"))
  OBVIOUS
<1>2. ~At(n, "done") /\ (At(n, "acking") => ops[n].kind # "unpublish")
  BY DEF IInv, RemovalsOfDone, PublishStages, At
<1>3. /\ OpsType' /\ RemovalsOfDone' /\ PublishedDone' /\ Owned' /\ RemovedAway'
      /\ Ids' = Ids /\ WaitersWait'
  BY <1>1, <1>2, OneMoves DEF Past, PublishStages, Stages
<1>4. SetsType'
  BY <1>3, SetsStay
<1>5. ControlType' /\ OneOffer'
  BY DEF IInv, ControlType, OneOffer
<1>6. QED
  BY <1>3, <1>4, <1>5 DEF IInv

-----------------------------------------------------------------------------
(* The link and the recovery.                                              *)

\* A step that leaves the transactions, the senders and the connection
\* alone; what is in flight may be lost, a waiter may go.
LEMMA RecoveryKeeps ==
  ASSUME IInv, UNCHANGED <<ops, generation, published, unpublishing, pcVars, timer>>,
         waiters' \subseteq waiters, answer' \in {answer, None},
         UNCHANGED negotiation,
         room' \in {"Connected", "Reconnecting", "Disconnected"}, link' \in {"open", "broken"},
         driver' \in {"idle", "backoff", "connecting stream", "resuming", "resumed",
                      "restarting", "connecting", "republishing"}
  PROVE  IInv'
<1> USE DEF pcVars
<1>1. /\ OpsType' /\ RemovalsOfDone' /\ PublishedDone' /\ Owned' /\ RemovedAway'
      /\ Ids' = Ids
  BY TransactionsStay
<1>2. SetsType'
  BY <1>1, SetsStay
<1>3. WaitersWait'
  BY <1>1 DEF IInv, WaitersWait, At
<1>4. ControlType' /\ OneOffer'
  BY DEF IInv, ControlType, OneOffer
<1>5. QED
  BY <1>1, <1>2, <1>3, <1>4 DEF IInv

LEMMA ResumeStreamKeeps ==
  ASSUME IInv, ResumeStream
  PROVE  IInv'
<1> USE DEF ResumeStream, bookVars
<1>1. /\ OpsType' /\ RemovalsOfDone' /\ PublishedDone' /\ Owned' /\ RemovedAway'
      /\ Ids' = Ids
  BY TransactionsStay
<1>2. SetsType'
  BY <1>1, SetsStay
<1>3. WaitersWait'
  BY <1>1 DEF IInv, WaitersWait, At, Negotiate
<1>4. ControlType' /\ OneOffer'
  BY DEF IInv, ControlType, OneOffer, Negotiate, Execute
<1>5. QED
  BY <1>1, <1>2, <1>3, <1>4 DEF IInv

\* A teardown.
LEMMA TearDownKeeps ==
  ASSUME IInv, TearDown, UNCHANGED tasks, driver' \in {"idle", "connecting"}
  PROVE  IInv'
<1> USE DEF TearDown
<1>1. Ids = 1 .. Len(ops) /\ Len(ops) \in Nat /\ ops \in Seq(OpRecords)
  BY IdsAreNumbers DEF IInv, OpsType
<1>2. \A n \in Ids : ops[n] \in OpRecords
  BY <1>1
<1>3. \A n \in Ids : /\ ops'[n] \in OpRecords
                     /\ ops'[n].kind = ops[n].kind /\ ops'[n].track = ops[n].track
                     /\ ops'[n].of = ops[n].of /\ ops'[n].gen = ops[n].gen
                     /\ \/ n \in waiters /\ ops'[n].stage = "failing"
                        \/ At(n, "acking") /\ ops'[n].stage = "refused"
                        \/ ops'[n].stage = ops[n].stage
  BY <1>2 DEF OpRecords, Stages, At
<1>4. ops' \in [1 .. Len(ops) -> OpRecords]
  BY <1>1, <1>3
<1>5. ops' \in Seq(OpRecords) /\ Ids' = Ids
  BY <1>1, <1>4 DEF Ids
<1>6. \A n \in waiters \cap Ids : ops[n].stage = "negotiating"
  BY IdsAreNumbers DEF IInv, WaitersWait, At
<1>7. Kept
  BY <1>3, <1>5, <1>6 DEF IInv, RemovalsOfDone, PublishStages, Kept, At
<1>8. OpsType' /\ RemovalsOfDone'
  <2>1. generation \in Nat /\ OpsType /\ RemovalsOfDone
    BY DEF IInv, OpsType
  <2>2. generation' = generation + 1
    OBVIOUS
  <2>3. generation' \in Nat /\ generation <= generation'
    BY <2>1, <2>2
  <2>4. QED
    BY <1>7, <2>1, <2>3, KeptTransactions
<1>9. PublishedDone' /\ Owned' /\ RemovedAway' /\ WaitersWait'
  BY DEF PublishedDone, Owned, RemovedAway, WaitersWait
<1>10. SetsType'
  BY <1>5 DEF IInv, SetsType
<1>11. ControlType' /\ OneOffer'
  BY DEF IInv, ControlType, OneOffer
<1>12. QED
  BY <1>8, <1>9, <1>10, <1>11 DEF IInv

LEMMA RepublishKeeps ==
  ASSUME IInv, NEW t \in Tracks, Republish(t)
  PROVE  IInv'
<1> USE DEF Republish
<1>1. CASE room = "Connected"
  <2>1. /\ OpsType' /\ RemovalsOfDone' /\ PublishedDone' /\ Owned' /\ RemovedAway'
        /\ SetsType' /\ WaitersWait'
    BY <1>1, PublishTrackKeeps DEF negotiationVars
  <2>2. ControlType' /\ OneOffer'
    BY <1>1 DEF IInv, ControlType, OneOffer, pcVars, negotiationVars
  <2>3. QED
    BY <2>1, <2>2 DEF IInv
<1>2. CASE room # "Connected"
  BY <1>2, RecoveryKeeps DEF IInv, ControlType, AttemptFails, negotiationVars
<1>3. QED
  BY <1>1, <1>2

LEMMA RecoveryStepKeeps ==
  ASSUME IInv, Recovery \/ BreakLink \/ RestartFails
  PROVE  IInv'
<1> USE DEF recoveryVars, linkVars, bookVars, negotiationVars
<1>a. ControlType
  BY DEF IInv
<1>1. CASE BreakLink
  BY <1>1, <1>a, RecoveryKeeps DEF BreakLink, ControlType
<1>2. CASE NoticeClose
  BY <1>2, <1>a, RecoveryKeeps DEF NoticeClose, ControlType
<1>3. CASE StartReconnect
  BY <1>3, <1>a, RecoveryKeeps DEF StartReconnect, ControlType
<1>4. CASE BeginAttempt
  BY <1>4, <1>a, RecoveryKeeps DEF BeginAttempt, ControlType
<1>5. CASE ResumeStream
  BY <1>5, ResumeStreamKeeps
<1>6. CASE ResumeFails
  BY <1>6, <1>a, RecoveryKeeps DEF ResumeFails, ControlType
<1>7. CASE CommitResume
  BY <1>7, <1>a, RecoveryKeeps DEF CommitResume, ControlType
<1>8. CASE Restart
  BY <1>8, TearDownKeeps DEF Restart
<1>9. CASE GiveUp
  BY <1>9, TearDownKeeps DEF GiveUp
<1>10. CASE Rejoin
  BY <1>10, <1>a, RecoveryKeeps DEF Rejoin, ControlType
<1>11. CASE RestartFails
  BY <1>11, <1>a, RecoveryKeeps DEF RestartFails, AttemptFails, ControlType
<1>12. CASE CommitRestart
  BY <1>12, <1>a, RecoveryKeeps DEF CommitRestart, ControlType
<1>13. CASE \E t \in Tracks : Republish(t)
  BY <1>13, RepublishKeeps
<1>14. QED
  BY <1>1, <1>2, <1>3, <1>4, <1>5, <1>6, <1>7, <1>8, <1>9, <1>10, <1>11, <1>12, <1>13
     DEF Recovery

-----------------------------------------------------------------------------
(* The invariant.                                                          *)

LEMMA InitHolds ==
  ASSUME Init
  PROVE  IInv
<1>1. Ids = {} /\ ops \in Seq(OpRecords)
  BY DEF Init, Ids
<1>2. OpsType /\ RemovalsOfDone /\ RemovedAway
  BY <1>1 DEF Init, OpsType, RemovalsOfDone, RemovedAway
<1>3. SetsType
  BY DEF Init, SetsType
<1>4. ControlType /\ OneOffer /\ WaitersWait /\ PublishedDone /\ Owned
  BY DEF Init, ControlType, OneOffer, WaitersWait, PublishedDone, Owned
<1>5. QED
  BY <1>2, <1>3, <1>4 DEF IInv

LEMMA StutterKeeps ==
  ASSUME IInv, UNCHANGED vars
  PROVE  IInv'
BY RecoveryKeeps
   DEF IInv, ControlType, vars, recoveryVars, linkVars, bookVars, pcVars, negotiationVars

LEMMA StepKeeps ==
  ASSUME IInv, [Next]_vars
  PROVE  IInv'
<1>1. CASE \E t \in Tracks : Publish(t)
  BY <1>1, PublishKeeps
<1>2. CASE \E p \in published : Unpublish(p)
  BY <1>2, UnpublishKeeps
<1>3. CASE \E n \in Ids : Timeout(n)
  BY <1>3, TimeoutKeeps
<1>4. CASE \E n \in Ids : Transaction(n)
  <2>1. PICK n \in Ids : Transaction(n)
    BY <1>4
  <2>2. QED
    BY <2>1, AcknowledgeKeeps, PostInstallKeeps, InstallKeeps, NegotiateTrackKeeps,
       CommitPublishKeeps, RollBackKeeps, RemoveSendersKeeps, NegotiateRemovalKeeps,
       CommitUnpublishKeeps, UnpublishFailsKeeps DEF Transaction
<1>5. CASE Negotiation
  BY <1>5, CreateOfferKeeps, SendOfferKeeps, ApplyAnswerKeeps, RetryTimerKeeps DEF Negotiation
<1>6. CASE OfferFails \/ SetLocalFails \/ RefuseAnswer
  BY <1>6, OfferFailsKeeps, RefuseAnswerKeeps
<1>7. CASE Recovery \/ BreakLink \/ RestartFails
  BY <1>7, RecoveryStepKeeps
<1>8. CASE UNCHANGED vars
  BY <1>8, StutterKeeps
<1>9. QED
  BY <1>1, <1>2, <1>3, <1>4, <1>5, <1>6, <1>7, <1>8 DEF Next

\* The invariant holds of every execution, for any tracks and any number of
\* transactions, faults and attempts.
THEOREM InvariantHolds == Spec => []IInv
BY InitHolds, StepKeeps, PTL DEF Spec

\* Every variable of the publication of local tracks has its type; only
\* transactions that wait for a negotiation are among its waiters.
THEOREM TypeCorrect == Spec => []TypeOK
<1>1. IInv => TypeOK
  <2>1. SUFFICES ASSUME IInv PROVE TypeOK
    OBVIOUS
  <2>2. \A n \in Ids : ops[n].stage \in Stages /\ ops[n].gen <= generation
    <3>1. \A n \in Ids : ops[n] \in OpRecords
      BY <2>1 DEF IInv, OpsType, Ids
    <3>2. QED
      BY <2>1, <3>1 DEF IInv, OpsType, OpRecords
  <2>3. published \cup unpublishing \cup senders \cup answered \cup Posted \subseteq Ids
    BY <2>1 DEF IInv, SetsType, PublishedDone, Owned, Posted
  <2>4. QED
    BY <2>1, <2>2, <2>3 DEF IInv, ControlType, OneOffer, WaitersWait, TypeOK
<1> QED BY <1>1, InvariantHolds, PTL

\* Whatever fails, times out or is torn down, every sender belongs to a
\* publication or to a transaction that goes on (PublishLocalTrackAsync).
THEOREM NoSenderIsLeft == Spec => []SendersAreOwned
<1>1. IInv => SendersAreOwned
  BY DEF IInv, Owned, SendersAreOwned
<1> QED BY <1>1, InvariantHolds, PTL

=============================================================================
